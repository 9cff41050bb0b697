--------------------------- MODULE Archive_proofs ---------------------------
(***************************************************************************)
(* What is stored of a company stays and becomes complete, for any market, *)
(* any number of stock pages and any order of their steps with those of    *)
(* the jobs, restarts included; a bar that is called finished is, for any  *)
(* trading hours and any time a call spends waiting; and the scans of one  *)
(* market agree, whatever they read when.                                  *)
(***************************************************************************)
EXTENDS CompanyArchive, InsiderTrades, MarketScan, ProviderClient, Sums_proofs, SequenceTheorems,
    TLAPS

-----------------------------------------------------------------------------
(* Report dates. *)

Dates == [last : Nat, next : Nat]

RowsInv ==
    /\ today \in Nat \ {0}
    /\ row \in [companies -> Dates \union {Missing}]
    /\ page.at = "store" => page.new \in Dates

LEMMA MaxOfThree ==
    ASSUME NEW a \in Nat, NEW b \in Nat, NEW c \in Nat
    PROVE  Max({a, b, c}) \in {a, b, c} /\ \A x \in {a, b, c} : x <= Max({a, b, c})
<1>1. \E x \in {a, b, c} : \A y \in {a, b, c} : x >= y
    <2>1. CASE a >= b /\ a >= c
        BY <2>1
    <2>2. CASE b >= a /\ b >= c
        BY <2>2
    <2>3. CASE c >= a /\ c >= b
        BY <2>3
    <2> QED BY <2>1, <2>2, <2>3
<1> DEFINE m == Max({a, b, c})
<1>2. m \in {a, b, c} /\ \A y \in {a, b, c} : m >= y
    BY <1>1 DEF Max
<1> HIDE DEF m
<1>3. \A y \in {a, b, c} : y <= m
    BY <1>2
<1> QED BY <1>2, <1>3 DEF m

LEMMA MaxOfTwo ==
    ASSUME NEW a \in Nat, NEW b \in Nat
    PROVE  Max({a, b}) \in {a, b} /\ a <= Max({a, b}) /\ b <= Max({a, b})
<1>1. {a, b} = {a, b, b}
    OBVIOUS
<1> QED BY <1>1, MaxOfThree

\* What is known of a row on a day.
KnownOf(r, day) == IF r = Missing THEN 0 ELSE Max({r.last, IF r.next <= day THEN r.next ELSE 0})

LEMMA KnownOfDates ==
    ASSUME NEW r \in Dates, NEW day \in Nat
    PROVE  /\ KnownOf(r, day) \in Nat /\ r.last <= KnownOf(r, day)
           /\ KnownOf(r, day) = r.last \/ (KnownOf(r, day) = r.next /\ r.next <= day) \/ KnownOf(r, day) = 0
           /\ r.next <= day => r.next <= KnownOf(r, day)
<1> DEFINE due == IF r.next <= day THEN r.next ELSE 0
<1>1. r # Missing /\ r.last \in Nat /\ r.next \in Nat
    BY ArchiveAssumption DEF Dates
<1>2. due \in Nat
    BY <1>1
<1>3. KnownOf(r, day) = Max({r.last, due})
    BY <1>1 DEF KnownOf
<1>4. Max({r.last, due}) \in {r.last, due} /\ r.last <= Max({r.last, due}) /\ due <= Max({r.last, due})
    BY <1>1, <1>2, MaxOfTwo
<1> QED BY <1>1, <1>2, <1>3, <1>4

\* Merging loses no report that has come.
LEMMA MergeKnows ==
    ASSUME NEW old \in Dates, NEW new \in Dates, today \in Nat
    PROVE  Merge(old, new) \in Dates /\ KnownOf(Merge(old, new), today) >= KnownOf(old, today)
<1> DEFINE due == IF old.next <= today THEN old.next ELSE 0
           m == Merge(old, new)
<1>1. /\ old.last \in Nat /\ old.next \in Nat /\ new.last \in Nat /\ new.next \in Nat
      /\ due \in Nat
    BY DEF Dates
<1>2. m.last = Max({new.last, old.last, due}) /\ m.next \in Nat
    BY <1>1 DEF Merge
<1>3. m.last \in {new.last, old.last, due} /\ old.last <= m.last /\ due <= m.last
    BY <1>1, <1>2, MaxOfThree
<1>4. m \in Dates
    <2>1. m.last \in Nat
        BY <1>1, <1>3
    <2> QED BY <1>2, <2>1 DEF Merge, Dates
<1>5. /\ KnownOf(m, today) \in Nat /\ m.last <= KnownOf(m, today)
      /\ KnownOf(old, today) \in Nat
      /\ \/ KnownOf(old, today) = old.last
         \/ KnownOf(old, today) = old.next /\ old.next <= today
         \/ KnownOf(old, today) = 0
    BY <1>4, KnownOfDates
<1>6. KnownOf(old, today) <= m.last
    BY <1>1, <1>3, <1>5
<1> HIDE DEF m
<1>7. m.last \in Nat
    BY <1>4 DEF Dates
<1>8. KnownOf(m, today) >= KnownOf(old, today)
    BY <1>5, <1>6, <1>7
<1> QED BY <1>4, <1>8 DEF m

LEMMA UpsertKnows ==
    ASSUME RowsInv, NEW t \in companies, NEW new \in Dates, UpsertFundamentals(t, new),
           UNCHANGED <<companies, today>>
    PROVE  /\ row' \in [companies -> Dates \union {Missing}]
           /\ \A u \in companies : KnownOf(row'[u], today) >= KnownOf(row[u], today)
<1> DEFINE r == IF row[t] = Missing THEN new ELSE Merge(row[t], new)
<1>1. row' = [row EXCEPT ![t] = r]
    BY DEF UpsertFundamentals
<1>2. r \in Dates /\ KnownOf(r, today) >= KnownOf(row[t], today)
    <2>1. CASE row[t] = Missing
        <3>1. KnownOf(row[t], today) = 0 /\ KnownOf(new, today) \in Nat
            BY <2>1, KnownOfDates DEF KnownOf, RowsInv
        <3> QED BY <2>1, <3>1
    <2>2. CASE row[t] # Missing
        <3>1. row[t] \in Dates /\ today \in Nat
            BY <2>2 DEF RowsInv
        <3> QED BY <2>2, <3>1, MergeKnows
    <2> QED BY <2>1, <2>2
<1>3. \A u \in companies : KnownOf(row[u], today) \in Nat
    <2>1. ASSUME NEW u \in companies PROVE KnownOf(row[u], today) \in Nat
        <3>1. CASE row[u] = Missing
            BY <3>1 DEF KnownOf
        <3>2. CASE row[u] # Missing
            BY <3>2, KnownOfDates DEF RowsInv
        <3> QED BY <3>1, <3>2
    <2> QED BY <2>1
<1> HIDE DEF r
<1>4. \A u \in companies : row'[u] = IF u = t THEN r ELSE row[u]
    BY <1>1 DEF RowsInv
<1> QED BY <1>1, <1>2, <1>3, <1>4 DEF RowsInv

LEMMA AnswersAreDates ==
    ASSUME today \in Nat \ {0}, NEW t
    PROVE  Answered(t) \subseteq Dates
<1>1. \A day \in {today} \union ({today - 1} \ {0}) : day \in Nat /\ day + 1 \in Nat
    OBVIOUS
<1>2. \A day \in {today} \union ({today - 1} \ {0}) : [last : {0, day}, next : {0, day + 1}] \subseteq Dates
    BY <1>1 DEF Dates
<1>3. NoDates \in Dates
    BY DEF NoDates, Dates
<1> QED BY <1>2, <1>3 DEF Answered

LEMMA KnownIsKnownOf ==
    \A t : KnownReport(t) = KnownOf(row[t], today)
    BY DEF KnownReport, KnownOf

\* The steps that leave rows and days alone.
LEMMA RowsUntouched ==
    ASSUME RowsInv, UNCHANGED <<companies, today, row>>, page'.at = "store" => page'.new \in Dates
    PROVE  RowsInv' /\ \A t \in companies : KnownReport(t)' >= KnownReport(t)
<1>1. RowsInv'
    BY DEF RowsInv
<1>2. ASSUME NEW t \in companies PROVE KnownReport(t)' = KnownReport(t) /\ KnownReport(t) \in Nat
    <2>1. KnownOf(row[t], today) \in Nat
        <3>1. CASE row[t] = Missing
            BY <3>1 DEF KnownOf
        <3>2. CASE row[t] # Missing
            BY <3>2, KnownOfDates DEF RowsInv
        <3> QED BY <3>1, <3>2
    <2>2. KnownReport(t)' = KnownReport(t)
        BY DEF KnownReport
    <2> QED BY <2>1, <2>2, KnownIsKnownOf
<1>3. \A t \in companies : KnownReport(t)' >= KnownReport(t)
    BY <1>2
<1> QED BY <1>1, <1>3

LEMMA RowsUpserted ==
    ASSUME RowsInv, NEW t \in companies, NEW new \in Dates, UpsertFundamentals(t, new),
           UNCHANGED <<companies, today>>, page'.at = "store" => page'.new \in Dates
    PROVE  RowsInv' /\ \A u \in companies : KnownReport(u)' >= KnownReport(u)
<1>1. /\ row' \in [companies -> Dates \union {Missing}]
      /\ \A u \in companies : KnownOf(row'[u], today) >= KnownOf(row[u], today)
    BY UpsertKnows
<1>2. RowsInv'
    BY <1>1 DEF RowsInv
<1>3. \A u \in companies : KnownReport(u)' = KnownOf(row'[u], today)
    BY DEF KnownReport, KnownOf
<1> QED BY <1>1, <1>2, <1>3, KnownIsKnownOf

\* A new day brings the next report nearer.
LEMMA DaysPass ==
    ASSUME RowsInv, Tomorrow
    PROVE  RowsInv' /\ \A t \in companies : KnownReport(t)' >= KnownReport(t)
<1>1. today \in Nat \ {0} /\ today' = today + 1 /\ UNCHANGED <<companies, row, page>>
    BY DEF Tomorrow, RowsInv
<1>2. RowsInv'
    BY <1>1 DEF RowsInv
<1>3. ASSUME NEW t \in companies PROVE KnownReport(t)' >= KnownReport(t)
    <2> DEFINE r == row[t]
    <2>1. KnownReport(t) = KnownOf(r, today) /\ KnownReport(t)' = KnownOf(r, today + 1)
        BY <1>1 DEF KnownReport, KnownOf
    <2>2. r \in Dates \union {Missing}
        BY DEF RowsInv
    <2> HIDE DEF r
    <2>3. CASE r = Missing
        BY <2>1, <2>3 DEF KnownOf
    <2>4. CASE r \in Dates
        <3>1. r.last \in Nat /\ r.next \in Nat
            BY <2>4 DEF Dates
        <3>2. /\ KnownOf(r, today) = r.last \/ (KnownOf(r, today) = r.next /\ r.next <= today)
                 \/ KnownOf(r, today) = 0
            BY <1>1, <2>4, KnownOfDates
        <3>3. today + 1 \in Nat
            BY <1>1
        <3>4. /\ KnownOf(r, today + 1) \in Nat /\ r.last <= KnownOf(r, today + 1)
              /\ r.next <= today + 1 => r.next <= KnownOf(r, today + 1)
            BY <2>4, <3>3, KnownOfDates
        <3>5. KnownOf(r, today + 1) >= KnownOf(r, today)
            BY <1>1, <3>1, <3>2, <3>4
        <3> QED BY <2>1, <3>5
    <2> QED BY <2>2, <2>3, <2>4
<1> QED BY <1>2, <1>3

PageOfTheMarket ==
    /\ page.at # "idle" => page.ticker \in companies
    /\ page.at = "capex" => page = [at |-> "capex", ticker |-> page.ticker]

LEMMA NeedingCapex ==
    ASSUME PageOfTheMarket, PageNeedsCapex
    PROVE  page' = NoPage \/ page' = [at |-> "cashflow", ticker |-> page.ticker]
<1>1. page = [at |-> "capex", ticker |-> page.ticker]
    BY DEF PageNeedsCapex, PageOfTheMarket
<1>2. [page EXCEPT !.at = "cashflow"] = [at |-> "cashflow", ticker |-> page.ticker]
    BY <1>1
<1> QED BY <1>2 DEF PageNeedsCapex

LEMMA PagesStep ==
    ASSUME PageOfTheMarket, ArchiveNext
    PROVE  PageOfTheMarket' /\ UNCHANGED companies
<1>1. UNCHANGED companies
    BY DEF ArchiveNext, Trigger, PlanNight, EndNight, FetchMetrics, FetchStatement, OpenPage,
        PageDownloads, PageStoresMetrics, PageStoresQuarterly, PageNeedsCapex, PageCapex, Tomorrow, Restart
<1>2. CASE UNCHANGED page
    BY <1>1, <1>2 DEF PageOfTheMarket
<1>3. CASE Trigger \/ PlanNight \/ EndNight \/ Tomorrow
    BY <1>2, <1>3 DEF Trigger, PlanNight, EndNight, Tomorrow
<1>4. ASSUME NEW t \in companies, FetchMetrics(t) \/ FetchStatement(t) PROVE PageOfTheMarket'
    BY <1>2, <1>4 DEF FetchMetrics, FetchStatement
<1>5. ASSUME NEW t \in Visited \intersect companies, OpenPage(t) PROVE PageOfTheMarket'
    BY <1>1, <1>5 DEF OpenPage, PageOfTheMarket
<1>6. CASE PageDownloads
    BY <1>1, <1>6 DEF PageDownloads, PageOfTheMarket
<1>7. CASE PageStoresMetrics
    BY <1>1, <1>7 DEF PageStoresMetrics, PageOfTheMarket
<1>8. CASE PageStoresQuarterly
    BY <1>1, <1>8 DEF PageStoresQuarterly, PageOfTheMarket
<1>9. CASE PageNeedsCapex
    <2>1. page' = NoPage \/ page' = [at |-> "cashflow", ticker |-> page.ticker]
        BY <1>9, NeedingCapex
    <2>2. page.ticker \in companies
        BY <1>9 DEF PageNeedsCapex, PageOfTheMarket
    <2>3. CASE page' = NoPage
        <3>1. page'.at = "idle"
            BY <2>3 DEF NoPage
        <3> QED BY <1>1, <3>1 DEF PageOfTheMarket
    <2>4. CASE page' = [at |-> "cashflow", ticker |-> page.ticker]
        BY <1>1, <2>2, <2>4 DEF PageOfTheMarket
    <2> QED BY <2>1, <2>3, <2>4
<1>10. CASE PageCapex \/ Restart
    BY <1>1, <1>10 DEF PageCapex, Restart, PageOfTheMarket, NoPage
<1> QED BY <1>1, <1>3, <1>4, <1>5, <1>6, <1>7, <1>8, <1>9, <1>10 DEF ArchiveNext

LEMMA RowsStep ==
    ASSUME RowsInv, PageOfTheMarket, ArchiveNext
    PROVE  RowsInv' /\ \A t \in companies : KnownReport(t)' >= KnownReport(t)
<1>1. CASE Trigger \/ PlanNight \/ EndNight
    <2>1. UNCHANGED <<companies, today, row, page>>
        BY <1>1 DEF Trigger, PlanNight, EndNight
    <2> QED BY <2>1, RowsUntouched DEF RowsInv
<1>2. ASSUME NEW t \in companies, FetchMetrics(t)
      PROVE  RowsInv' /\ \A u \in companies : KnownReport(u)' >= KnownReport(u)
    <2>1. UNCHANGED <<companies, today, page>>
        BY <1>2 DEF FetchMetrics
    <2>2. UNCHANGED row \/ \E new \in Dates : UpsertFundamentals(t, new)
        BY <1>2, AnswersAreDates DEF FetchMetrics, RowsInv
    <2> QED BY <2>1, <2>2, RowsUntouched, RowsUpserted DEF RowsInv
<1>3. ASSUME NEW t \in companies, FetchStatement(t)
      PROVE  RowsInv' /\ \A u \in companies : KnownReport(u)' >= KnownReport(u)
    <2>1. UNCHANGED <<companies, today, row, page>>
        BY <1>3 DEF FetchStatement
    <2> QED BY <2>1, RowsUntouched DEF RowsInv
<1>4. ASSUME NEW t \in Visited \intersect companies, OpenPage(t)
      PROVE  RowsInv' /\ \A u \in companies : KnownReport(u)' >= KnownReport(u)
    <2>1. UNCHANGED <<companies, today, row>> /\ page'.at # "store"
        BY <1>4 DEF OpenPage
    <2> QED BY <2>1, RowsUntouched
<1>5. CASE PageDownloads
    <2>1. UNCHANGED <<companies, today, row>>
        BY <1>5 DEF PageDownloads
    <2>2. page'.new \in Dates
        BY <1>5, AnswersAreDates DEF PageDownloads, RowsInv
    <2> QED BY <2>1, <2>2, RowsUntouched
<1>6. CASE PageStoresMetrics
    <2>1. UNCHANGED <<companies, today>> /\ page'.at # "store"
        BY <1>6 DEF PageStoresMetrics
    <2>2. page.ticker \in companies /\ page.new \in Dates
        BY <1>6 DEF PageStoresMetrics, PageOfTheMarket, RowsInv
    <2>3. UNCHANGED row \/ UpsertFundamentals(page.ticker, page.new)
        BY <1>6 DEF PageStoresMetrics
    <2> QED BY <2>1, <2>2, <2>3, RowsUntouched, RowsUpserted
<1>7. CASE PageStoresQuarterly \/ PageNeedsCapex \/ PageCapex \/ Restart
    <2>1. UNCHANGED <<companies, today, row>>
        BY <1>7 DEF PageStoresQuarterly, PageNeedsCapex, PageCapex, Restart
    <2>2. page'.at # "store"
        BY <1>7, NeedingCapex DEF PageStoresQuarterly, PageCapex, Restart, NoPage
    <2> QED BY <2>1, <2>2, RowsUntouched
<1>8. CASE Tomorrow
    BY <1>8, DaysPass
<1> QED BY <1>1, <1>2, <1>3, <1>4, <1>5, <1>6, <1>7, <1>8 DEF ArchiveNext

LEMMA RowsInit == ArchiveInit => RowsInv /\ PageOfTheMarket
<1> SUFFICES ASSUME ArchiveInit PROVE RowsInv /\ PageOfTheMarket
    OBVIOUS
<1>1. NoDates \in Dates
    BY DEF NoDates, Dates
<1>2. page.at = "idle"
    BY DEF ArchiveInit, NoPage
<1>3. row \in [companies -> Dates \union {Missing}]
    BY <1>1 DEF ArchiveInit
<1> QED BY <1>2, <1>3 DEF ArchiveInit, RowsInv, PageOfTheMarket

\* No fetch and no day loses a report that is known to have come
\* (db/repository.py: merge_report_dates, get_report_dates).
THEOREM KnownReportsStay == ArchiveSpec => ReportsStayKnown
<1>1. RowsInv /\ PageOfTheMarket /\ [ArchiveNext]_archiveVars
        => (RowsInv /\ PageOfTheMarket)' /\ [\A t \in companies : KnownReport(t)' >= KnownReport(t)]_archiveVars
    BY RowsStep, PagesStep DEF RowsInv, PageOfTheMarket, archiveVars
<1> QED BY <1>1, RowsInit, PTL DEF ArchiveSpec, ReportsStayKnown

-----------------------------------------------------------------------------
(* The archive. *)

\* What a refresh has behind it of a company that gave no trouble.
Archived(t) == {"fundamentals"} \union stored[t] \subseteq observed[t]

ArchiveInv ==
    /\ stored \in [companies -> SUBSET Statement]
    /\ observed \in [companies -> SUBSET ({"fundamentals"} \union Statement)]
    /\ night.at \in {"idle", "due", "fetch"}
    /\ night \in [at : {"idle", "due", "fetch"}, trouble : SUBSET companies,
                  step : [companies -> {"metrics", "quarterly", "cashflow", "done"}]]
    /\ night.at = "fetch" => \A t \in companies \ night.trouble :
            CASE night.step[t] = "metrics" -> TRUE
              [] night.step[t] = "quarterly" -> "fundamentals" \in observed[t]
              [] night.step[t] = "cashflow" -> {"fundamentals", "quarterly"} \subseteq observed[t]
              [] night.step[t] = "done" -> Archived(t)
    /\ ArchiveCompletes

\* What is stored by a page is archived with it.
LEMMA StatementsAreArchived ==
    ASSUME ArchiveInv, UNCHANGED <<companies, night>>,
           stored' \in [companies -> SUBSET Statement],
           observed' \in [companies -> SUBSET ({"fundamentals"} \union Statement)],
           \A t \in companies : observed[t] \subseteq observed'[t],
           \A t \in companies : stored'[t] \subseteq stored[t] \union observed'[t]
    PROVE  ArchiveInv'
<1>1. \A t \in companies : Archived(t) => Archived(t)'
    BY DEF Archived
<1>2. ArchiveCompletes'
    BY <1>1 DEF ArchiveInv, ArchiveCompletes, Archived
<1>3. night.at = "fetch" => \A t \in companies \ night.trouble :
            CASE night.step[t] = "metrics" -> TRUE
              [] night.step[t] = "quarterly" -> "fundamentals" \in observed'[t]
              [] night.step[t] = "cashflow" -> {"fundamentals", "quarterly"} \subseteq observed'[t]
              [] night.step[t] = "done" -> Archived(t)'
    BY <1>1 DEF ArchiveInv
<1> QED BY <1>2, <1>3 DEF ArchiveInv

LEMMA UpsertsArchive ==
    ASSUME ArchiveInv, UNCHANGED companies
    PROVE  /\ \A t \in companies : \A new : UpsertFundamentals(t, new) /\ UNCHANGED stored =>
                /\ stored' \in [companies -> SUBSET Statement]
                /\ observed' \in [companies -> SUBSET ({"fundamentals"} \union Statement)]
                /\ "fundamentals" \in observed'[t]
                /\ \A u \in companies : observed[u] \subseteq observed'[u]
                /\ \A u \in companies : stored'[u] \subseteq stored[u] \union observed'[u]
           /\ \A t \in companies, kind \in Statement : UpsertStatement(t, kind) =>
                /\ stored' \in [companies -> SUBSET Statement]
                /\ observed' \in [companies -> SUBSET ({"fundamentals"} \union Statement)]
                /\ kind \in observed'[t]
                /\ \A u \in companies : observed[u] \subseteq observed'[u]
                /\ \A u \in companies : stored'[u] \subseteq stored[u] \union observed'[u]
    BY DEF ArchiveInv, UpsertFundamentals, UpsertStatement

LEMMA StepOfANight ==
    ASSUME ArchiveInv, UNCHANGED companies, NEW t \in companies, NEW trouble \in BOOLEAN,
           night.at = "fetch", Step(t, trouble),
           stored' \in [companies -> SUBSET Statement],
           observed' \in [companies -> SUBSET ({"fundamentals"} \union Statement)],
           \A u \in companies : observed[u] \subseteq observed'[u],
           \A u \in companies : stored'[u] \subseteq stored[u] \union observed'[u],
           trouble \/ (night.step[t] = "metrics" /\ "fundamentals" \in observed'[t])
                   \/ (night.step[t] \in Statement /\ night.step[t] \in observed'[t])
    PROVE  ArchiveInv'
<1> DEFINE n == night'
           Steps == {"metrics", "quarterly", "cashflow", "done"}
           Nights == [at : {"idle", "due", "fetch"}, trouble : SUBSET companies, step : [companies -> Steps]]
<1>0. night \in Nights /\ night.step[t] \in Steps
    BY DEF ArchiveInv
<1>1. After(night.step[t]) \in Steps
    BY DEF After
<1>2. /\ n \in Nights /\ n.at = "fetch"
      /\ \A u \in companies : n.step[u] = IF u = t THEN After(night.step[t]) ELSE night.step[u]
      /\ n.trouble = IF trouble THEN night.trouble \union {t} ELSE night.trouble
    BY <1>0, <1>1 DEF Step
<1>3. \A u \in companies : Archived(u) => Archived(u)'
    BY DEF Archived
<1> HIDE DEF n
<1>4. ASSUME NEW u \in companies \ n.trouble
      PROVE  CASE n.step[u] = "metrics" -> TRUE
              [] n.step[u] = "quarterly" -> "fundamentals" \in observed'[u]
              [] n.step[u] = "cashflow" -> {"fundamentals", "quarterly"} \subseteq observed'[u]
              [] n.step[u] = "done" -> Archived(u)'
    <2>1. u \notin night.trouble
        BY <1>2
    <2>2. (CASE night.step[u] = "metrics" -> TRUE
              [] night.step[u] = "quarterly" -> "fundamentals" \in observed[u]
              [] night.step[u] = "cashflow" -> {"fundamentals", "quarterly"} \subseteq observed[u]
              [] night.step[u] = "done" -> Archived(u))
        BY <2>1 DEF ArchiveInv
    <2>3. CASE u # t
        <3>1. n.step[u] = night.step[u] /\ n.step[u] \in Steps
            BY <1>0, <1>2, <2>3
        <3> QED BY <1>3, <2>2, <3>1
    <2>4. CASE u = t
        <3>0. ~trouble /\ n.step[u] = After(night.step[u])
            BY <1>2, <2>4
        <3>1. CASE night.step[u] = "metrics"
            <4>1. n.step[u] = "quarterly"
                BY <3>0, <3>1 DEF After
            <4>2. "fundamentals" \in observed'[u]
                BY <2>4, <3>0, <3>1 DEF Statement
            <4> QED BY <4>1, <4>2
        <3>2. CASE night.step[u] = "quarterly"
            <4>1. n.step[u] = "cashflow"
                BY <3>0, <3>2 DEF After
            <4>2. "quarterly" \in observed'[u] /\ "fundamentals" \in observed'[u]
                BY <2>2, <2>4, <3>0, <3>2
            <4> QED BY <4>1, <4>2
        <3>3. CASE night.step[u] = "cashflow"
            <4>1. n.step[u] = "done"
                BY <3>0, <3>3 DEF After
            <4>2. {"cashflow", "quarterly", "fundamentals"} \subseteq observed'[u]
                BY <2>2, <2>4, <3>0, <3>3
            <4>3. stored'[u] \subseteq {"cashflow", "quarterly"}
                BY DEF Statement
            <4> QED BY <4>1, <4>2, <4>3 DEF Archived
        <3>4. CASE night.step[u] = "done"
            BY <2>4, <3>0, <3>4 DEF Statement
        <3> QED BY <1>0, <2>4, <3>1, <3>2, <3>3, <3>4
    <2> QED BY <2>3, <2>4
<1>5. n = night'
    BY DEF n
<1>6. ArchiveCompletes'
    BY <1>2, <1>5 DEF ArchiveCompletes
<1> QED BY <1>2, <1>4, <1>5, <1>6 DEF ArchiveInv

LEMMA NightsStep ==
    ASSUME ArchiveInv, PageOfTheMarket, ArchiveNext
    PROVE  ArchiveInv'
<1> DEFINE Steps == {"metrics", "quarterly", "cashflow", "done"}
           Nights == [at : {"idle", "due", "fetch"}, trouble : SUBSET companies, step : [companies -> Steps]]
<1>0. UNCHANGED companies /\ night \in Nights
    BY PagesStep DEF ArchiveInv
<1>1. CASE UNCHANGED <<night, stored, observed>>
    <2>1. \A t \in companies : stored'[t] \subseteq stored[t] \union observed'[t]
        BY <1>1
    <2> QED BY <1>0, <1>1, <2>1, StatementsAreArchived DEF ArchiveInv
<1>2. CASE Trigger
    <2>1. night' = [night EXCEPT !.at = "due"] /\ UNCHANGED <<stored, observed>>
        BY <1>2 DEF Trigger
    <2>2. night' \in Nights /\ night'.at = "due"
        BY <1>0, <2>1
    <2> QED BY <1>0, <2>1, <2>2 DEF ArchiveInv, ArchiveCompletes
<1>3. CASE PlanNight
    <2>0. UNCHANGED <<stored, observed>>
        BY <1>3 DEF PlanNight
    <2>1. \A t \in companies \ Unarchived : Archived(t)
        BY DEF Unarchived, Archived
    <2>2. ASSUME NEW chosen \in {companies, Unarchived},
                 night' = [at |-> "fetch", trouble |-> {},
                           step |-> [t \in companies |-> IF t \in chosen THEN "metrics" ELSE "done"]]
          PROVE  ArchiveInv'
        <3>1. night' \in Nights /\ night'.at = "fetch"
            BY <2>2
        <3>2. \A t \in companies : \/ night'.step[t] = "metrics"
                                   \/ night'.step[t] = "done" /\ Archived(t)'
            BY <2>0, <2>1, <2>2 DEF Archived
        <3> QED BY <1>0, <2>0, <3>1, <3>2 DEF ArchiveInv, ArchiveCompletes
    <2>3. CASE night' = [Idle EXCEPT !.trouble = companies]
        <3>1. night' = [at |-> "idle", step |-> [t \in companies |-> "done"], trouble |-> companies]
            BY <2>3 DEF Idle
        <3>2. night' \in Nights /\ night'.at = "idle" /\ night'.trouble = companies
            BY <3>1
        <3> QED BY <1>0, <2>0, <3>2 DEF ArchiveInv, ArchiveCompletes
    <2> QED BY <1>3, <2>2, <2>3 DEF PlanNight
<1>4. CASE EndNight
    <2>1. /\ night.at = "fetch" /\ night' = [night EXCEPT !.at = "idle"]
          /\ UNCHANGED <<stored, observed>> /\ \A t \in companies : night.step[t] = "done"
        BY <1>4 DEF EndNight
    <2>2. night' \in Nights /\ night'.at = "idle" /\ night'.trouble = night.trouble
        BY <1>0, <2>1
    <2>3. \A t \in companies \ night.trouble : Archived(t)
        BY <2>1 DEF ArchiveInv
    <2> QED BY <1>0, <2>1, <2>2, <2>3 DEF ArchiveInv, ArchiveCompletes, Archived
<1>5. ASSUME NEW t \in companies, FetchMetrics(t) PROVE ArchiveInv'
    <2>1. CASE \E new : UpsertFundamentals(t, new) /\ UNCHANGED stored /\ Step(t, FALSE)
        BY <1>0, <1>5, <2>1, UpsertsArchive, StepOfANight DEF FetchMetrics
    <2>2. CASE Step(t, TRUE) /\ UNCHANGED <<stored, observed>>
        BY <1>0, <1>5, <2>2, StepOfANight DEF FetchMetrics, ArchiveInv
    <2> QED BY <1>5, <2>1, <2>2 DEF FetchMetrics
<1>6. ASSUME NEW t \in companies, FetchStatement(t) PROVE ArchiveInv'
    <2>1. CASE UpsertStatement(t, night.step[t]) /\ Step(t, FALSE)
        BY <1>0, <1>6, <2>1, UpsertsArchive, StepOfANight DEF FetchStatement
    <2>2. CASE Step(t, TRUE) /\ UNCHANGED <<stored, observed>>
        BY <1>0, <1>6, <2>2, StepOfANight DEF FetchStatement, ArchiveInv
    <2> QED BY <1>6, <2>1, <2>2 DEF FetchStatement
<1>7. ASSUME NEW t, OpenPage(t) PROVE ArchiveInv'
    BY <1>1, <1>7 DEF OpenPage
<1>8. CASE PageDownloads \/ PageNeedsCapex \/ Tomorrow
    BY <1>1, <1>8 DEF PageDownloads, PageNeedsCapex, Tomorrow
<1>9. CASE PageStoresMetrics
    <2>1. page.ticker \in companies /\ UNCHANGED <<night, stored>>
        BY <1>9 DEF PageStoresMetrics, PageOfTheMarket
    <2>2. UNCHANGED observed \/ UpsertFundamentals(page.ticker, page.new)
        BY <1>9 DEF PageStoresMetrics
    <2> QED BY <1>0, <1>1, <2>1, <2>2, UpsertsArchive, StatementsAreArchived
<1>10. CASE PageStoresQuarterly
    <2>1. page.ticker \in companies /\ UNCHANGED night
        BY <1>10 DEF PageStoresQuarterly, PageOfTheMarket
    <2>2. UNCHANGED <<stored, observed>> \/ UpsertStatement(page.ticker, "quarterly")
        BY <1>10 DEF PageStoresQuarterly
    <2> QED BY <1>0, <1>1, <2>1, <2>2, UpsertsArchive, StatementsAreArchived DEF Statement
<1>11. CASE PageCapex
    <2>1. page.ticker \in companies /\ UNCHANGED night
        BY <1>11 DEF PageCapex, PageOfTheMarket
    <2>2. UNCHANGED <<stored, observed>> \/ UpsertStatement(page.ticker, "cashflow")
        BY <1>11 DEF PageCapex
    <2> QED BY <1>0, <1>1, <2>1, <2>2, UpsertsArchive, StatementsAreArchived DEF Statement
<1>12. CASE Restart
    <2>1. UNCHANGED <<stored, observed>>
        BY <1>12 DEF Restart
    <2>2. PICK then \in {"due", "idle"} :
            /\ night' = [at |-> then, step |-> [t \in companies |-> "done"], trouble |-> {}]
            /\ then = "idle" => Unarchived = {}
        BY <1>12 DEF Restart, Idle
    <2>3. night' \in Nights /\ night'.at = then
        BY <2>2
    <2>4. night'.at = "idle" => \A t \in companies : Archived(t)
        BY <2>2, <2>3 DEF Unarchived, Archived
    <2> QED BY <1>0, <2>1, <2>2, <2>3, <2>4 DEF ArchiveInv, ArchiveCompletes, Archived
<1> QED BY <1>2, <1>3, <1>4, <1>5, <1>6, <1>7, <1>8, <1>9, <1>10, <1>11, <1>12 DEF ArchiveNext

LEMMA NightsInit == ArchiveInit => ArchiveInv
<1> SUFFICES ASSUME ArchiveInit PROVE ArchiveInv
    OBVIOUS
<1>1. night = [at |-> "due", step |-> [t \in companies |-> "done"], trouble |-> {}]
    BY DEF ArchiveInit, Idle
<1>2. /\ night.at = "due"
      /\ night \in [at : {"idle", "due", "fetch"}, trouble : SUBSET companies,
                    step : [companies -> {"metrics", "quarterly", "cashflow", "done"}]]
    BY <1>1
<1>3. /\ stored \in [companies -> SUBSET Statement]
      /\ observed \in [companies -> SUBSET ({"fundamentals"} \union Statement)]
    BY DEF ArchiveInit
<1> QED BY <1>2, <1>3 DEF ArchiveInv, ArchiveCompletes

\* After any crash, and with pages storing in between, a refresh leaves behind an
\* archive of everything stored, except for companies it had trouble with
\* (jobs/daily_ingest.py: observation_bootstrap_markets, _ingest_fundamentals).
THEOREM ArchivesComplete == ArchiveSpec => []ArchiveCompletes
<1>1. /\ ArchiveInv /\ PageOfTheMarket /\ [ArchiveNext]_archiveVars
            => (ArchiveInv /\ PageOfTheMarket)'
    <2>1. ASSUME ArchiveInv, PageOfTheMarket, UNCHANGED archiveVars
          PROVE  (ArchiveInv /\ PageOfTheMarket)'
        <3>1. UNCHANGED <<companies, night, stored, observed, page>>
            BY <2>1 DEF archiveVars
        <3>2. ArchiveInv'
            BY <2>1, <3>1, StatementsAreArchived DEF ArchiveInv
        <3> QED BY <2>1, <3>1, <3>2 DEF PageOfTheMarket
    <2> QED BY <2>1, NightsStep, PagesStep
<1>2. ArchiveInv => ArchiveCompletes
    BY DEF ArchiveInv
<1>3. ArchiveInit => ArchiveInv /\ PageOfTheMarket
    BY RowsInit, NightsInit
<1> QED BY <1>1, <1>2, <1>3, PTL DEF ArchiveSpec

-----------------------------------------------------------------------------
(* Insider trades. *)

TradesInv ==
    /\ published \subseteq Report
    /\ rows \in [Item -> Nat]
    /\ task \in [Task -> [at : {"idle", "download", "look up", "insert", "done", "failed"},
                         fetched : SUBSET Item, new : SUBSET Item]]
    /\ \A p \in Task : task[p].at = "insert" => \A i \in task[p].fetched \ task[p].new : rows[i] > 0
    /\ FetchedIsStored

LEMMA DownloadsAreItems ==
    ASSUME published \subseteq Report, NEW items \in Downloads
    PROVE  items \subseteq Item
<1>1. ASSUME NEW r \in Report, NEW reading \in Readings(r) PROVE reading \subseteq Item
    BY <1>1 DEF Readings, Item
<1>2. PICK f \in [published -> UNION {Readings(r) : r \in Report}] :
        items = UNION {f[r] : r \in published} /\ \A r \in published : f[r] \in Readings(r)
    BY DEF Downloads
<1>3. ASSUME NEW r \in published PROVE f[r] \subseteq Item
    BY <1>1, <1>2
<1> QED BY <1>2, <1>3

\* A task turns to something that stores nothing.
LEMMA TradesWait ==
    ASSUME TradesInv, UNCHANGED rows, published' \subseteq Report,
           NEW p \in Task, NEW t \in [at : {"idle", "download", "look up", "failed"},
                                     fetched : SUBSET Item, new : SUBSET Item],
           task' = [task EXCEPT ![p] = t]
    PROVE  TradesInv'
<1>1. \A q \in Task : task'[q] = IF q = p THEN t ELSE task[q]
    BY DEF TradesInv
<1>2. t.at \notin {"insert", "done"}
    OBVIOUS
<1>3. task' \in [Task -> [at : {"idle", "download", "look up", "insert", "done", "failed"},
                         fetched : SUBSET Item, new : SUBSET Item]]
    <2>1. t \in [at : {"idle", "download", "look up", "insert", "done", "failed"},
                 fetched : SUBSET Item, new : SUBSET Item]
        OBVIOUS
    <2> QED BY <2>1 DEF TradesInv
<1>4. \A q \in Task : task'[q].at \in {"insert", "done"} => task'[q] = task[q]
    BY <1>1, <1>2
<1> QED BY <1>3, <1>4 DEF TradesInv, FetchedIsStored

LEMMA BeginKeepsTrades ==
    ASSUME TradesInv, NEW p \in Task, Begin(p), UNCHANGED <<published, rows>>
    PROVE  TradesInv'
<1> DEFINE t == [Resting EXCEPT !.at = "download"]
<1>1. t = [at |-> "download", fetched |-> {}, new |-> {}]
    BY DEF Resting
<1>2. task' = [task EXCEPT ![p] = t]
    BY DEF Begin
<1> HIDE DEF t
<1>3. t \in [at : {"idle", "download", "look up", "failed"}, fetched : SUBSET Item, new : SUBSET Item]
    BY <1>1
<1> QED BY <1>2, <1>3, TradesWait DEF TradesInv

LEMMA DownloadedKeepsTrades ==
    ASSUME TradesInv, NEW p \in Task, Downloaded(p), UNCHANGED <<published, rows>>
    PROVE  TradesInv'
<1>1. PICK items \in Downloads :
        task' = [task EXCEPT ![p] = [at |-> IF items = {} THEN "idle" ELSE "look up",
                                     fetched |-> items, new |-> {}]]
    BY DEF Downloaded
<1>2. items \subseteq Item
    BY DownloadsAreItems DEF TradesInv
<1> DEFINE t == [at |-> IF items = {} THEN "idle" ELSE "look up", fetched |-> items, new |-> {}]
<1>3. t \in [at : {"idle", "download", "look up", "failed"}, fetched : SUBSET Item, new : SUBSET Item]
    BY <1>2
<1> HIDE DEF t
<1>4. task' = [task EXCEPT ![p] = t]
    BY <1>1 DEF t
<1> QED BY <1>3, <1>4, TradesWait DEF TradesInv

\* What is not new was there, and no row goes.
LEMMA LookUpKeepsTrades ==
    ASSUME TradesInv, NEW p \in Task, LookUp(p)
    PROVE  TradesInv'
<1> DEFINE found == {i \in task[p].fetched : \A j \in Item : rows[j] > 0 => ~SameRow(i, j)}
           t == [at |-> "insert", fetched |-> task[p].fetched, new |-> found]
<1>1. task[p].fetched \subseteq Item /\ UNCHANGED <<rows, published>>
    BY DEF TradesInv, LookUp
<1>2. task' = [task EXCEPT ![p] = t]
    BY DEF TradesInv, LookUp
<1>3. \A i \in task[p].fetched \ found : rows[i] > 0
    BY <1>1 DEF SameRow
<1>4. found \subseteq Item
    BY <1>1
<1> HIDE DEF found
<1>5. t \in [at : {"idle", "download", "look up", "insert", "done", "failed"},
             fetched : SUBSET Item, new : SUBSET Item]
    BY <1>1, <1>4
<1>6. \A i \in t.fetched \ t.new : rows[i] > 0
    BY <1>3
<1>7. t.at = "insert"
    OBVIOUS
<1> HIDE DEF t
<1>8. \A q \in Task : task'[q] = IF q = p THEN t ELSE task[q]
    BY <1>2 DEF TradesInv
<1>9. task' \in [Task -> [at : {"idle", "download", "look up", "insert", "done", "failed"},
                         fetched : SUBSET Item, new : SUBSET Item]]
    BY <1>2, <1>5 DEF TradesInv
<1> QED BY <1>1, <1>6, <1>7, <1>8, <1>9 DEF TradesInv, FetchedIsStored

LEMMA InsertKeepsTrades ==
    ASSUME TradesInv, NEW p \in Task, Insert(p)
    PROVE  TradesInv'
<1> DEFINE t(then) == [at |-> then, fetched |-> task[p].fetched, new |-> task[p].new]
<1>0. /\ task[p].at = "insert" /\ task[p].fetched \subseteq Item /\ task[p].new \subseteq Item
      /\ UNCHANGED published /\ published \subseteq Report
    BY DEF TradesInv, Insert
<1>1. /\ [task[p] EXCEPT !.at = "failed"] = t("failed")
       /\ [task[p] EXCEPT !.at = "done"] = t("done")
    <2>1. task[p] \in [at : {"idle", "download", "look up", "insert", "done", "failed"},
                       fetched : SUBSET Item, new : SUBSET Item]
        BY DEF TradesInv
    <2> DEFINE r == task[p]
    <2>2. r = [at |-> r.at, fetched |-> r.fetched, new |-> r.new]
        BY <2>1
    <2> HIDE DEF r
    <2>3. /\ [r EXCEPT !.at = "failed"] = [at |-> "failed", fetched |-> r.fetched, new |-> r.new]
          /\ [r EXCEPT !.at = "done"] = [at |-> "done", fetched |-> r.fetched, new |-> r.new]
        BY <2>2
    <2> QED BY <2>3 DEF r
<1>2. CASE UNCHANGED rows /\ task' = [task EXCEPT ![p] = [@ EXCEPT !.at = "failed"]]
    <2>1. task' = [task EXCEPT ![p] = t("failed")]
        BY <1>1, <1>2
    <2>2. t("failed") \in [at : {"idle", "download", "look up", "failed"},
                          fetched : SUBSET Item, new : SUBSET Item]
        BY <1>0
    <2> HIDE DEF t
    <2> QED BY <1>0, <1>2, <2>1, <2>2, TradesWait
<1>3. CASE /\ rows' = [i \in Item |-> IF i \in task[p].new THEN rows[i] + 1 ELSE rows[i]]
           /\ task' = [task EXCEPT ![p] = [@ EXCEPT !.at = "done"]]
    <2>0. \A i \in Item : rows[i] \in Nat
        BY DEF TradesInv
    <2>1. /\ rows' \in [Item -> Nat] /\ \A i \in Item : rows'[i] >= rows[i]
          /\ \A i \in task[p].new : rows'[i] > 0
        BY <1>0, <1>3, <2>0
    <2>2. task' = [task EXCEPT ![p] = t("done")]
        BY <1>1, <1>3
    <2>3. /\ t("done") \in [at : {"idle", "download", "look up", "insert", "done", "failed"},
                           fetched : SUBSET Item, new : SUBSET Item]
          /\ t("done").at = "done" /\ t("done").fetched = task[p].fetched
        BY <1>0
    <2> HIDE DEF t
    <2>4. \A q \in Task : task'[q] = IF q = p THEN t("done") ELSE task[q]
        BY <2>2 DEF TradesInv
    <2>5. task' \in [Task -> [at : {"idle", "download", "look up", "insert", "done", "failed"},
                             fetched : SUBSET Item, new : SUBSET Item]]
        BY <2>2, <2>3 DEF TradesInv
    <2>6. \A i \in Item : rows[i] > 0 => rows'[i] > 0
        BY <2>0, <2>1
    <2>7. \A i \in task[p].fetched : rows'[i] > 0
        BY <1>0, <2>1, <2>6 DEF TradesInv
    <2>8. \A q \in Task : task[q].fetched \subseteq Item
        BY DEF TradesInv
    <2>9. FetchedIsStored'
        BY <2>3, <2>4, <2>6, <2>7, <2>8 DEF TradesInv, FetchedIsStored
    <2>10. \A q \in Task : task'[q].at = "insert" =>
                \A i \in task'[q].fetched \ task'[q].new : rows'[i] > 0
        BY <2>3, <2>4, <2>6, <2>8 DEF TradesInv
    <2> QED BY <1>0, <2>1, <2>5, <2>9, <2>10 DEF TradesInv
<1> QED BY <1>2, <1>3 DEF Insert

LEMMA TradesStep ==
    ASSUME TradesInv, [InsiderNext]_insiderVars
    PROVE  TradesInv'
<1>1. CASE UNCHANGED <<rows, task>> /\ published' \subseteq Report
    BY <1>1 DEF TradesInv, FetchedIsStored
<1>2. CASE UNCHANGED insiderVars \/ Forget \/ \E r \in Report : Publish(r)
    BY <1>1, <1>2 DEF insiderVars, Forget, Publish, TradesInv
<1>3. ASSUME NEW v \in Visitor, Visit(v) \/ VisitorDownloaded(v) PROVE TradesInv'
    <2>1. v \in Task
        BY DEF Task
    <2> QED BY <1>3, <2>1, BeginKeepsTrades, DownloadedKeepsTrades DEF Visit, VisitorDownloaded
<1>4. CASE StartJob \/ JobDownloaded
    <2>1. Job \in Task
        BY DEF Task
    <2> QED BY <1>4, <2>1, BeginKeepsTrades, DownloadedKeepsTrades DEF StartJob, JobDownloaded
<1> QED BY <1>2, <1>3, <1>4, LookUpKeepsTrades, InsertKeepsTrades DEF InsiderNext

\* However pages and jobs for one company overlap, and whatever another report of the
\* same trades left in the table, a download stored without an error has all its trades
\* there (db/repository.py: upsert_insider_transactions).
THEOREM DownloadsAreStored == InsiderSpec => []FetchedIsStored
<1>1. InsiderInit => TradesInv
    BY DEF InsiderInit, TradesInv, Resting, FetchedIsStored
<1>2. TradesInv => FetchedIsStored
    BY DEF TradesInv
<1> QED BY <1>1, <1>2, TradesStep, PTL DEF InsiderSpec

-----------------------------------------------------------------------------
(* Bars and clocks. *)

\* A session that is over stays over.
LEMMA FinalStaysFinal ==
    ASSUME NEW early \in Nat, NEW late \in Nat, early <= late
    PROVE  /\ DayOf(early) \in Nat /\ DayOf(early) <= DayOf(late)
           /\ \A day \in Nat : Final(day, early) => Final(day, late)
<1>0. Day \in Nat \ {0} /\ Closes \in Nat /\ Settle \in Nat
    BY ProviderAssumption
<1> DEFINE q1 == early \div Day
           q2 == late \div Day
           r1 == early % Day
           r2 == late % Day
<1>1. /\ early = Day * q1 + r1 /\ q1 \in Nat /\ r1 \in 0..(Day - 1)
      /\ late = Day * q2 + r2 /\ q2 \in Nat /\ r2 \in 0..(Day - 1)
    BY <1>0
<1> HIDE DEF q1, q2, r1, r2
<1>2. q1 <= q2
    <2>1. SUFFICES ASSUME q1 > q2 PROVE FALSE
        BY <1>1
    <2>2. Day * q1 >= Day * q2 + Day
        BY <1>0, <1>1, <2>1
    <2>3. Day * q1 \in Nat /\ Day * q2 \in Nat
        BY <1>0, <1>1
    <2> QED BY <1>0, <1>1, <2>2, <2>3
<1>3. q1 = q2 => r1 <= r2
    BY <1>0, <1>1
<1>4. ASSUME NEW day \in Nat, Final(day, early) PROVE Final(day, late)
    <2>1. day < q1 \/ (day = q1 /\ r1 >= Closes + Settle)
        BY <1>4 DEF Final, DayOf, q1, r1
    <2>2. day < q2 \/ (day = q2 /\ r2 >= Closes + Settle)
        <3>1. CASE day < q2
            BY <3>1
        <3>2. CASE ~(day < q2)
            <4>1. day = q1 /\ day = q2
                BY <1>1, <1>2, <2>1, <3>2
            <4> QED BY <1>0, <1>1, <1>3, <2>1, <4>1
        <3> QED BY <3>1, <3>2
    <2> QED BY <2>2 DEF Final, DayOf, q2, r2
<1>5. DayOf(early) = q1 /\ DayOf(late) = q2
    BY DEF DayOf, q1, q2
<1> QED BY <1>1, <1>2, <1>4, <1>5

Bars == [day : Nat, built : Nat]
Results == [bars : SUBSET Bars, final : BOOLEAN, today : Int]
Calls == [at : {"idle", "queued", "thread", "served", "done", "failed"}, stamp : Int, waits : Nat,
          served : Int, result : Results]

ClocksInv ==
    /\ now \in Nat
    /\ call \in [Call -> Calls]
    /\ \A c \in Call : call[c].at = "thread" => call[c].stamp \in 0..now
    /\ \A c \in Call : call[c].at = "served" =>
            call[c].stamp \in Nat /\ call[c].served \in 0..now /\ call[c].stamp <= call[c].served
    /\ FinishedBarsAreFinished

\* What a call may turn to.
SoundCall(c, r) ==
    /\ r \in Calls
    /\ r.at = "thread" => r.stamp \in 0..now
    /\ r.at = "served" => r.stamp \in Nat /\ r.served \in 0..now /\ r.stamp <= r.served
    /\ r.at = "done" => \A b \in r.result.bars :
            c \in DailyCall \/ b.day < r.result.today \/ r.result.final => Final(b.day, b.built)

LEMMA CallTurns ==
    ASSUME ClocksInv, UNCHANGED now, NEW c \in Call, NEW r, SoundCall(c, r),
           call' = [call EXCEPT ![c] = r]
    PROVE  ClocksInv'
<1>1. \A d \in Call : call'[d] = IF d = c THEN r ELSE call[d]
    BY DEF ClocksInv
<1>2. call' \in [Call -> Calls]
    BY DEF ClocksInv, SoundCall
<1>3. FinishedBarsAreFinished'
    BY <1>1 DEF ClocksInv, FinishedBarsAreFinished, SoundCall, Final, DayOf
<1>4. \A d \in Call : call'[d].at = "thread" => call'[d].stamp \in 0..now
    BY <1>1 DEF ClocksInv, SoundCall
<1>5. \A d \in Call : call'[d].at = "served" =>
            call'[d].stamp \in Nat /\ call'[d].served \in 0..now /\ call'[d].stamp <= call'[d].served
    BY <1>1 DEF ClocksInv, SoundCall
<1> QED BY <1>2, <1>3, <1>4, <1>5 DEF ClocksInv

LEMMA UnaskedCalls ==
    /\ Unasked \in Calls /\ Unasked.at = "idle"
    /\ \A end \in {"queued", "failed"} :
            [Unasked EXCEPT !.at = end] \in Calls /\ [Unasked EXCEPT !.at = end].at = end
<1>1. NoResult \in Results
    BY DEF NoResult, Results
<1>2. -1 \in Int /\ 0 \in Nat
    OBVIOUS
<1>3. Unasked \in Calls /\ Unasked.at = "idle"
    BY <1>1, <1>2 DEF Unasked, Calls
<1>4. ASSUME NEW end \in {"queued", "failed"}
      PROVE  [Unasked EXCEPT !.at = end] \in Calls /\ [Unasked EXCEPT !.at = end].at = end
    BY <1>3 DEF Calls
<1> QED BY <1>3, <1>4

LEMMA ServedBars ==
    ASSUME NEW tick \in Nat
    PROVE  \A b \in Served(tick) : b \in Bars /\ b.built = tick
<1>1. DayOf(tick) \in Nat
    BY FinalStaysFinal
<1> QED BY <1>1 DEF Served, Bars

\* The answer of a call that read its clock before it asked.
LEMMA AnswersAreSound ==
    ASSUME ClocksInv, NEW c \in Call, call[c].at = "served",
           NEW bars, bars = IF c \in DailyCall THEN KeptDaily(c) ELSE KeptSession(c)
    PROVE  /\ bars \subseteq Bars /\ DayOf(Clock(c)) \in Nat
           /\ \A b \in bars : c \in DailyCall \/ b.day < DayOf(Clock(c)) \/ Final(DayOf(Clock(c)), Clock(c))
                    => Final(b.day, b.built)
<1> DEFINE stamp == call[c].stamp
           served == call[c].served
<1>1. stamp \in Nat /\ served \in Nat /\ stamp <= served
    BY DEF ClocksInv
<1>2. bars \subseteq Served(served) /\ Clock(c) = stamp
    BY DEF KeptDaily, KeptSession, Clock
<1>3. bars \subseteq Bars /\ \A b \in bars : b.built = served /\ b.day \in Nat
    BY <1>1, <1>2, ServedBars DEF Bars
<1>4. /\ DayOf(stamp) \in Nat /\ DayOf(stamp) <= DayOf(served) /\ DayOf(served) \in Nat
      /\ \A day \in Nat : Final(day, stamp) => Final(day, served)
    BY <1>1, FinalStaysFinal
<1>5. ASSUME NEW b \in bars, c \in DailyCall PROVE Final(b.day, stamp)
    BY <1>5 DEF KeptDaily, Clock
<1>6. ASSUME NEW b \in bars, c \notin DailyCall PROVE b.day <= DayOf(stamp)
    <2>1. b.day = DayOf(stamp) \/ b.day < DayOf(stamp)
        BY <1>6 DEF KeptSession, Clock
    <2> QED BY <1>3, <1>4, <2>1
<1>7. ASSUME NEW b \in bars, b.day < DayOf(stamp) PROVE Final(b.day, served)
    BY <1>3, <1>4, <1>7 DEF Final
<1> HIDE DEF stamp, served
<1>8. ASSUME NEW b \in bars, c \notin DailyCall, Final(DayOf(stamp), stamp) PROVE Final(b.day, served)
    <2>1. b.day \in Nat /\ (b.day = DayOf(stamp) \/ b.day < DayOf(stamp))
        BY <1>3, <1>4, <1>6, <1>8
    <2> QED BY <1>4, <1>7, <1>8, <2>1
<1>9. ASSUME NEW b \in bars,
             c \in DailyCall \/ b.day < DayOf(stamp) \/ Final(DayOf(stamp), stamp)
      PROVE  Final(b.day, b.built)
    BY <1>3, <1>4, <1>5, <1>7, <1>8, <1>9
<1> QED BY <1>2, <1>3, <1>4, <1>9

LEMMA ClocksStep ==
    ASSUME ClocksInv, [ProviderNext]_providerVars
    PROVE  ClocksInv'
<1>1. CASE UNCHANGED <<now, call>>
    BY <1>1 DEF ClocksInv, FinishedBarsAreFinished, Final, DayOf
<1>2. CASE Tick
    <2>1. now \in Nat /\ now' = now + 1 /\ UNCHANGED call
        BY <1>2 DEF Tick, ClocksInv
    <2>2. now' \in Nat /\ \A n \in 0..now : n \in 0..now'
        BY <2>1
    <2>3. FinishedBarsAreFinished'
        BY <2>1 DEF ClocksInv, FinishedBarsAreFinished, Final, DayOf
    <2> QED BY <2>1, <2>2, <2>3 DEF ClocksInv
<1>3. CASE OrphanEnds
    BY <1>1, <1>3 DEF OrphanEnds
<1>4. ASSUME NEW c \in Call, Ask(c) \/ Leave(c) PROVE ClocksInv'
    <2>1. UNCHANGED now
        BY <1>4 DEF Ask, Leave
    <2>2. \E r \in {Unasked, [Unasked EXCEPT !.at = "queued"]} : call' = [call EXCEPT ![c] = r]
        BY <1>4 DEF Ask, Leave
    <2>3. SoundCall(c, Unasked) /\ SoundCall(c, [Unasked EXCEPT !.at = "queued"])
        BY UnaskedCalls DEF SoundCall
    <2> QED BY <2>1, <2>2, <2>3, CallTurns
<1>5. ASSUME NEW c \in Call, Start(c) \/ RateLimited(c) \/ Download(c) \/ Answer(c) PROVE ClocksInv'
    <2> DEFINE r == call[c]
    <2>1. r \in Calls /\ now \in Nat /\ UNCHANGED now
        BY <1>5 DEF ClocksInv, Start, RateLimited, Download, Answer
    <2>2. r = [at |-> r.at, stamp |-> r.stamp, waits |-> r.waits, served |-> r.served, result |-> r.result]
        BY <2>1 DEF Calls
    <2>3. /\ r.stamp \in Int /\ r.waits \in Nat /\ r.served \in Int /\ r.result \in Results
          /\ r.at = "thread" => r.stamp \in 0..now
          /\ r.at = "served" => r.stamp \in Nat /\ r.served \in 0..now /\ r.stamp <= r.served
        BY <2>1 DEF ClocksInv, Calls
    <2>4. CASE Start(c)
        <3> DEFINE a == [r EXCEPT !.at = "thread"]
                   s == [a EXCEPT !.stamp = now]
        <3>1. call' = [call EXCEPT ![c] = s]
            BY <2>4 DEF Start
        <3> HIDE DEF r
        <3>2. a = [at |-> "thread", stamp |-> r.stamp, waits |-> r.waits, served |-> r.served, result |-> r.result]
            BY <2>2
        <3> HIDE DEF a
        <3>3. s = [at |-> "thread", stamp |-> now, waits |-> r.waits, served |-> r.served, result |-> r.result]
            BY <3>2
        <3> HIDE DEF s
        <3>4. SoundCall(c, s)
            BY <2>1, <2>3, <3>3 DEF SoundCall, Calls
        <3> QED BY <2>1, <3>1, <3>4, CallTurns
    <2>5. CASE RateLimited(c)
        <3> DEFINE s == [r EXCEPT !.waits = @ + 1]
        <3>1. call' = [call EXCEPT ![c] = s] /\ r.at = "thread"
            BY <2>5 DEF RateLimited
        <3> HIDE DEF r
        <3>2. s = [at |-> "thread", stamp |-> r.stamp, waits |-> r.waits + 1, served |-> r.served,
                   result |-> r.result]
            BY <2>2, <3>1
        <3> HIDE DEF s
        <3>3. SoundCall(c, s)
            BY <2>1, <2>3, <3>1, <3>2 DEF SoundCall, Calls
        <3> QED BY <2>1, <3>1, <3>3, CallTurns
    <2>6. CASE Download(c)
        <3> DEFINE a == [r EXCEPT !.at = "served"]
                   s == [a EXCEPT !.served = now]
        <3>1. call' = [call EXCEPT ![c] = s] /\ r.at = "thread"
            BY <2>6 DEF Download
        <3> HIDE DEF r
        <3>2. a = [at |-> "served", stamp |-> r.stamp, waits |-> r.waits, served |-> r.served, result |-> r.result]
            BY <2>2
        <3> HIDE DEF a
        <3>3. s = [at |-> "served", stamp |-> r.stamp, waits |-> r.waits, served |-> now, result |-> r.result]
            BY <3>2
        <3> HIDE DEF s
        <3>4. SoundCall(c, s)
            BY <2>1, <2>3, <3>1, <3>3 DEF SoundCall, Calls
        <3> QED BY <2>1, <3>1, <3>4, CallTurns
    <2>7. CASE Answer(c)
        <3>1. CASE call' = [call EXCEPT ![c] = [Unasked EXCEPT !.at = "failed"]]
            <4>1. SoundCall(c, [Unasked EXCEPT !.at = "failed"])
                BY UnaskedCalls DEF SoundCall
            <4> QED BY <2>1, <3>1, <4>1, CallTurns
        <3>2. ASSUME NEW bars, bars = IF c \in DailyCall THEN KeptDaily(c) ELSE KeptSession(c),
                     call' = [call EXCEPT ![c] =
                        [[@ EXCEPT !.at = IF bars = {} /\ c \in SessionCall THEN "failed" ELSE "done"]
                           EXCEPT !.result = [bars |-> bars, today |-> DayOf(Clock(c)),
                                              final |-> Final(DayOf(Clock(c)), Clock(c))]]]
              PROVE  ClocksInv'
            <4> DEFINE end == IF bars = {} /\ c \in SessionCall THEN "failed" ELSE "done"
                       over == Final(DayOf(Clock(c)), Clock(c))
                       result == [bars |-> bars, today |-> DayOf(Clock(c)), final |-> over]
                       a == [r EXCEPT !.at = end]
                       s == [a EXCEPT !.result = result]
            <4>1. call' = [call EXCEPT ![c] = s]
                BY <3>2
            <4>2. /\ bars \subseteq Bars /\ DayOf(Clock(c)) \in Nat
                  /\ \A b \in bars : c \in DailyCall \/ b.day < DayOf(Clock(c)) \/ over => Final(b.day, b.built)
                BY <2>7, <3>2, AnswersAreSound DEF Answer
            <4>3. over \in BOOLEAN
                BY DEF Final
            <4> HIDE DEF r, over
            <4>4. /\ result \in Results /\ result.bars = bars /\ result.today = DayOf(Clock(c))
                  /\ result.final = over
                BY <4>2, <4>3 DEF Results
            <4>5. end \in {"failed", "done"}
                OBVIOUS
            <4> HIDE DEF result, end
            <4>6. a = [at |-> end, stamp |-> r.stamp, waits |-> r.waits, served |-> r.served, result |-> r.result]
                BY <2>2
            <4> HIDE DEF a
            <4>7. s = [at |-> end, stamp |-> r.stamp, waits |-> r.waits, served |-> r.served, result |-> result]
                BY <4>6
            <4>8. s.at = end /\ s.result = result /\ s \in Calls
                BY <2>3, <4>4, <4>5, <4>7 DEF Calls
            <4> HIDE DEF s
            <4>9. SoundCall(c, s)
                BY <4>2, <4>4, <4>5, <4>8 DEF SoundCall
            <4> QED BY <2>1, <4>1, <4>9, CallTurns
        <3> QED BY <2>7, <3>1, <3>2 DEF Answer
    <2> QED BY <1>5, <2>4, <2>5, <2>6, <2>7
<1> QED BY <1>1, <1>2, <1>3, <1>4, <1>5 DEF ProviderNext, providerVars

\* Whatever a call waits for, in the queue, in its thread or for the provider, a bar it
\* calls finished was built after its session had settled, whatever the hours are
\* (services/yahoo_finance_client.py: _fetch_sync, _fetch_session_sync).
THEOREM BarsAreFinished == ProviderSpec => []FinishedBarsAreFinished
<1>1. ProviderInit => ClocksInv
    BY UnaskedCalls DEF ProviderInit, ClocksInv, FinishedBarsAreFinished
<1>2. ClocksInv => FinishedBarsAreFinished
    BY DEF ClocksInv
<1> QED BY <1>1, <1>2, ClocksStep, PTL DEF ProviderSpec

-----------------------------------------------------------------------------
(* The scans of a market: medians. *)

LEMMA RangeIsFinite ==
    ASSUME NEW f, IsFiniteSet(DOMAIN f), NEW D \in SUBSET DOMAIN f
    PROVE  IsFiniteSet({f[i] : i \in D}) /\ Cardinality({f[i] : i \in D}) <= Cardinality(D)
<1>. DEFINE T == {f[i] : i \in D}
            g == [i \in D |-> f[i]]
<1>1. g \in Surjection(D, T)
    BY DEF Surjection
<1>2. IsFiniteSet(D)
    BY FS_Subset
<1>. QED BY <1>1, <1>2, FS_Surjection

\* The k-th lowest of n values is one of them, k of them do not exceed it, and it is the
\* least of those of which that holds.
LEMMA KthIsAValue ==
    ASSUME NEW n \in Nat, NEW values \in [1..n -> Int], NEW k \in 1..n
    PROVE  /\ \E i \in 1..n : KthLowest(values, k) = values[i]
           /\ Cardinality({j \in 1..n : values[j] <= KthLowest(values, k)}) >= k
           /\ \A i \in 1..n : Cardinality({j \in 1..n : values[j] <= values[i]}) >= k
                                  => KthLowest(values, k) <= values[i]
<1>. DEFINE upTo(v) == {j \in 1..n : values[j] <= v}
            enough == {i \in 1..n : Cardinality(upTo(values[i])) >= k}
            all == {values[i] : i \in 1..n}
            T == {values[i] : i \in enough}
<1>1. IsFiniteSet(1..n) /\ Cardinality(1..n) = n
    BY FS_Interval
<1>2. DOMAIN values = 1..n /\ enough \in SUBSET DOMAIN values /\ 1..n \in SUBSET DOMAIN values
    OBVIOUS
<1>3. IsFiniteSet(all) /\ IsFiniteSet(T)
    BY <1>1, <1>2, RangeIsFinite
<1>4. all \in SUBSET Int /\ T \in SUBSET Int /\ all # {}
    <2>1. 1 \in 1..n
        OBVIOUS
    <2>. QED BY <2>1
<1>5. PICK top \in 1..n : Max(all) = values[top] /\ \A x \in all : x <= values[top]
    BY <1>3, <1>4, Highest
<1>6. upTo(values[top]) = 1..n
    BY <1>5
<1>7. top \in enough
    <2>0. Cardinality(upTo(values[top])) = n
        BY <1>1, <1>6, Zenon
    <2>1. Cardinality(upTo(values[top])) >= k
        BY <2>0
    <2>. QED BY <2>1
<1>8. T # {}
    BY <1>7
<1>9. Min(T) \in T /\ \A x \in T : Min(T) <= x
    BY <1>3, <1>4, <1>8, Lowest
<1>10. KthLowest(values, k) = Min(T)
    BY <1>2 DEF KthLowest
<1>. QED BY <1>9, <1>10

\* A median is between the values: no more than half of them are above it.
LEMMA MedianSplits ==
    ASSUME NEW n \in Nat \ {0}, NEW values \in [1..n -> Int]
    PROVE  /\ TwiceMedian(values) \in Int
           /\ values \in [1..n -> Nat] => TwiceMedian(values) \in Nat
           /\ 2 * Cardinality({i \in 1..n : 2 * values[i] > TwiceMedian(values)}) <= n
<1>. DEFINE a == KthLowest(values, (n + 1) \div 2)
            b == KthLowest(values, (n + 2) \div 2)
            upTo(v) == {j \in 1..n : values[j] <= v}
            above == {i \in 1..n : 2 * values[i] > TwiceMedian(values)}
<1>1. (n + 1) \div 2 \in 1..n /\ (n + 2) \div 2 \in 1..n /\ (n + 1) \div 2 <= (n + 2) \div 2
      /\ 2 * ((n + 1) \div 2) >= n
    OBVIOUS
<1>2. /\ \E i \in 1..n : a = values[i]
      /\ Cardinality(upTo(a)) >= (n + 1) \div 2
      /\ \A i \in 1..n : Cardinality(upTo(values[i])) >= (n + 1) \div 2 => a <= values[i]
    BY <1>1, KthIsAValue
<1>3. /\ \E i \in 1..n : b = values[i]
      /\ Cardinality(upTo(b)) >= (n + 2) \div 2
    BY <1>1, KthIsAValue
<1>4. Len(values) = n
    OBVIOUS
<1>5. TwiceMedian(values) = a + b
    BY <1>4 DEF TwiceMedian
<1>. HIDE DEF a, b
<1>6. a \in Int /\ b \in Int /\ (values \in [1..n -> Nat] => a \in Nat /\ b \in Nat)
    BY <1>2, <1>3
<1>7. IsFiniteSet(1..n) /\ Cardinality(1..n) = n
    BY FS_Interval
<1>8. IsFiniteSet(upTo(a)) /\ IsFiniteSet(upTo(b)) /\ IsFiniteSet(above)
    BY <1>7, FS_Subset
<1>9. a <= b
    <2>1. PICK i \in 1..n : b = values[i]
        BY <1>3
    <2>2. Cardinality(upTo(b)) \in Nat
        BY <1>8, FS_CardinalityType
    <2>3. Cardinality(upTo(values[i])) >= (n + 1) \div 2
        BY <1>1, <1>3, <2>1, <2>2
    <2>. QED BY <1>2, <2>1, <2>3
<1>10. above \in SUBSET ((1..n) \ upTo(a))
    <2>. SUFFICES ASSUME NEW i \in above PROVE ~(values[i] <= a)
        OBVIOUS
    <2>1. values[i] \in Int /\ 2 * values[i] > a + b
        BY <1>5
    <2>. QED BY <1>6, <1>9, <2>1
<1>11. Cardinality((1..n) \ upTo(a)) = n - Cardinality(upTo(a)) /\ IsFiniteSet((1..n) \ upTo(a))
    <2>. DEFINE low == upTo(a)
    <2>1. (1..n) \cap low = low
        OBVIOUS
    <2>. HIDE DEF low
    <2>2. /\ IsFiniteSet((1..n) \ low)
          /\ Cardinality((1..n) \ low) = Cardinality(1..n) - Cardinality((1..n) \cap low)
        BY <1>7, FS_Difference
    <2>3. IsFiniteSet((1..n) \ low) /\ Cardinality((1..n) \ low) = n - Cardinality(low)
        BY <1>7, <2>1, <2>2, Zenon
    <2>. QED BY <2>3 DEF low
<1>12. Cardinality(above) <= Cardinality((1..n) \ upTo(a))
    BY <1>10, <1>11, FS_Subset
<1>13. Cardinality(above) \in Nat /\ Cardinality(upTo(a)) \in Nat
    BY <1>8, FS_CardinalityType
<1>14. 2 * Cardinality(above) <= n
    BY <1>1, <1>2, <1>11, <1>12, <1>13
<1>. QED BY <1>5, <1>6, <1>14

-----------------------------------------------------------------------------
(* Slices of a company's bars. *)

BarsOf == [day : Nat, close : Nat \ {0}, high : Nat, low : Nat, volume : Nat]

\* What a scan may have read of a company.
Counted(c) == {Unread} \union 0..Len(Past[c])

LEMMA SubSeqKeepsOrder ==
    ASSUME NEW s \in Seq(BarsOf), InOrder(s), NEW i \in Int, NEW j \in Int,
           1 <= i, i <= j + 1, j <= Len(s)
    PROVE  /\ SubSeq(s, i, j) \in Seq(BarsOf) /\ InOrder(SubSeq(s, i, j))
           /\ Len(SubSeq(s, i, j)) = j - i + 1
           /\ \A h \in 1..(j - i + 1) : SubSeq(s, i, j)[h] = s[i + h - 1]
<1>. DEFINE t == SubSeq(s, i, j)
<1>1. \A h \in i..j : s[h] \in BarsOf
    OBVIOUS
<1>2. /\ t \in Seq(BarsOf) /\ Len(t) = j - i + 1
      /\ \A h \in 1..(j - i + 1) : t[h] = s[i + h - 1]
    <2>1. /\ t \in Seq(BarsOf) /\ Len(t) = IF i <= j THEN j - i + 1 ELSE 0
          /\ \A h \in 1..(j - i + 1) : t[h] = s[i + h - 1]
        <3>1. \A h \in 1..(j - i + 1) : t[h] = s[i + h - 1]
            BY <1>1, SubSeqProperties
        <3>2. t \in Seq(BarsOf) /\ Len(t) = IF i <= j THEN j - i + 1 ELSE 0
            BY <1>1, SubSeqProperties
        <3>. QED BY <3>1, <3>2
    <2>. QED BY <2>1
<1>. HIDE DEF t
<1>3. InOrder(t)
    <2>0. DOMAIN t = 1..(j - i + 1)
        BY <1>2
    <2>. SUFFICES ASSUME NEW g \in 1..(j - i + 1), NEW h \in 1..(j - i + 1), g < h
                  PROVE t[g].day < t[h].day
        BY <2>0 DEF InOrder
    <2>1. i + g - 1 \in DOMAIN s /\ i + h - 1 \in DOMAIN s /\ i + g - 1 < i + h - 1
        OBVIOUS
    <2>. QED BY <1>2, <2>1 DEF InOrder
<1>. QED BY <1>2, <1>3 DEF t

LEMMA HistoryIsBars ==
    ASSUME NEW c \in Company, NEW m \in Counted(c)
    PROVE  /\ History(c, m) \in Seq(BarsOf) /\ InOrder(History(c, m))
           /\ m = Unread \/ m = 0 => History(c, m) = <<>>
           /\ m > 0 => Len(History(c, m)) = m
<1>1. Past[c] \in Seq(BarsOf) /\ InOrder(Past[c])
    BY PastAssumption DEF Company, BarsOf
<1>2. CASE m = Unread
    <2>1. History(c, m) = <<>>
        BY <1>2, SubSeqEmpty DEF History, Unread
    <2>2. <<>> \in Seq(BarsOf) /\ InOrder(<<>>)
        BY DEF InOrder
    <2>3. ~(m > 0)
        BY <1>2 DEF Unread
    <2>. QED BY <2>1, <2>2, <2>3
<1>3. CASE m \in 0..Len(Past[c])
    <2>1. m \in Int /\ 1 <= m + 1 /\ m <= Len(Past[c])
        BY <1>1, <1>3
    <2>2. History(c, m) \in Seq(BarsOf) /\ InOrder(History(c, m)) /\ Len(History(c, m)) = m
        BY <1>1, <2>1, SubSeqKeepsOrder DEF History
    <2>. QED BY <1>3, <2>2 DEF Unread
<1>. QED BY <1>2, <1>3 DEF Counted

LEMMA RecentIsTheEnd ==
    ASSUME NEW h \in Seq(BarsOf), InOrder(h)
    PROVE  /\ Recent(h) \in Seq(BarsOf) /\ InOrder(Recent(h))
           /\ Recent(h) # <<>> => h # <<>> /\ LastDayOf(Recent(h)) = LastDayOf(h)
<1>. DEFINE within == {i \in DOMAIN h : h[i].day >= ScanDay - RatingWindow}
<1>1. CASE within = {}
    BY <1>1 DEF Recent, Since, InOrder
<1>2. CASE within # {}
    <2>1. DOMAIN h = 1..Len(h) /\ Len(h) \in Nat
        OBVIOUS
    <2>2. within \in SUBSET Int /\ IsFiniteSet(within)
        <3>1. IsFiniteSet(1..Len(h))
            BY <2>1, FS_Interval
        <3>2. within \in SUBSET 1..Len(h)
            BY <2>1
        <3>. QED BY <3>1, <3>2, FS_Subset
    <2>3. Min(within) \in 1..Len(h)
        BY <1>2, <2>1, <2>2, Lowest
    <2>4. Recent(h) = SubSeq(h, Min(within), Len(h))
        BY <1>2 DEF Recent, Since
    <2>. DEFINE first == Min(within)
    <2>5. first \in 1..Len(h)
        BY <2>3
    <2>. HIDE DEF first, within
    <2>6. /\ SubSeq(h, first, Len(h)) \in Seq(BarsOf) /\ InOrder(SubSeq(h, first, Len(h)))
          /\ Len(SubSeq(h, first, Len(h))) = Len(h) - first + 1
          /\ \A k \in 1..(Len(h) - first + 1) : SubSeq(h, first, Len(h))[k] = h[first + k - 1]
        BY <2>1, <2>5, SubSeqKeepsOrder
    <2>7. LET n == Len(h) - first + 1 IN n \in 1..n /\ first + n - 1 = Len(h)
        BY <2>1, <2>5
    <2>8. LastDayOf(SubSeq(h, first, Len(h))) = LastDayOf(h)
        BY <2>6, <2>7 DEF LastDayOf
    <2>. QED BY <2>1, <2>4, <2>5, <2>6, <2>8 DEF first
<1>. QED BY <1>1, <1>2

\* What is read further back ends as what is read less far back.
LEMMA FurtherBack ==
    ASSUME NEW h \in Seq(BarsOf), Recent(h) # <<>>
    PROVE  \E p, m \in 1..Len(h) :
               p <= m /\ Since(h, PageWindow) = SubSeq(h, p, Len(h)) /\ Recent(h) = SubSeq(h, m, Len(h))
<1>. DEFINE within(days) == {i \in DOMAIN h : h[i].day >= ScanDay - days}
<1>0. DOMAIN h = 1..Len(h) /\ Len(h) \in Nat
    OBVIOUS
<1>1. \A i \in 1..Len(h) : h[i].day \in Nat
    <2>1. \A i \in 1..Len(h) : h[i] \in BarsOf
        OBVIOUS
    <2>. QED BY <2>1 DEF BarsOf
<1>2. IsFiniteSet(1..Len(h))
    BY <1>0, FS_Interval
<1>3. ASSUME NEW days, within(days) # {}
      PROVE  /\ Min(within(days)) \in within(days) /\ within(days) \in SUBSET 1..Len(h)
             /\ \A i \in within(days) : Min(within(days)) <= i
             /\ Since(h, days) = SubSeq(h, Min(within(days)), Len(h))
    <2>1. within(days) \in SUBSET 1..Len(h)
        BY <1>0
    <2>2. within(days) \in SUBSET Int /\ IsFiniteSet(within(days))
        BY <1>0, <1>2, <2>1, FS_Subset
    <2>3. Since(h, days) = SubSeq(h, Min(within(days)), Len(h))
        BY <1>3 DEF Since
    <2>. HIDE DEF within
    <2>. QED BY <1>3, <2>1, <2>2, <2>3, Lowest
<1>4. within(RatingWindow) # {}
    BY DEF Recent, Since
<1>5. within(RatingWindow) \subseteq within(PageWindow)
    <2>1. RatingWindow \in Nat /\ PageWindow \in Nat /\ ScanDay \in Nat /\ RatingWindow <= PageWindow
        BY MarketScanAssumption
    <2>. QED BY <1>0, <1>1, <2>1
<1>6. within(PageWindow) # {}
    BY <1>4, <1>5
<1>7. /\ Min(within(PageWindow)) \in 1..Len(h) /\ Min(within(RatingWindow)) \in 1..Len(h)
      /\ Min(within(PageWindow)) <= Min(within(RatingWindow))
      /\ Since(h, PageWindow) = SubSeq(h, Min(within(PageWindow)), Len(h))
      /\ Since(h, RatingWindow) = SubSeq(h, Min(within(RatingWindow)), Len(h))
    <2>. HIDE DEF within
    <2>1. /\ Min(within(PageWindow)) \in within(PageWindow) /\ within(PageWindow) \in SUBSET 1..Len(h)
          /\ \A i \in within(PageWindow) : Min(within(PageWindow)) <= i
          /\ Since(h, PageWindow) = SubSeq(h, Min(within(PageWindow)), Len(h))
        BY <1>3, <1>6
    <2>2. /\ Min(within(RatingWindow)) \in within(RatingWindow) /\ within(RatingWindow) \in SUBSET 1..Len(h)
          /\ Since(h, RatingWindow) = SubSeq(h, Min(within(RatingWindow)), Len(h))
        BY <1>3, <1>4
    <2>. QED BY <1>5, <2>1, <2>2
<1>. HIDE DEF within
<1>. QED BY <1>7 DEF Recent

\* A window at the end of the end of a sequence is one at its end.
LEMMA EndOfTheEnd ==
    ASSUME NEW S, NEW q \in Seq(S), NEW m \in 1..Len(q), NEW i \in Int, NEW j \in Int,
           1 <= i, i <= j, j <= Len(q) - m + 1
    PROVE  /\ Len(SubSeq(q, m, Len(q))) = Len(q) - m + 1
           /\ SubSeq(SubSeq(q, m, Len(q)), i, j) = SubSeq(q, m + i - 1, m + j - 1)
OBVIOUS

-----------------------------------------------------------------------------
(* The three lists of one market. *)

SliceRead(c, n) == Recent(History(c, n[c]))
Qualifying(n) == {c \in Company : Qualifies(c, SliceRead(c, n))}
Sessions(n) == {LastDayOf(SliceRead(c, n)) : c \in Qualifying(n)}
Current(n) == {c \in Qualifying(n) : Max(Sessions(n)) - LastDayOf(SliceRead(c, n)) <= MaxLag}
AsListed(c, n) == [company |-> c, read |-> SliceRead(c, n), session |-> LastDayOf(SliceRead(c, n))]
Plain(lines) == {[company |-> r.company, read |-> r.read, session |-> r.session] : r \in lines}
AllCounted(n) == \A c \in Company : n[c] \in Counted(c)

LEMMA SlicesAreBars ==
    ASSUME NEW n, AllCounted(n), NEW c \in Company
    PROVE  /\ SliceRead(c, n) \in Seq(BarsOf) /\ InOrder(SliceRead(c, n))
           /\ SliceRead(c, n) # <<>> =>
                  /\ n[c] > 0 /\ LastDayOf(SliceRead(c, n)) = LastDayOf(History(c, n[c]))
                  /\ LastDayOf(SliceRead(c, n)) \in Nat
<1>1. n[c] \in Counted(c)
    BY DEF AllCounted
<1>2. History(c, n[c]) \in Seq(BarsOf) /\ InOrder(History(c, n[c]))
      /\ (n[c] = Unread \/ n[c] = 0 => History(c, n[c]) = <<>>)
    BY <1>1, HistoryIsBars
<1>3. /\ SliceRead(c, n) \in Seq(BarsOf) /\ InOrder(SliceRead(c, n))
      /\ SliceRead(c, n) # <<>> =>
             History(c, n[c]) # <<>> /\ LastDayOf(SliceRead(c, n)) = LastDayOf(History(c, n[c]))
    BY <1>2, RecentIsTheEnd DEF SliceRead
<1>4. n[c] # Unread /\ n[c] # 0 => n[c] > 0
    BY <1>1 DEF Counted
<1>5. SliceRead(c, n) # <<>> => LastDayOf(SliceRead(c, n)) \in Nat
    <2>. DEFINE s == SliceRead(c, n)
    <2>1. s \in Seq(BarsOf)
        BY <1>3
    <2>. HIDE DEF s
    <2>2. s # <<>> => s[Len(s)] \in BarsOf
        BY <2>1
    <2>3. s # <<>> => s[Len(s)].day \in Nat
        BY <2>2 DEF BarsOf
    <2>. QED BY <2>3 DEF LastDayOf, s
<1>. QED BY <1>2, <1>3, <1>4, <1>5

LEMMA QualifyingAreRead ==
    ASSUME NEW n, AllCounted(n), NEW c \in Company, Qualifies(c, SliceRead(c, n))
    PROVE  /\ SliceRead(c, n) # <<>> /\ n[c] > 0 /\ Len(SliceRead(c, n)) >= MinBars
           /\ LastDayOf(SliceRead(c, n)) = LastDayOf(History(c, n[c]))
           /\ LastDayOf(SliceRead(c, n)) \in Nat
<1>1. Len(SliceRead(c, n)) >= MinBars /\ MinBars \in Nat \ {0}
    BY MarketScanAssumption DEF Qualifies
<1>2. SliceRead(c, n) # <<>>
    BY <1>1
<1>. QED BY <1>1, <1>2, SlicesAreBars

LEMMA CompaniesAreFew == IsFiniteSet(Company) /\ Company \in SUBSET Nat
<1>1. Len(Past) \in Nat
    BY PastAssumption
<1>. QED BY <1>1, FS_Interval DEF Company

LEMMA SessionsAreDays ==
    ASSUME NEW n, AllCounted(n), NEW D \in SUBSET Qualifying(n)
    PROVE  LET days == {LastDayOf(SliceRead(c, n)) : c \in D}
           IN  days \in SUBSET Nat /\ IsFiniteSet(days)
<1>. DEFINE f == [c \in Company |-> LastDayOf(SliceRead(c, n))]
            days == {LastDayOf(SliceRead(c, n)) : c \in D}
<1>1. days \in SUBSET Nat
    BY QualifyingAreRead DEF Qualifying
<1>2. D \in SUBSET DOMAIN f /\ IsFiniteSet(DOMAIN f)
    BY CompaniesAreFew DEF Qualifying
<1>3. IsFiniteSet({f[c] : c \in D})
    BY <1>2, RangeIsFinite
<1>4. {f[c] : c \in D} = days
    BY <1>2
<1>. QED BY <1>1, <1>3, <1>4

\* What the ranking lists depends on the bars it read and on nothing else.
LEMMA RankingLists ==
    ASSUME NEW n, AllCounted(n), NEW rank
    PROVE  Plain(RankingRows(n, rank)) = {AsListed(c, n) : c \in Current(n)}
<1>. DEFINE Line(c) == RankingRow(c, SliceRead(c, n), rank[c])
            found == {Line(c) : c \in Qualifying(n)}
            days == {r.session : r \in found}
<1>1. RankingRows(n, rank) = NotStale(found, days)
    BY DEF RankingRows, SliceRead, Qualifying
<1>2. \A c : /\ Line(c).company = c /\ Line(c).read = SliceRead(c, n)
             /\ Line(c).session = LastDayOf(SliceRead(c, n))
    BY DEF RankingRow
<1>. HIDE DEF Line
<1>3. days = Sessions(n)
    BY <1>2 DEF Sessions
<1>4. NotStale(found, days) = {r \in found : Max(Sessions(n)) - r.session <= MaxLag}
    BY <1>3 DEF NotStale
<1>5. Plain({r \in found : Max(Sessions(n)) - r.session <= MaxLag}) = {AsListed(c, n) : c \in Current(n)}
    BY <1>2 DEF Plain, AsListed, Current
<1>. QED BY <1>1, <1>4, <1>5

\* So does what the heatmap shows, and it is the same.
LEMMA HeatmapLists ==
    ASSUME NEW n, AllCounted(n)
    PROVE  Plain(HeatmapTiles(n)) = {AsListed(c, n) : c \in Current(n)}
<1>. DEFINE Line(c) == Tile(c, History(c, n[c]), SliceRead(c, n))
            readable == {c \in Company : n[c] > 0}
            found == {Line(c) : c \in {d \in readable : Qualifies(d, SliceRead(d, n))}}
            days == {r.session : r \in found}
<1>1. HeatmapTiles(n) = NotStale(found, days)
    BY DEF HeatmapTiles, HeatmapSlice, SliceRead
<1>2. {d \in readable : Qualifies(d, SliceRead(d, n))} = Qualifying(n)
    BY QualifyingAreRead DEF Qualifying
<1>3. found = {Line(c) : c \in Qualifying(n)}
    BY <1>2
<1>4. \A c \in Qualifying(n) : /\ Line(c).company = c /\ Line(c).read = SliceRead(c, n)
                               /\ Line(c).session = LastDayOf(SliceRead(c, n))
    <2>. SUFFICES ASSUME NEW c \in Qualifying(n)
                  PROVE  /\ Line(c).company = c /\ Line(c).read = SliceRead(c, n)
                         /\ Line(c).session = LastDayOf(SliceRead(c, n))
        OBVIOUS
    <2>1. LastDayOf(SliceRead(c, n)) = LastDayOf(History(c, n[c]))
        BY QualifyingAreRead DEF Qualifying
    <2>. QED BY <2>1 DEF Tile
<1>. HIDE DEF Line, readable
<1>. DEFINE same == {Line(c) : c \in Qualifying(n)}
<1>5. {r.session : r \in same} = Sessions(n)
    BY <1>4 DEF Sessions
<1>6. days = Sessions(n)
    BY <1>3, <1>5
<1>7. NotStale(found, days) = {r \in same : Max(Sessions(n)) - r.session <= MaxLag}
    BY <1>3, <1>6 DEF NotStale
<1>8. Plain({r \in same : Max(Sessions(n)) - r.session <= MaxLag}) = {AsListed(c, n) : c \in Current(n)}
    BY <1>4 DEF Plain, AsListed, Current
<1>. QED BY <1>1, <1>7, <1>8

\* The surges are judged against sessions of at least the companies the ranking is, so
\* they list no company it leaves out.
LEMMA SurgeLists ==
    ASSUME NEW n, AllCounted(n), NEW more \in SUBSET Nat, IsFiniteSet(more), NEW reports,
           \A c \in Company : Qualifies(c, SliceRead(c, n)) => SurgeWindows(SliceRead(c, n)) # {}
    PROVE  Plain(SurgeRows(n, more, reports)) \subseteq {AsListed(c, n) : c \in Current(n)}
<1>. DEFINE scored == {c \in Company : Scored(c, SliceRead(c, n))}
            hits == {c \in scored : \E w \in SurgeWindows(SliceRead(c, n)) : Surging(w)}
            Line(c, w) == SurgeRow(c, SliceRead(c, n), w, reports[c])
            found == UNION {{Line(c, w) : w \in SurgeWindows(SliceRead(c, n))} : c \in hits}
            days == more \union {LastDayOf(SliceRead(c, n)) : c \in scored}
<1>1. SurgeRows(n, more, reports) = NotStale(found, days)
    BY DEF SurgeRows, SliceRead
<1>2. scored = Qualifying(n)
    BY DEF Scored, Qualifying
<1>3. days = more \union Sessions(n)
    BY <1>2 DEF Sessions
<1>4. \A c, w : /\ Line(c, w).company = c /\ Line(c, w).read = SliceRead(c, n)
                /\ Line(c, w).session = LastDayOf(SliceRead(c, n))
    BY DEF SurgeRow
<1>5. \A r \in found : \E c \in Qualifying(n) : \E w : r = Line(c, w)
    BY <1>2
<1>. HIDE DEF Line, scored, hits, found, days
<1>6. ASSUME NEW r \in found, Max(days) - r.session <= MaxLag
      PROVE  \E c \in Current(n) : r.company = c /\ r.read = SliceRead(c, n)
                                   /\ r.session = LastDayOf(SliceRead(c, n))
    <2>1. PICK c \in Qualifying(n) : r.company = c /\ r.read = SliceRead(c, n)
                                   /\ r.session = LastDayOf(SliceRead(c, n))
        BY <1>4, <1>5
    <2>2. Sessions(n) \in SUBSET Nat /\ IsFiniteSet(Sessions(n))
        BY SessionsAreDays DEF Sessions
    <2>3. LastDayOf(SliceRead(c, n)) \in Sessions(n)
        BY DEF Sessions
    <2>4. days \in SUBSET Int /\ IsFiniteSet(days) /\ days # {} /\ Sessions(n) \in SUBSET Int
        <3>1. IsFiniteSet(more \union Sessions(n))
            BY <2>2, FS_Union
        <3>2. LastDayOf(SliceRead(c, n)) \in days
            BY <1>3, <2>3
        <3>3. days \in SUBSET Nat
            BY <1>3, <2>2
        <3>. QED BY <1>3, <2>2, <3>1, <3>2, <3>3
    <2>5. Max(days) \in days /\ \A d \in days : d <= Max(days)
        BY <2>4, Highest
    <2>6. Max(Sessions(n)) \in Sessions(n)
        BY <2>2, <2>3, <2>4, Highest
    <2>7. Max(Sessions(n)) <= Max(days) /\ Max(Sessions(n)) \in Int /\ Max(days) \in Int
        BY <1>3, <2>4, <2>5, <2>6
    <2>8. r.session \in Int /\ MaxLag \in Int
        BY <2>1, <2>3, <2>4, MarketScanAssumption
    <2>9. Max(Sessions(n)) - LastDayOf(SliceRead(c, n)) <= MaxLag
        BY <1>6, <2>1, <2>7, <2>8
    <2>10. c \in Current(n)
        BY <2>9 DEF Current
    <2>. QED BY <2>1, <2>10
<1>7. ASSUME NEW r \in NotStale(found, days)
      PROVE  [company |-> r.company, read |-> r.read, session |-> r.session]
                 \in {AsListed(c, n) : c \in Current(n)}
    <2>1. PICK c \in Current(n) : r.company = c /\ r.read = SliceRead(c, n)
                                  /\ r.session = LastDayOf(SliceRead(c, n))
        BY <1>6, <1>7 DEF NotStale
    <2>. QED BY <2>1 DEF AsListed
<1>. QED BY <1>1, <1>7 DEF Plain

-----------------------------------------------------------------------------
(* The figures of a surge. *)

LEMMA Division ==
    ASSUME NEW a \in Int, NEW d \in Nat \ {0}
    PROVE  a \div d \in Int /\ d * (a \div d) <= a /\ a < d * (a \div d) + d
OBVIOUS

LEMMA ProductsGrow ==
    ASSUME NEW d \in Nat, NEW a \in Int, NEW b \in Int, a <= b
    PROVE  d * a <= d * b
OBVIOUS

LEMMA QuotientIsAtLeast ==
    ASSUME NEW a \in Int, NEW d \in Nat \ {0}, NEW q \in Int, d * q <= a
    PROVE  q <= a \div d
<1>. DEFINE p == a \div d
<1>1. p \in Int /\ a < d * p + d
    BY Division
<1>. HIDE DEF p
<1>2. CASE p + 1 <= q
    <2>1. d * (p + 1) <= d * q
        BY <1>1, <1>2, ProductsGrow
    <2>2. d * (p + 1) = d * p + d
        BY <1>1
    <2>3. d * p \in Int /\ d * q \in Int
        BY <1>1
    <2>. QED BY <1>1, <2>1, <2>2, <2>3
<1>. QED BY <1>1, <1>2 DEF p

LEMMA QuotientsGrow ==
    ASSUME NEW a \in Int, NEW b \in Int, NEW d \in Nat \ {0}, a <= b
    PROVE  a \div d <= b \div d
<1>1. a \div d \in Int /\ d * (a \div d) <= a
    BY Division
<1>2. d * (a \div d) <= b
    <2>1. d * (a \div d) \in Int
        BY <1>1
    <2>. QED BY <1>1, <2>1
<1>. QED BY <1>1, <1>2, QuotientIsAtLeast

LEMMA SumIsAtMost ==
    ASSUME NEW n \in Nat, NEW f \in [1..n -> Nat], NEW top \in Nat, \A i \in 1..n : f[i] <= top
    PROVE  Total(f) \in Nat /\ Total(f) <= n * top
<1>. DEFINE S == 1..n
            Sum(v) == SumFunctionOnSet(f, v)
            Good == {v \in SUBSET S : Sum(v) \in Nat /\ Sum(v) <= Cardinality(v) * top}
<1>1. IsFiniteSet(S) /\ Cardinality(S) = n
    BY FS_Interval
<1>2. ASSUME NEW v \in SUBSET S, \A u \in SUBSET v : u # v => u \in Good
      PROVE  v \in Good
    <2>1. IsFiniteSet(v)
        BY <1>1, FS_Subset
    <2>2. CASE v = {}
        <3>1. Sum(v) = 0 /\ Cardinality(v) = 0
            BY <2>1, <2>2, SumUnfolds, FS_EmptySet
        <3>. QED BY <3>1
    <2>3. CASE v # {}
        <3>. DEFINE p == Pick(v)
                    u == v \ {p}
        <3>1. p \in v /\ u \in SUBSET v /\ u # v
            BY <2>3, PickIsIn
        <3>2. u \in Good
            BY <1>2, <3>1
        <3>3. Cardinality(u) = Cardinality(v) - 1 /\ Cardinality(v) \in Nat /\ Cardinality(u) \in Nat
            BY <2>1, <3>1, FS_RemoveElement, FS_CardinalityType, FS_Subset
        <3>4. Sum(v) = f[p] + Sum(u)
            BY <2>1, <2>3, SumUnfolds
        <3>5. f[p] \in Nat /\ f[p] <= top
            BY <3>1
        <3>6. Sum(u) \in Nat /\ Sum(u) <= Cardinality(u) * top
            BY <3>2
        <3>. HIDE DEF Sum, p, u
        <3>7. Cardinality(v) * top = Cardinality(u) * top + top
            BY <3>3
        <3>8. Cardinality(u) * top \in Nat
            BY <3>3
        <3>9. Sum(v) \in Nat /\ Sum(v) <= Cardinality(v) * top
            BY <3>4, <3>5, <3>6, <3>7, <3>8
        <3>. QED BY <3>9
    <2>. QED BY <2>2, <2>3
<1>3. S \in Good
    <2>. HIDE DEF Good, S
    <2>. QED BY <1>1, <1>2, ProperSubsets
<1>4. DOMAIN f = S
    OBVIOUS
<1>. QED BY <1>1, <1>3, <1>4 DEF Total, SumFunction

\* The sessions of a surge, the last of which is the slice's, and a typical volume that
\* can be divided by.
LEMMA WindowsAreWhole ==
    ASSUME NEW s \in Seq(BarsOf), InOrder(s), NEW w \in SurgeWindows(s)
    PROVE  /\ w.recent \in Seq(BarsOf) /\ Len(w.recent) = RecentDays /\ InOrder(w.recent)
           /\ LastDayOf(s) = w.recent[RecentDays].day
           /\ w.typical \in Nat \ {0}
<1>. DEFINE n == Len(s)
            recent == SubSeq(s, n - RecentDays + 1, n)
            baseline == SubSeq(s, n - RecentDays - BaselineDays + 1, n - RecentDays)
            typical == TwiceMedian(Volumes(baseline))
<1>0. RecentDays \in Nat \ {0} /\ BaselineDays \in Nat \ {0} /\ n \in Nat
    BY MarketScanAssumption
<1>1. /\ n >= RecentDays + BaselineDays /\ typical # 0
      /\ w.recent = recent /\ w.typical = typical
    BY <1>0 DEF SurgeWindows
<1>. DEFINE r == RecentDays
            b == BaselineDays
            from == n - r - b + 1
<1>. HIDE DEF n, r, b
<1>2. n \in Nat /\ r \in Nat \ {0} /\ b \in Nat \ {0} /\ n >= r + b /\ n = Len(s)
    BY <1>0, <1>1 DEF n, r, b
<1>3. /\ SubSeq(s, n - r + 1, n) \in Seq(BarsOf) /\ InOrder(SubSeq(s, n - r + 1, n))
      /\ Len(SubSeq(s, n - r + 1, n)) = n - (n - r + 1) + 1
      /\ \A h \in 1..(n - (n - r + 1) + 1) : SubSeq(s, n - r + 1, n)[h] = s[(n - r + 1) + h - 1]
    <2>. DEFINE start == n - r + 1
    <2>1. start \in Int /\ n \in Int /\ 1 <= start /\ start <= n + 1 /\ n <= Len(s)
        BY <1>2
    <2>. HIDE DEF start
    <2>2. /\ SubSeq(s, start, n) \in Seq(BarsOf) /\ InOrder(SubSeq(s, start, n))
          /\ Len(SubSeq(s, start, n)) = n - start + 1
          /\ \A h \in 1..(n - start + 1) : SubSeq(s, start, n)[h] = s[start + h - 1]
        BY <2>1, SubSeqKeepsOrder
    <2>. QED BY <2>2 DEF start
<1>4. /\ SubSeq(s, from, n - r) \in Seq(BarsOf)
      /\ Len(SubSeq(s, from, n - r)) = (n - r) - from + 1
    <2>1. from \in Int /\ n - r \in Int /\ 1 <= from /\ from <= (n - r) + 1 /\ n - r <= Len(s)
        BY <1>2
    <2>. HIDE DEF from
    <2>. QED BY <2>1, SubSeqKeepsOrder
<1>5. n - (n - r + 1) + 1 = r /\ (n - r) - from + 1 = b /\ r \in 1..r /\ (n - r + 1) + r - 1 = n
    BY <1>2
<1>6. LastDayOf(s) = SubSeq(s, n - r + 1, n)[r].day
    BY <1>2, <1>3, <1>5 DEF LastDayOf
<1>7. TwiceMedian(Volumes(SubSeq(s, from, n - r))) \in Nat
    <2>. DEFINE base == SubSeq(s, from, n - r)
    <2>1. base \in Seq(BarsOf) /\ Len(base) = b
        BY <1>4, <1>5
    <2>. HIDE DEF base
    <2>2. Volumes(base) \in [1..b -> Nat]
        <3>1. DOMAIN base = 1..b /\ \A i \in 1..b : base[i] \in BarsOf
            BY <1>2, <2>1
        <3>2. \A i \in 1..b : base[i].volume \in Nat
            BY <3>1 DEF BarsOf
        <3>. QED BY <3>1, <3>2 DEF Volumes
    <2>3. Volumes(base) \in [1..b -> Int]
        BY <2>2
    <2>. QED BY <1>2, <2>2, <2>3, MedianSplits DEF base
<1>. QED BY <1>1, <1>3, <1>5, <1>6, <1>7 DEF n, r, b

LEMMA MeanIsBelowPeak ==
    ASSUME NEW r \in Nat \ {0}, NEW t \in Nat \ {0}, NEW total \in Nat, NEW p \in Nat, total <= r * p
    PROVE  (200 * total) \div (r * t) <= (200 * p) \div (1 * t)
<1>. DEFINE d == r * t
            q == (200 * total) \div d
<1>1. d \in Nat \ {0}
    OBVIOUS
<1>2. q \in Int /\ d * q <= 200 * total
    <2>. HIDE DEF d
    <2>. QED BY <1>1, Division
<1>. HIDE DEF q
<1>3. r * (t * q) <= r * (200 * p)
    <2>1. d * q = r * (t * q)
        BY <1>2
    <2>2. 200 * total <= 200 * (r * p) /\ 200 * (r * p) = r * (200 * p)
        OBVIOUS
    <2>3. r * (t * q) \in Int /\ r * (200 * p) \in Int /\ d * q \in Int
        BY <1>1, <1>2
    <2>. HIDE DEF d
    <2>. QED BY <1>2, <2>1, <2>2, <2>3
<1>4. t * q \in Int /\ 200 * p \in Int
    BY <1>2
<1>5. t * q <= 200 * p
    <2>1. CASE 200 * p + 1 <= t * q
        <3>1. r * (200 * p + 1) <= r * (t * q)
            BY <1>4, <2>1, ProductsGrow
        <3>2. r * (200 * p + 1) = r * (200 * p) + r
            OBVIOUS
        <3>3. r * (200 * p) \in Int /\ r * (t * q) \in Int
            BY <1>4
        <3>. QED BY <1>3, <3>1, <3>2, <3>3
    <2>. QED BY <1>4, <2>1
<1>6. q <= (200 * p) \div t
    BY <1>2, <1>4, <1>5, QuotientIsAtLeast
<1>. QED BY <1>6 DEF q

LEMMA PeakIsASession ==
    ASSUME NEW r \in Nat \ {0}, NEW v \in [1..r -> Nat]
    PROVE  LET peak == Max({i \in 1..r : \A j \in 1..r : v[j] <= v[i]})
           IN  peak \in 1..r /\ \A j \in 1..r : v[j] <= v[peak]
<1>. DEFINE peaks == {i \in 1..r : \A j \in 1..r : v[j] <= v[i]}
            all == {v[i] : i \in 1..r}
<1>1. IsFiniteSet(1..r) /\ DOMAIN v = 1..r /\ 1 \in 1..r
    BY FS_Interval
<1>2. IsFiniteSet(all) /\ all \in SUBSET Int /\ all # {}
    <2>1. IsFiniteSet(all)
        BY <1>1, RangeIsFinite
    <2>2. v[1] \in all
        BY <1>1
    <2>. QED BY <2>1, <2>2
<1>3. Max(all) \in all /\ \A x \in all : x <= Max(all)
    BY <1>2, Highest
<1>4. peaks # {}
    BY <1>3
<1>5. IsFiniteSet(peaks) /\ peaks \in SUBSET Int
    BY <1>1, FS_Subset
<1>6. Max(peaks) \in peaks
    BY <1>4, <1>5, Highest
<1>. QED BY <1>6

LEMMA FiguresAddUp ==
    ASSUME NEW s \in Seq(BarsOf), InOrder(s), NEW w \in SurgeWindows(s), Surging(w),
           NEW dates \in SUBSET Nat, IsFiniteSet(dates), NEW c
    PROVE  LET r == SurgeRow(c, s, w, dates)
           IN  /\ 100 * MinRatio <= r.metrics.ratio
               /\ r.metrics.ratio <= r.context.peakRatio /\ r.metrics.lastDay <= r.context.peakRatio
               /\ r.context.start <= r.context.peakDay /\ r.context.peakDay <= r.session
               /\ \A day \in r.report : day <= r.session
<1>. DEFINE n == RecentDays
            recent == w.recent
            v == Volumes(recent)
            t == w.typical
            peak == Max({i \in 1..n : \A j \in 1..n : recent[j].volume <= recent[i].volume})
            p == recent[peak].volume
            line == SurgeRow(c, s, w, dates)
<1>1. /\ line.metrics.ratio = (200 * Total(v)) \div (n * t)
      /\ line.metrics.lastDay = (200 * recent[n].volume) \div (1 * t)
      /\ line.context.peakRatio = (200 * p) \div (1 * t)
      /\ line.context.start = recent[1].day /\ line.context.peakDay = recent[peak].day
      /\ line.session = LastDayOf(s)
    BY DEF SurgeRow, Metrics, Context, RatioOf
<1>2. line.report = ReportInWindow(dates, s)
    BY DEF SurgeRow
<1>. HIDE DEF line
<1>3. /\ recent \in Seq(BarsOf) /\ Len(recent) = n /\ InOrder(recent)
      /\ LastDayOf(s) = recent[n].day /\ t \in Nat \ {0}
    BY WindowsAreWhole
<1>4. n \in Nat \ {0} /\ MinRatio \in Nat \ {0}
    BY MarketScanAssumption
<1>5. 2 * Total(v) >= MinRatio * n * t
    BY DEF Surging
<1>. HIDE DEF recent, t, n
<1>6. DOMAIN recent = 1..n /\ \A i \in 1..n : recent[i] \in BarsOf
    BY <1>3, <1>4
<1>7. \A i \in 1..n : recent[i].volume \in Nat /\ recent[i].day \in Nat
    BY <1>6 DEF BarsOf
<1>8. v \in [1..n -> Nat] /\ \A i \in 1..n : v[i] = recent[i].volume
    BY <1>6, <1>7 DEF Volumes
<1>. HIDE DEF v
<1>9. peak \in 1..n /\ \A j \in 1..n : v[j] <= v[peak]
    <2>1. {i \in 1..n : \A j \in 1..n : recent[j].volume <= recent[i].volume}
              = {i \in 1..n : \A j \in 1..n : v[j] <= v[i]}
        BY <1>8
    <2>2. LET top == Max({i \in 1..n : \A j \in 1..n : v[j] <= v[i]})
          IN  top \in 1..n /\ \A j \in 1..n : v[j] <= v[top]
        BY <1>4, <1>8, PeakIsASession
    <2>. QED BY <2>1, <2>2
<1>. HIDE DEF peak
<1>10. p = v[peak] /\ p \in Nat
    BY <1>7, <1>8, <1>9
<1>. HIDE DEF p
<1>11. Total(v) \in Nat /\ Total(v) <= n * p
    BY <1>4, <1>8, <1>9, <1>10, SumIsAtMost
<1>12. 100 * MinRatio <= line.metrics.ratio
    <2>. DEFINE d == n * t
    <2>1. d \in Nat \ {0}
        BY <1>3, <1>4
    <2>2. d * (100 * MinRatio) <= 200 * Total(v)
        <3>1. d * (100 * MinRatio) = 100 * (MinRatio * n * t)
            BY <1>3, <1>4
        <3>2. MinRatio * n * t \in Int
            BY <1>3, <1>4
        <3>. QED BY <1>5, <1>11, <3>1, <3>2
    <2>. HIDE DEF d
    <2>3. 200 * Total(v) \in Int /\ 100 * MinRatio \in Int
        BY <1>4, <1>11
    <2>4. 100 * MinRatio <= (200 * Total(v)) \div d
        BY <2>1, <2>2, <2>3, QuotientIsAtLeast
    <2>. QED BY <1>1, <2>4 DEF d
<1>13. line.metrics.ratio <= line.context.peakRatio
    <2>1. (200 * Total(v)) \div (n * t) <= (200 * p) \div (1 * t)
        BY <1>3, <1>4, <1>10, <1>11, MeanIsBelowPeak
    <2>. QED BY <1>1, <2>1
<1>14. line.metrics.lastDay <= line.context.peakRatio
    <2>1. recent[n].volume \in Nat /\ recent[n].volume <= p
        BY <1>4, <1>7, <1>8, <1>9, <1>10
    <2>2. (200 * recent[n].volume) \div t <= (200 * p) \div t
        <3>1. /\ 200 * recent[n].volume \in Int /\ 200 * p \in Int
              /\ 200 * recent[n].volume <= 200 * p
            BY <1>10, <2>1
        <3>. QED BY <1>3, <3>1, QuotientsGrow
    <2>. QED BY <1>1, <1>3, <2>2
<1>15. line.context.start <= line.context.peakDay /\ line.context.peakDay <= line.session
    <2>1. ASSUME NEW i \in 1..n, NEW j \in 1..n, i <= j
          PROVE  recent[i].day <= recent[j].day
        <3>1. recent[i].day \in Nat /\ recent[j].day \in Nat
            BY <1>7
        <3>2. i < j => recent[i].day < recent[j].day
            BY <1>3, <1>6 DEF InOrder
        <3>3. i = j \/ i < j
            BY <1>4, <2>1
        <3>. QED BY <3>1, <3>2, <3>3
    <2>2. 1 \in 1..n /\ n \in 1..n /\ 1 <= peak /\ peak <= n
        BY <1>4, <1>9
    <2>. QED BY <1>1, <1>3, <1>9, <2>1, <2>2
<1>16. \A day \in line.report : day <= line.session
    <2>. SUFFICES ASSUME NEW day \in line.report PROVE day <= LastDayOf(s)
        BY <1>1
    <2>. DEFINE first == s[IF Len(s) > RecentDays THEN Len(s) - RecentDays ELSE 1].day
                in == {d \in dates : first <= d /\ d <= LastDayOf(s)}
    <2>1. in # {} /\ day = Max(in)
        BY <1>2 DEF ReportInWindow
    <2>. HIDE DEF first
    <2>2. in \in SUBSET dates /\ in \in SUBSET Int /\ \A d \in in : d <= LastDayOf(s)
        <3>1. \A d \in in : d \in dates /\ d <= LastDayOf(s)
            BY Zenon
        <3>2. in \in SUBSET dates
            BY <3>1, Zenon
        <3>. HIDE DEF in
        <3>3. in \in SUBSET Int
            BY <3>2
        <3>. QED BY <3>1, <3>2, <3>3
    <2>3. IsFiniteSet(in)
        BY <2>2, FS_Subset
    <2>. HIDE DEF in
    <2>4. day \in in
        BY <2>1, <2>2, <2>3, Highest
    <2>. QED BY <2>2, <2>4
<1>. QED BY <1>12, <1>13, <1>14, <1>15, <1>16 DEF line

-----------------------------------------------------------------------------
(* The back-test of a signal that only follows the price. *)

LEMMA JudgedAreSignals ==
    ASSUME NEW c, NEW s, NEW j \in Judged(c, s)
    PROVE  \E signal \in Signals[c], i \in 1..(Len(s) - Forward) :
               /\ j.day = s[i].day /\ j.name = signal.name /\ j.company = c
               /\ j = [company |-> j.company, day |-> j.day, name |-> j.name, won |-> j.won]
               /\ signal.bullish /\ j.won => 2 * Returns(s)[i] > TwiceMedian(Returns(s))
<1>. DEFINE gains == Returns(s)
            won(signal, i) == IF signal.bullish THEN 2 * gains[i] > TwiceMedian(gains)
                              ELSE 2 * gains[i] < TwiceMedian(gains)
<1>1. DOMAIN gains = 1..(Len(s) - Forward)
    BY DEF Returns
<1>2. PICK pair \in Signals[c] \X DOMAIN gains :
          /\ pair[1].day = s[pair[2]].day
          /\ j = [company |-> c, day |-> pair[1].day, name |-> pair[1].name, won |-> won(pair[1], pair[2])]
    BY DEF Judged
<1>. HIDE DEF gains
<1>3. pair[1] \in Signals[c] /\ pair[2] \in 1..(Len(s) - Forward)
    BY <1>1, <1>2
<1>4. j.won = won(pair[1], pair[2]) /\ j.day = pair[1].day /\ j.name = pair[1].name /\ j.company = c
    BY <1>2
<1>5. pair[1].bullish /\ j.won => 2 * gains[pair[2]] > TwiceMedian(gains)
    BY <1>4, Zenon
<1>. HIDE DEF won
<1>6. j = [company |-> j.company, day |-> j.day, name |-> j.name, won |-> j.won]
    BY <1>2, <1>4
<1>7. j.day = s[pair[2]].day
    BY <1>2, <1>4
<1>. QED BY <1>3, <1>4, <1>5, <1>6, <1>7 DEF gains

LEMMA ReturnsAreNumbers ==
    ASSUME NEW s \in Seq(BarsOf), Len(s) - Forward > 0
    PROVE  /\ Len(s) - Forward \in Nat \ {0}
           /\ Returns(s) \in [1..(Len(s) - Forward) -> Int]
<1>1. Forward \in Nat \ {0} /\ Len(s) \in Nat
    BY MarketScanAssumption
<1>2. Len(s) - Forward \in Nat \ {0}
    BY <1>1
<1>3. ASSUME NEW i \in 1..(Len(s) - Forward)
      PROVE  (1000 * (s[i + Forward].close - s[i].close)) \div s[i].close \in Int
    <2>1. i \in 1..Len(s) /\ i + Forward \in 1..Len(s)
        BY <1>1
    <2>2. s[i] \in BarsOf /\ s[i + Forward] \in BarsOf
        BY <2>1
    <2>3. s[i].close \in Nat \ {0} /\ s[i + Forward].close \in Nat \ {0}
        BY <2>2 DEF BarsOf
    <2>. DEFINE gain == 1000 * (s[i + Forward].close - s[i].close)
                base == s[i].close
    <2>4. gain \in Int /\ base \in Nat \ {0}
        BY <2>3
    <2>. HIDE DEF gain, base
    <2>5. gain \div base \in Int
        BY <2>4, Division
    <2>. QED BY <2>5 DEF gain, base
<1>. QED BY <1>2, <1>3 DEF Returns

LEMMA DriftWinsNothing ==
    ASSUME NEW n, AllCounted(n), NEW stat \in StatsRows(n), NEW c \in Company,
           stat.count = Len(SliceRead(c, n)) - Forward,
           \A i \in DOMAIN SliceRead(c, n) :
               SliceRead(c, n)[i].day \in {g.day : g \in {h \in Signals[c] : h.name = stat.name /\ h.bullish}},
           \A d \in Company \ {c} : \A g \in Signals[d] : g.name # stat.name
    PROVE  2 * stat.wins <= stat.count
<1>. DEFINE name == stat.name
            enough == {d \in Company : Len(SliceRead(d, n)) >= MinBars}
            judged == UNION {Judged(d, SliceRead(d, n)) : d \in enough}
            J == {j \in judged : j.name = name}
            W == {j \in judged : j.name = name /\ j.won}
            s == SliceRead(c, n)
            m == Len(s) - Forward
            gains == Returns(s)
            above == {i \in 1..m : 2 * gains[i] > TwiceMedian(gains)}
<1>1. stat.count = Cardinality(J) /\ stat.wins = Cardinality(W)
    <2>. DEFINE of(x) == {j \in judged : j.name = x}
                wonOf(x) == {j \in judged : j.name = x /\ j.won}
    <2>. DEFINE latest(d) == CHOOSE g \in Seen(d, SliceRead(d, n)) :
                                 \A h \in Seen(d, SliceRead(d, n)) : h.day <= g.day
                active(x) == Cardinality({d \in enough : Seen(d, SliceRead(d, n)) # {} /\ latest(d).name = x})
    <2>1. \E x : stat = [name |-> x, count |-> Cardinality(of(x)),
                        wins |-> Cardinality(wonOf(x)), active |-> active(x)]
        BY Zenon DEF StatsRows, SliceRead
    <2>. HIDE DEF of, wonOf, active
    <2>2. PICK x : stat = [name |-> x, count |-> Cardinality(of(x)),
                           wins |-> Cardinality(wonOf(x)), active |-> active(x)]
        BY <2>1, Zenon
    <2>3. stat.name = x /\ stat.count = Cardinality(of(x)) /\ stat.wins = Cardinality(wonOf(x))
        BY <2>2
    <2>4. of(x) = J /\ wonOf(x) = W
        BY <2>3, Zenon DEF of, wonOf
    <2>. QED BY <2>3, <2>4, Zenon
<1>2. ASSUME NEW j \in J
      PROVE  /\ c \in enough
             /\ \E signal \in Signals[c], i \in 1..m :
                   /\ j.day = s[i].day /\ j.name = signal.name /\ j.company = c
                   /\ j = [company |-> j.company, day |-> j.day, name |-> j.name, won |-> j.won]
                   /\ signal.bullish /\ j.won => 2 * gains[i] > TwiceMedian(gains)
    <2>1. PICK d \in enough : j \in Judged(d, SliceRead(d, n)) /\ j.name = name
        OBVIOUS
    <2>2. PICK signal \in Signals[d] : j.name = signal.name
        BY <2>1, JudgedAreSignals
    <2>3. d = c
        BY <2>1, <2>2
    <2>. QED BY <2>1, <2>3, JudgedAreSignals
<1>3. W \in SUBSET J
    OBVIOUS
<1>. HIDE DEF judged, enough, J, W
<1>4. CASE J = {}
    <2>1. Cardinality(J) = 0 /\ Cardinality(W) = 0
        BY <1>3, <1>4, FS_EmptySet
    <2>. QED BY <1>1, <2>1
<1>5. CASE J # {}
    <2>1. m > 0 /\ s \in Seq(BarsOf) /\ Len(s) \in Nat /\ 1 \in DOMAIN s
        <3>1. PICK i \in 1..m : TRUE
            BY <1>2, <1>5
        <3>2. s \in Seq(BarsOf)
            BY SlicesAreBars
        <3>. HIDE DEF s
        <3>3. Len(s) \in Nat /\ Forward \in Nat \ {0}
            BY <3>2, MarketScanAssumption
        <3>. QED BY <3>1, <3>2, <3>3
    <2>2. m \in Nat \ {0} /\ gains \in [1..m -> Int]
        BY <2>1, ReturnsAreNumbers
    <2>3. \A signal \in Signals[c] : signal.name = name => signal.bullish
        <3>1. PICK g \in Signals[c] : g.name = name /\ g.bullish
            BY <2>1
        <3>. QED BY <3>1, SignalsAssumption
    <2>. HIDE DEF m, gains, name
    <2>4. 2 * Cardinality(above) <= m
        BY <2>2, MedianSplits
    <2>5. IsFiniteSet(above) /\ Cardinality(above) \in Nat
        <3>1. IsFiniteSet(1..m)
            BY <2>2, FS_Interval
        <3>. QED BY <3>1, FS_Subset, FS_CardinalityType
    <2>. DEFINE f == [i \in above |-> [company |-> c, day |-> s[i].day, name |-> name, won |-> TRUE]]
                T == {f[i] : i \in above}
    <2>6. IsFiniteSet(T) /\ Cardinality(T) <= Cardinality(above)
        <3>1. DOMAIN f = above
            OBVIOUS
        <3>. HIDE DEF f, above
        <3>. QED BY <2>5, <3>1, RangeIsFinite
    <2>7. W \in SUBSET T
        <3>. SUFFICES ASSUME NEW j \in W PROVE j \in T
            OBVIOUS
        <3>1. j \in J /\ j.name = name /\ j.won
            BY <1>3 DEF W
        <3>2. PICK signal \in Signals[c], i \in 1..m :
                  /\ j.day = s[i].day /\ j.name = signal.name /\ j.company = c
                  /\ j = [company |-> j.company, day |-> j.day, name |-> j.name, won |-> j.won]
                  /\ signal.bullish /\ j.won => 2 * gains[i] > TwiceMedian(gains)
            BY <1>2, <3>1
        <3>3. signal.bullish
            BY <2>3, <3>1, <3>2
        <3>4. i \in above
            BY <3>1, <3>2, <3>3
        <3>5. j.won = TRUE
            BY <3>1
        <3>6. j = f[i]
            BY <3>1, <3>2, <3>4, <3>5
        <3>. QED BY <3>4, <3>6
    <2>8. Cardinality(W) <= Cardinality(T) /\ IsFiniteSet(W)
        BY <2>6, <2>7, FS_Subset
    <2>9. Cardinality(W) \in Nat /\ Cardinality(T) \in Nat
        BY <2>6, <2>8, FS_CardinalityType
    <2>10. 2 * Cardinality(W) <= m
        BY <2>2, <2>4, <2>5, <2>6, <2>8, <2>9
    <2>. QED BY <1>1, <2>10 DEF m
<1>. QED BY <1>4, <1>5
-----------------------------------------------------------------------------
(* The scans themselves. *)

BarCounts == {n \in [Company -> Int] : \A c \in Company : n[c] \in 0..Len(Past[c])}
Entries == {n \in [Company -> Int] : \A c \in Company : n[c] = NoEntry \/ n[c] \in 0..Len(Past[c])}
ReadCounts == {n \in [Company -> Int] : AllCounted(n)}

\* What an answered scan shows is what its readings come to; nothing else shows anything.
AnswerKept(k) ==
    IF step[k] = "done" THEN shown[k] \in Answers(k) /\ (k \in AllOrNothing => ~Failed(k))
    ELSE shown[k] = {}

KeptInv ==
    /\ storedBars \in BarCounts /\ entry \in Entries /\ got \in [ScanKinds -> ReadCounts]
    /\ DOMAIN step = ScanKinds /\ DOMAIN shown = ScanKinds
    /\ counted \in SUBSET Nat /\ IsFiniteSet(counted)

ScansInv == KeptInv /\ \A k \in ScanKinds : AnswerKept(k)

LEMMA NothingIsAReading == NothingRead \in ReadCounts
<1>1. \A c \in Company : 0 \in Counted(c)
    <2>1. \A c \in Company : Len(Past[c]) \in Nat
        BY PastAssumption DEF Company
    <2>. QED BY <2>1 DEF Counted
<1>. QED BY <1>1 DEF NothingRead, ReadCounts, AllCounted

\* A scan that a step leaves alone stays answered.
LEMMA LeftAlone ==
    ASSUME NEW k \in ScanKinds, AnswerKept(k), step'[k] = step[k], shown'[k] = shown[k],
           step[k] = "done" => /\ got'[k] = got[k]
                               /\ k = "ranking" => ranks' = ranks
                               /\ k = "surge" => counted' = counted
    PROVE  AnswerKept(k)'
<1>1. CASE step[k] = "done"
    <2>1. Answers(k)' = Answers(k)
        <3>1. CASE k = "ranking"
            BY <1>1, <3>1 DEF Answers
        <3>2. CASE k = "heatmap"
            BY <1>1, <3>2 DEF Answers
        <3>3. CASE k = "surge"
            BY <1>1, <3>3 DEF Answers
        <3>4. CASE k = "stats"
            BY <1>1, <3>4 DEF Answers
        <3>. QED BY <3>1, <3>2, <3>3, <3>4 DEF ScanKinds
    <2>2. Failed(k)' = Failed(k)
        BY <1>1, Zenon DEF Failed
    <2>. QED BY <1>1, <2>1, <2>2, Zenon DEF AnswerKept
<1>2. CASE step[k] # "done"
    BY <1>2 DEF AnswerKept
<1>. QED BY <1>1, <1>2

\* Reading a company changes nothing but what the scan that reads it has.
LEMMA OneReading ==
    ASSUME got \in [ScanKinds -> ReadCounts], NEW k \in ScanKinds, NEW c \in Company, NEW n \in Counted(c),
           got' = [got EXCEPT ![k] = [@ EXCEPT ![c] = n]]
    PROVE  got' \in [ScanKinds -> ReadCounts] /\ \A j \in ScanKinds \ {k} : got'[j] = got[j]
<1>. DEFINE old == got[k]
            new == [old EXCEPT ![c] = n]
<1>1. old \in ReadCounts
    OBVIOUS
<1>2. n \in Int
    BY PastAssumption DEF Counted, Company, Unread
<1>. HIDE DEF old
<1>3. old \in [Company -> Int] /\ \A d \in Company : old[d] \in Counted(d)
    BY <1>1 DEF ReadCounts, AllCounted
<1>4. new \in [Company -> Int] /\ \A d \in Company : new[d] \in Counted(d)
    BY <1>2, <1>3
<1>. HIDE DEF new
<1>5. new \in ReadCounts
    BY <1>4 DEF ReadCounts, AllCounted
<1>6. got' = [got EXCEPT ![k] = new]
    BY DEF new, old
<1>. QED BY <1>5, <1>6

\* A call of one of a scan's readers; n is what it comes to.
Reading(k, c, n) ==
    /\ step[k] = "reading" /\ UNCHANGED <<step, shown, ranks>>
    /\ got' = [got EXCEPT ![k] = [@ EXCEPT ![c] = n]]
    /\ k # "surge" => UNCHANGED counted

LEMMA ReadingsKeep ==
    ASSUME ScansInv, NEW k \in ScanKinds, NEW c \in Company, NEW n \in Counted(c), Reading(k, c, n)
    PROVE  /\ \A j \in ScanKinds : AnswerKept(j)'
           /\ got' \in [ScanKinds -> ReadCounts] /\ step' = step /\ shown' = shown
<1>1. got' \in [ScanKinds -> ReadCounts] /\ \A j \in ScanKinds \ {k} : got'[j] = got[j]
    BY OneReading DEF ScansInv, KeptInv, Reading
<1>2. ASSUME NEW j \in ScanKinds
      PROVE  AnswerKept(j)'
    <2>1. CASE j = k
        <3>1. step[j] # "done"
            BY <2>1 DEF Reading
        <3>. QED BY <3>1, LeftAlone DEF ScansInv, Reading
    <2>2. CASE j # k
        <3>1. got'[j] = got[j] /\ (j = "ranking" => ranks' = ranks)
            BY <1>1, <2>2 DEF Reading
        <3>2. step[j] = "done" /\ j = "surge" => counted' = counted
            BY <2>2 DEF Reading
        <3>. QED BY <3>1, <3>2, LeftAlone DEF ScansInv, Reading
    <2>. QED BY <2>1, <2>2
<1>. QED BY <1>1, <1>2 DEF Reading

LEMMA WholeHistoryCounts ==
    ASSUME NEW c \in Company
    PROVE  Len(Past[c]) \in Nat /\ Unread \in Counted(c) /\ 0..Len(Past[c]) \subseteq Counted(c)
BY PastAssumption DEF Company, Counted

LEMMA ScansStartKept == MarketScanInit => ScansInv
<1>. SUFFICES ASSUME MarketScanInit PROVE ScansInv
    OBVIOUS
<1>1. got \in [ScanKinds -> ReadCounts]
    BY NothingIsAReading DEF MarketScanInit
<1>2. storedBars \in BarCounts
    <2>1. PICK new \in SUBSET Company, behind \in SUBSET Company :
             storedBars = [c \in Company |-> IF c \in new \/ Past[c] = <<>> THEN 0
                                           ELSE IF c \in behind THEN Len(Past[c]) - 1 ELSE Len(Past[c])]
        BY DEF MarketScanInit
    <2>2. ASSUME NEW c \in Company
          PROVE  storedBars[c] \in 0..Len(Past[c])
        <3>1. Past[c] \in Seq([day : Nat, close : Nat \ {0}, high : Nat, low : Nat, volume : Nat])
            BY PastAssumption DEF Company
        <3>2. Len(Past[c]) \in Nat /\ (Past[c] # <<>> => Len(Past[c]) > 0)
            BY <3>1
        <3>. QED BY <2>1, <3>2
    <2>3. storedBars = [c \in Company |-> storedBars[c]]
        BY <2>1
    <2>4. \A c \in Company : storedBars[c] \in Int
        BY <2>2
    <2>. QED BY <2>2, <2>3, <2>4 DEF BarCounts
<1>3. entry \in Entries
    BY DEF MarketScanInit, Entries, NoEntry
<1>4. counted = {} /\ IsFiniteSet({})
    BY FS_EmptySet DEF MarketScanInit
<1>5. DOMAIN step = ScanKinds /\ DOMAIN shown = ScanKinds
    BY DEF MarketScanInit
<1>6. \A k \in ScanKinds : AnswerKept(k)
    BY DEF MarketScanInit, AnswerKept
<1>. QED BY <1>1, <1>2, <1>3, <1>4, <1>5, <1>6 DEF ScansInv, KeptInv

LEMMA LookKeeps ==
    ASSUME ScansInv, NEW k \in ScanKinds, NEW c \in Company, LookInCache(k, c)
    PROVE  ScansInv'
<1>1. /\ step' = step /\ shown' = shown /\ ranks' = ranks /\ counted' = counted
      /\ storedBars' = storedBars /\ entry' = entry
    BY DEF LookInCache, inStore
<1>2. CASE entry[c] = NoEntry
    <2>1. got' = got
        BY <1>2 DEF LookInCache
    <2>2. \A j \in ScanKinds : AnswerKept(j)'
        BY <1>1, <2>1, LeftAlone DEF ScansInv
    <2>. QED BY <1>1, <2>1, <2>2 DEF ScansInv, KeptInv
<1>3. CASE entry[c] # NoEntry
    <2>1. entry[c] \in Counted(c)
        BY <1>3, WholeHistoryCounts DEF ScansInv, KeptInv, Entries
    <2>2. Reading(k, c, entry[c])
        BY <1>1, <1>3 DEF LookInCache, Take, Turn, Awaited, Reading
    <2>3. (\A j \in ScanKinds : AnswerKept(j)') /\ got' \in [ScanKinds -> ReadCounts]
        BY <2>1, <2>2, ReadingsKeep
    <2>. QED BY <1>1, <2>3 DEF ScansInv, KeptInv
<1>. QED BY <1>2, <1>3

LEMMA CacheKeeps ==
    ASSUME KeptInv, NEW c \in Company, NEW n \in 0..Len(Past[c]), NEW failed, Cached(c, n, failed)
    PROVE  entry' \in Entries
<1>1. n \in Int /\ entry \in [Company -> Int] /\ \A d \in Company : entry[d] = NoEntry \/ entry[d] \in 0..Len(Past[d])
    BY DEF KeptInv, Entries
<1>2. entry' = [entry EXCEPT ![c] = n]
    BY DEF Cached
<1>3. entry' \in [Company -> Int] /\ \A d \in Company : entry'[d] = NoEntry \/ entry'[d] \in 0..Len(Past[d])
    BY <1>1, <1>2
<1>. QED BY <1>3 DEF Entries

LEMMA StoreKeeps ==
    ASSUME KeptInv, NEW c \in Company, storedBars' = [storedBars EXCEPT ![c] = Len(Past[c])]
    PROVE  storedBars' \in BarCounts
<1>1. storedBars \in [Company -> Int] /\ \A d \in Company : storedBars[d] \in 0..Len(Past[d])
    BY DEF KeptInv, BarCounts
<1>2. Len(Past[c]) \in Nat
    BY WholeHistoryCounts
<1>3. storedBars' \in [Company -> Int] /\ \A d \in Company : storedBars'[d] \in 0..Len(Past[d])
    BY <1>1, <1>2
<1>. QED BY <1>3 DEF BarCounts

LEMMA ReadKeeps ==
    ASSUME ScansInv, NEW k \in ScanKinds, NEW c \in Company, ReadBars(k, c)
    PROVE  ScansInv'
<1>1. /\ step' = step /\ shown' = shown /\ ranks' = ranks /\ counted' = counted
      /\ storedBars' = storedBars /\ step[k] = "reading"
    BY DEF ReadBars, Turn, Awaited, ofRanking
<1>2. storedBars[c] \in 0..Len(Past[c])
    BY DEF ScansInv, KeptInv, BarCounts
<1>3. CASE Take(k, c, storedBars[c]) /\ Cached(c, storedBars[c], FALSE)
    <2>1. entry' \in Entries
        BY <1>2, <1>3, CacheKeeps DEF ScansInv
    <2>2. Reading(k, c, storedBars[c]) /\ storedBars[c] \in Counted(c)
        BY <1>1, <1>2, <1>3, WholeHistoryCounts DEF Take, Reading
    <2>3. (\A j \in ScanKinds : AnswerKept(j)') /\ got' \in [ScanKinds -> ReadCounts]
        BY <2>2, ReadingsKeep
    <2>. QED BY <1>1, <2>1, <2>3 DEF ScansInv, KeptInv
<1>4. CASE UNCHANGED <<got, entry, hiccup>>
    <2>1. \A j \in ScanKinds : AnswerKept(j)'
        BY <1>1, <1>4, LeftAlone DEF ScansInv
    <2>. QED BY <1>1, <1>4, <2>1 DEF ScansInv, KeptInv
<1>5. CASE Take(k, c, Unread) /\ UNCHANGED <<entry, hiccup>>
    <2>1. Reading(k, c, Unread) /\ Unread \in Counted(c)
        BY <1>1, <1>5, WholeHistoryCounts DEF Take, Reading
    <2>2. (\A j \in ScanKinds : AnswerKept(j)') /\ got' \in [ScanKinds -> ReadCounts]
        BY <2>1, ReadingsKeep
    <2>. QED BY <1>1, <1>5, <2>2 DEF ScansInv, KeptInv
<1>. QED BY <1>3, <1>4, <1>5 DEF ReadBars

LEMMA AskKeeps ==
    ASSUME ScansInv, NEW k \in ScanKinds, NEW c \in Company, AskProvider(k, c)
    PROVE  ScansInv'
<1>1. /\ step' = step /\ shown' = shown /\ ranks' = ranks /\ counted' = counted /\ step[k] = "reading"
    BY DEF AskProvider, Turn, Awaited, ofRanking
<1>2. Len(Past[c]) \in 0..Len(Past[c]) /\ 0 \in 0..Len(Past[c])
    BY WholeHistoryCounts
<1>3. \E n \in {Len(Past[c]), 0, Unread} : Take(k, c, n)
    BY DEF AskProvider
<1>4. PICK n \in {Len(Past[c]), 0, Unread} : Take(k, c, n)
    BY <1>3, Zenon
<1>5. n \in Counted(c)
    BY <1>2, WholeHistoryCounts
<1>6. (\A j \in ScanKinds : AnswerKept(j)') /\ got' \in [ScanKinds -> ReadCounts]
    <2>1. Reading(k, c, n)
        BY <1>1, <1>4 DEF Take, Reading
    <2>. QED BY <1>5, <2>1, ReadingsKeep
<1>7. entry' \in Entries
    <2>1. entry' = entry \/ \E m \in {Len(Past[c]), 0}, failed \in BOOLEAN : Cached(c, m, failed)
        BY DEF AskProvider, inStore
    <2>. QED BY <1>2, <2>1, CacheKeeps DEF ScansInv, KeptInv
<1>8. storedBars' \in BarCounts
    <2>1. storedBars' = storedBars \/ storedBars' = [storedBars EXCEPT ![c] = Len(Past[c])]
        BY DEF AskProvider, inStore
    <2>. QED BY <2>1, StoreKeeps DEF ScansInv, KeptInv
<1>. QED BY <1>1, <1>6, <1>7, <1>8 DEF ScansInv, KeptInv

LEMMA StumbleKeeps ==
    ASSUME ScansInv, NEW k \in ScanKinds, NEW c \in Company, Stumble(k, c)
    PROVE  ScansInv'
<1>1. /\ step' = step /\ shown' = shown /\ ranks' = ranks /\ storedBars' = storedBars /\ entry' = entry
    BY DEF Stumble, inStore, ofRanking
<1>2. Unread \in Counted(c)
    BY WholeHistoryCounts
<1>3. (\A j \in ScanKinds : AnswerKept(j)') /\ got' \in [ScanKinds -> ReadCounts]
    <2>1. Reading(k, c, Unread)
        BY <1>1 DEF Stumble, Reading
    <2>. QED BY <1>2, <2>1, ReadingsKeep
<1>4. counted' \in SUBSET Nat /\ IsFiniteSet(counted')
    <2>1. CASE counted' = counted
        BY <2>1 DEF ScansInv, KeptInv
    <2>2. CASE k = "surge" /\ Scored(c, SliceOf(k, c)) /\ counted' = counted \union {LastDayOf(SliceOf(k, c))}
        <3>. DEFINE day == LastDayOf(SliceOf(k, c))
        <3>1. AllCounted(got[k])
            BY DEF ScansInv, KeptInv, ReadCounts
        <3>2. SliceOf(k, c) = SliceRead(c, got[k])
            BY DEF SliceOf, SliceRead
        <3>3. Qualifies(c, SliceRead(c, got[k]))
            BY <2>2, <3>2 DEF Scored
        <3>4. day \in Nat
            BY <3>1, <3>2, <3>3, QualifyingAreRead
        <3>. HIDE DEF day
        <3>5. counted \in SUBSET Nat /\ IsFiniteSet(counted) /\ counted' = counted \union {day}
            BY <2>2 DEF ScansInv, KeptInv, day
        <3>. QED BY <3>4, <3>5, FS_AddElement
    <2>. QED BY <2>1, <2>2 DEF Stumble
<1>. QED BY <1>1, <1>3, <1>4 DEF ScansInv, KeptInv

LEMMA StartKeeps ==
    ASSUME ScansInv, NEW k \in ScanKinds, StartScan(k)
    PROVE  ScansInv'
<1>1. /\ step' = [step EXCEPT ![k] = "reading"] /\ shown' = [shown EXCEPT ![k] = {}]
      /\ got' = [got EXCEPT ![k] = NothingRead]
      /\ storedBars' = storedBars /\ entry' = entry
      /\ k # "ranking" => ranks' = ranks
      /\ counted' = IF k = "surge" THEN {} ELSE counted
    BY DEF StartScan, ReadAnew, inStore, ofRanking
<1>2. DOMAIN step = ScanKinds /\ DOMAIN shown = ScanKinds /\ got \in [ScanKinds -> ReadCounts]
    BY DEF ScansInv, KeptInv
<1>3. got' \in [ScanKinds -> ReadCounts] /\ DOMAIN step' = ScanKinds /\ DOMAIN shown' = ScanKinds
    BY <1>1, <1>2, NothingIsAReading
<1>4. ASSUME NEW j \in ScanKinds
      PROVE  AnswerKept(j)'
    <2>1. CASE j = k
        <3>1. step'[j] = "reading" /\ shown'[j] = {}
            BY <1>1, <1>2, <2>1
        <3>. QED BY <3>1 DEF AnswerKept
    <2>2. CASE j # k
        <3>1. step'[j] = step[j] /\ shown'[j] = shown[j] /\ got'[j] = got[j]
            BY <1>1, <1>2, <2>2
        <3>2. (j = "ranking" => ranks' = ranks) /\ (j = "surge" => counted' = counted)
            BY <1>1, <2>2
        <3>. QED BY <3>1, <3>2, LeftAlone DEF ScansInv
    <2>. QED BY <2>1, <2>2
<1>5. counted' \in SUBSET Nat /\ IsFiniteSet(counted')
    BY <1>1, FS_EmptySet DEF ScansInv, KeptInv
<1>. QED BY <1>1, <1>3, <1>4, <1>5 DEF ScansInv, KeptInv

LEMMA StrengthsKeep ==
    ASSUME ScansInv, Strengths
    PROVE  ScansInv'
<1>. DEFINE r == "ranking"
<1>1. /\ step[r] = "reading" /\ shown' = shown /\ counted' = counted
      /\ storedBars' = storedBars /\ entry' = entry
      /\ step' = step \/ step' = [step EXCEPT ![r] = "raised"]
      /\ got' = got \/ got' = [got EXCEPT ![r] = NothingRead]
    BY DEF Strengths, AllRead, Raise, ReadAnew, inStore
<1>2. /\ r \in ScanKinds
      /\ DOMAIN step = ScanKinds /\ DOMAIN shown = ScanKinds /\ got \in [ScanKinds -> ReadCounts]
    BY DEF ScansInv, KeptInv, ScanKinds
<1>3. got' \in [ScanKinds -> ReadCounts] /\ DOMAIN step' = ScanKinds
    BY <1>1, <1>2, NothingIsAReading
<1>4. ASSUME NEW j \in ScanKinds
      PROVE  AnswerKept(j)'
    <2>1. CASE j = r
        <3>1. step'[j] # "done" /\ step[j] # "done" /\ shown'[j] = shown[j]
            BY <1>1, <1>2, <2>1
        <3>. QED BY <3>1 DEF AnswerKept, ScansInv
    <2>2. CASE j # r
        <3>1. step'[j] = step[j] /\ shown'[j] = shown[j] /\ got'[j] = got[j] /\ counted' = counted
            BY <1>1, <1>2, <2>2
        <3>. QED BY <2>2, <3>1, LeftAlone DEF ScansInv
    <2>. QED BY <2>1, <2>2
<1>. QED BY <1>1, <1>3, <1>4 DEF ScansInv, KeptInv

LEMMA FinishKeeps ==
    ASSUME ScansInv, NEW k \in ScanKinds, Finish(k)
    PROVE  ScansInv'
<1>1. /\ step[k] = "reading" /\ got' = got /\ ranks' = ranks /\ counted' = counted
      /\ storedBars' = storedBars /\ entry' = entry
    BY DEF Finish, AllRead, inStore, ofRanking
<1>2. DOMAIN step = ScanKinds /\ DOMAIN shown = ScanKinds
    BY DEF ScansInv, KeptInv
<1>3. CASE step' = [step EXCEPT ![k] = "raised"] /\ shown' = shown
    <2>1. ASSUME NEW j \in ScanKinds
          PROVE  AnswerKept(j)'
        <3>1. CASE j = k
            <4>1. step'[j] # "done" /\ step[j] # "done" /\ shown'[j] = shown[j]
                BY <1>1, <1>2, <1>3, <3>1
            <4>. QED BY <4>1 DEF AnswerKept, ScansInv
        <3>2. CASE j # k
            <4>1. step'[j] = step[j] /\ shown'[j] = shown[j]
                BY <1>2, <1>3, <3>2
            <4>. QED BY <1>1, <4>1, LeftAlone DEF ScansInv
        <3>. QED BY <3>1, <3>2
    <2>. QED BY <1>1, <1>2, <1>3, <2>1 DEF ScansInv, KeptInv
<1>4. ASSUME k \in AllOrNothing => ~Failed(k), step' = [step EXCEPT ![k] = "done"],
             NEW answer \in Answers(k), shown' = [shown EXCEPT ![k] = answer]
      PROVE  ScansInv'
    <2>1. ASSUME NEW j \in ScanKinds
          PROVE  AnswerKept(j)'
        <3>1. CASE j = k
            <4>1. step'[j] = "done" /\ shown'[j] = answer
                BY <1>2, <1>4, <3>1
            <4>2. Answers(k)' = Answers(k) /\ Failed(k)' = Failed(k)
                BY <1>1 DEF Answers, Failed
            <4>. QED BY <1>4, <3>1, <4>1, <4>2 DEF AnswerKept
        <3>2. CASE j # k
            <4>1. step'[j] = step[j] /\ shown'[j] = shown[j]
                BY <1>2, <1>4, <3>2
            <4>. QED BY <1>1, <4>1, LeftAlone DEF ScansInv
        <3>. QED BY <3>1, <3>2
    <2>2. DOMAIN step' = ScanKinds /\ DOMAIN shown' = ScanKinds
        BY <1>2, <1>4
    <2>. QED BY <1>1, <2>1, <2>2 DEF ScansInv, KeptInv
<1>. QED BY <1>3, <1>4 DEF Finish, Raise

LEMMA StoreMovesKeep ==
    ASSUME ScansInv, NEW c \in Company,
           StoreLatest(c) \/ ExpireEntry(c) \/ FlushEntries
    PROVE  ScansInv'
<1>1. step' = step /\ shown' = shown /\ got' = got /\ ranks' = ranks /\ counted' = counted
    BY DEF StoreLatest, ExpireEntry, FlushEntries, ForgetEntries, ofScans
<1>2. \A j \in ScanKinds : AnswerKept(j)'
    BY <1>1, LeftAlone DEF ScansInv
<1>3. storedBars' \in BarCounts
    <2>1. storedBars' = storedBars \/ storedBars' = [storedBars EXCEPT ![c] = Len(Past[c])]
        BY DEF StoreLatest, ExpireEntry, FlushEntries, ForgetEntries
    <2>. QED BY <2>1, StoreKeeps DEF ScansInv, KeptInv
<1>4. entry' \in Entries
    <2>1. entry' = entry \/ \E some \in SUBSET Company :
                                entry' = [d \in Company |-> IF d \in some THEN NoEntry ELSE entry[d]]
        BY DEF StoreLatest, ExpireEntry, FlushEntries, ForgetEntries
    <2>2. entry \in Entries
        BY DEF ScansInv, KeptInv
    <2>. QED BY <2>1, <2>2 DEF Entries, NoEntry
<1>. QED BY <1>1, <1>2, <1>3, <1>4 DEF ScansInv, KeptInv

LEMMA ScanStepsKeep == ScansInv /\ [MarketScanNext]_scanVars => ScansInv'
<1>. SUFFICES ASSUME ScansInv, [MarketScanNext]_scanVars PROVE ScansInv'
    OBVIOUS
<1>1. ASSUME NEW k \in ScanKinds, StartScan(k) \/ Finish(k)
      PROVE  ScansInv'
    BY <1>1, StartKeeps, FinishKeeps
<1>2. ASSUME NEW k \in ScanKinds, NEW c \in Company,
             LookInCache(k, c) \/ ReadBars(k, c) \/ AskProvider(k, c) \/ Stumble(k, c)
      PROVE  ScansInv'
    BY <1>2, LookKeeps, ReadKeeps, AskKeeps, StumbleKeeps
<1>3. CASE Strengths
    BY <1>3, StrengthsKeep
<1>4. ASSUME NEW c \in Company, StoreLatest(c) \/ ExpireEntry(c)
      PROVE  ScansInv'
    BY <1>4, StoreMovesKeep
<1>5. CASE FlushEntries
    <2>1. \E c \in Company : TRUE
        BY <1>5 DEF FlushEntries, ForgetEntries
    <2>. QED BY <1>5, <2>1, StoreMovesKeep
<1>6. CASE UNCHANGED scanVars
    <2>1. /\ step' = step /\ shown' = shown /\ got' = got /\ ranks' = ranks /\ counted' = counted
          /\ storedBars' = storedBars /\ entry' = entry
        BY <1>6 DEF scanVars
    <2>2. \A j \in ScanKinds : AnswerKept(j)'
        BY <2>1, LeftAlone DEF ScansInv
    <2>. QED BY <2>1, <2>2 DEF ScansInv, KeptInv
<1>. QED BY <1>1, <1>2, <1>3, <1>4, <1>5, <1>6 DEF MarketScanNext

\* The inductive invariant of the scans.
THEOREM ScansAreInvariant == MarketScanSpec => []ScansInv
<1>. QED BY ScansStartKept, ScanStepsKeep, PTL DEF MarketScanSpec

LEMMA AnsweredReadings ==
    ASSUME ScansInv, NEW k \in ScanKinds
    PROVE  /\ AllCounted(got[k]) /\ \A c \in Company : SliceOf(k, c) = SliceRead(c, got[k])
           /\ Listed(k) = Plain(shown[k])
BY DEF ScansInv, KeptInv, ReadCounts, SliceOf, SliceRead, Listed, Plain

LEMMA SameListing == ASSUME ScansInv PROVE PagesAgree
<1>1. {"ranking", "heatmap", "surge"} \in SUBSET ScanKinds
    BY DEF ScanKinds
<1>2. ASSUME step["ranking"] = "done"
      PROVE  Listed("ranking") = {AsListed(c, got["ranking"]) : c \in Current(got["ranking"])}
    <2>1. shown["ranking"] = RankingRows(got["ranking"], ranks)
        BY <1>1, <1>2 DEF ScansInv, AnswerKept, Answers
    <2>. QED BY <1>1, <2>1, AnsweredReadings, RankingLists
<1>3. ASSUME step["heatmap"] = "done"
      PROVE  Listed("heatmap") = {AsListed(c, got["heatmap"]) : c \in Current(got["heatmap"])}
    <2>1. shown["heatmap"] = HeatmapTiles(got["heatmap"])
        BY <1>1, <1>3 DEF ScansInv, AnswerKept, Answers
    <2>. QED BY <1>1, <2>1, AnsweredReadings, HeatmapLists
<1>4. ASSUME step["surge"] = "done", AllScored
      PROVE  Listed("surge") \subseteq {AsListed(c, got["surge"]) : c \in Current(got["surge"])}
    <2>1. \E dates : shown["surge"] = SurgeRows(got["surge"], counted, dates)
        BY <1>1, <1>4 DEF ScansInv, AnswerKept, Answers
    <2>2. PICK dates : shown["surge"] = SurgeRows(got["surge"], counted, dates)
        BY <2>1, Zenon
    <2>3. AllCounted(got["surge"]) /\ Listed("surge") = Plain(shown["surge"])
        BY <1>1, AnsweredReadings
    <2>4. \A c \in Company : Qualifies(c, SliceRead(c, got["surge"])) => SurgeWindows(SliceRead(c, got["surge"])) # {}
        BY <1>1, <1>4, AnsweredReadings DEF AllScored
    <2>5. counted \in SUBSET Nat /\ IsFiniteSet(counted)
        BY DEF ScansInv, KeptInv
    <2>. QED BY <2>2, <2>3, <2>4, <2>5, SurgeLists
<1>5. SameData("ranking", "heatmap") => Listed("ranking") = Listed("heatmap")
    BY <1>2, <1>3 DEF SameData
<1>6. SameData("ranking", "surge") /\ AllScored => Listed("surge") \subseteq Listed("ranking")
    BY <1>2, <1>4 DEF SameData
<1>. QED BY <1>5, <1>6 DEF PagesAgree

\* A row of the surges is a company's, from the windows of the slice it was judged by.
LEMMA SurgeRowsAreRead ==
    ASSUME ScansInv, NEW line \in shown["surge"]
    PROVE  \E dates \in {Reported, [c \in Company |-> {}]} : \E c \in Company :
               \E w \in SurgeWindows(SliceRead(c, got["surge"])) :
                   Surging(w) /\ line = SurgeRow(c, SliceRead(c, got["surge"]), w, dates[c])
<1>. DEFINE n == got["surge"]
<1>0. "surge" \in ScanKinds
    BY DEF ScanKinds
<1>1. AllCounted(n)
    BY <1>0, AnsweredReadings
<1>2. PICK dates \in {Reported, [c \in Company |-> {}]} : shown["surge"] = SurgeRows(n, counted, dates)
    <2>1. step["surge"] = "done"
        BY <1>0 DEF ScansInv, AnswerKept
    <2>2. shown["surge"] \in Answers("surge")
        BY <1>0, <2>1 DEF ScansInv, AnswerKept
    <2>. QED BY <2>2 DEF Answers
<1>3. \E c \in Company : \E w \in SurgeWindows(SliceRead(c, n)) :
          Surging(w) /\ line = SurgeRow(c, SliceRead(c, n), w, dates[c])
    <2>. DEFINE scored == {d \in Company : Scored(d, SliceRead(d, n))}
                hits == {d \in scored : \E w \in SurgeWindows(SliceRead(d, n)) : Surging(w)}
                found == UNION {{SurgeRow(d, SliceRead(d, n), w, dates[d]) :
                                     w \in SurgeWindows(SliceRead(d, n))} : d \in hits}
                days == counted \union {LastDayOf(SliceRead(d, n)) : d \in scored}
    <2>1. shown["surge"] = NotStale(found, days)
        BY <1>2 DEF SurgeRows, SliceRead
    <2>2. line \in found
        BY <2>1 DEF NotStale
    <2>3. PICK d \in hits : line \in {SurgeRow(d, SliceRead(d, n), w, dates[d]) : w \in SurgeWindows(SliceRead(d, n))}
        BY <2>2
    <2>4. \A v, w \in SurgeWindows(SliceRead(d, n)) : v = w
        BY DEF SurgeWindows
    <2>. QED BY <2>3, <2>4
<1>. QED BY <1>2, <1>3

LEMMA SurgeFigures == ASSUME ScansInv PROVE SurgesAddUp
<1>. DEFINE n == got["surge"]
            AddsUp(line) ==
                /\ 100 * MinRatio <= line.metrics.ratio
                /\ line.metrics.ratio <= line.context.peakRatio /\ line.metrics.lastDay <= line.context.peakRatio
                /\ line.context.start <= line.context.peakDay /\ line.context.peakDay <= line.session
                /\ \A day \in line.report : day <= line.session
<1>0. "surge" \in ScanKinds
    BY DEF ScanKinds
<1>. SUFFICES ASSUME NEW line \in shown["surge"] PROVE AddsUp(line)
    BY DEF SurgesAddUp
<1>. HIDE DEF AddsUp
<1>1. AllCounted(n)
    BY <1>0, AnsweredReadings
<1>2. PICK dates \in {Reported, [c \in Company |-> {}]} : \E c \in Company :
          \E w \in SurgeWindows(SliceRead(c, n)) :
              Surging(w) /\ line = SurgeRow(c, SliceRead(c, n), w, dates[c])
    BY SurgeRowsAreRead
<1>3. PICK c \in Company : \E w \in SurgeWindows(SliceRead(c, n)) :
          Surging(w) /\ line = SurgeRow(c, SliceRead(c, n), w, dates[c])
    BY <1>2
<1>4. dates[c] \in SUBSET Nat /\ IsFiniteSet(dates[c])
    <2>1. Reported[c] \in SUBSET Nat /\ IsFiniteSet(Reported[c])
        BY PastAssumption
    <2>2. IsFiniteSet({})
        BY FS_EmptySet
    <2>. QED BY <1>2, <2>1, <2>2
<1>5. SliceRead(c, n) \in Seq(BarsOf) /\ InOrder(SliceRead(c, n))
    BY <1>1, SlicesAreBars
<1>. QED BY <1>3, <1>4, <1>5, FiguresAddUp DEF AddsUp

\* The recent sessions and those before them are the same ones, however far back a
\* history is read, once it holds them.
LEMMA WindowsOfAnEnd ==
    ASSUME NEW h \in Seq(BarsOf), SurgeWindows(Recent(h)) # {}
    PROVE  SurgeWindows(Since(h, PageWindow)) = SurgeWindows(Recent(h))
<1>. DEFINE W == RecentDays + BaselineDays
<1>1. RecentDays \in Nat \ {0} /\ BaselineDays \in Nat \ {0}
    BY MarketScanAssumption
<1>3. Recent(h) # <<>>
    <2>1. CASE Recent(h) = <<>>
        <3>1. Len(Recent(h)) = 0
            BY <2>1
        <3>2. Len(Recent(h)) < RecentDays + BaselineDays
            BY <1>1, <3>1
        <3>. QED BY <3>2 DEF SurgeWindows
    <2>. QED BY <2>1
<1>4. PICK p, m \in 1..Len(h) :
          p <= m /\ Since(h, PageWindow) = SubSeq(h, p, Len(h)) /\ Recent(h) = SubSeq(h, m, Len(h))
    BY <1>3, FurtherBack
<1>5. Len(h) \in Nat /\ Len(Recent(h)) = Len(h) - m + 1 /\ Len(Since(h, PageWindow)) = Len(h) - p + 1
    BY <1>4
<1>6. ~(Len(Recent(h)) < RecentDays + BaselineDays)
    BY DEF SurgeWindows
<1>7. Len(h) - m + 1 >= W /\ Len(h) - p + 1 >= W
    BY <1>1, <1>4, <1>5, <1>6
<1>8. ASSUME NEW k \in 1..Len(h), Len(h) - k + 1 >= W
      PROVE  LET slice == SubSeq(h, k, Len(h))
                 l == Len(slice)
             IN  /\ SubSeq(slice, l - RecentDays + 1, l) = SubSeq(h, Len(h) - RecentDays + 1, Len(h))
                 /\ SubSeq(slice, l - RecentDays - BaselineDays + 1, l - RecentDays)
                        = SubSeq(h, Len(h) - RecentDays - BaselineDays + 1, Len(h) - RecentDays)
    <2>. DEFINE l == Len(h) - k + 1
    <2>0. l \in Int /\ Len(SubSeq(h, k, Len(h))) = l
        BY <1>5
    <2>1. SubSeq(SubSeq(h, k, Len(h)), l - RecentDays + 1, l) = SubSeq(h, Len(h) - RecentDays + 1, Len(h))
        <3>. DEFINE i == l - RecentDays + 1
        <3>1. i \in Int /\ 1 <= i /\ i <= l /\ l <= Len(h) - k + 1
            BY <1>1, <1>5, <1>8
        <3>2. k + i - 1 = Len(h) - RecentDays + 1 /\ k + l - 1 = Len(h)
            BY <1>1, <1>5
        <3>. HIDE DEF i, l
        <3>3. SubSeq(SubSeq(h, k, Len(h)), i, l) = SubSeq(h, k + i - 1, k + l - 1)
            BY <2>0, <3>1, EndOfTheEnd
        <3>. QED BY <3>2, <3>3 DEF i
    <2>2. SubSeq(SubSeq(h, k, Len(h)), l - RecentDays - BaselineDays + 1, l - RecentDays)
              = SubSeq(h, Len(h) - RecentDays - BaselineDays + 1, Len(h) - RecentDays)
        <3>. DEFINE i == l - RecentDays - BaselineDays + 1
                    j == l - RecentDays
        <3>1. i \in Int /\ j \in Int /\ 1 <= i /\ i <= j /\ j <= Len(h) - k + 1
            BY <1>1, <1>5, <1>8
        <3>2. /\ k + i - 1 = Len(h) - RecentDays - BaselineDays + 1
              /\ k + j - 1 = Len(h) - RecentDays
            BY <1>1, <1>5
        <3>. HIDE DEF i, j, l
        <3>3. SubSeq(SubSeq(h, k, Len(h)), i, j) = SubSeq(h, k + i - 1, k + j - 1)
            BY <3>1, EndOfTheEnd
        <3>. QED BY <3>2, <3>3 DEF i, j
    <2>. HIDE DEF l
    <2>. QED BY <2>0, <2>1, <2>2
<1>9. ~(Len(Since(h, PageWindow)) < RecentDays + BaselineDays)
    BY <1>1, <1>5, <1>7
<1>10. /\ SubSeq(Recent(h), Len(Recent(h)) - RecentDays + 1, Len(Recent(h)))
              = SubSeq(Since(h, PageWindow), Len(Since(h, PageWindow)) - RecentDays + 1, Len(Since(h, PageWindow)))
       /\ SubSeq(Recent(h), Len(Recent(h)) - RecentDays - BaselineDays + 1, Len(Recent(h)) - RecentDays)
              = SubSeq(Since(h, PageWindow), Len(Since(h, PageWindow)) - RecentDays - BaselineDays + 1,
                       Len(Since(h, PageWindow)) - RecentDays)
    BY <1>4, <1>7, <1>8
<1>. QED BY <1>6, <1>9, <1>10, Zenon DEF SurgeWindows

LEMMA PageFigures == ASSUME ScansInv PROVE StockPagesAgree
<1>. DEFINE n == got["surge"]
<1>. SUFFICES ASSUME NEW line \in shown["surge"], NEW k \in 1..Len(Past[line.company]),
                     Recent(History(line.company, k)) = line.read
              PROVE  PageVolume(History(line.company, k)) = {line.metrics}
    BY DEF StockPagesAgree
<1>1. PICK dates \in {Reported, [c \in Company |-> {}]} : \E c \in Company :
          \E w \in SurgeWindows(SliceRead(c, n)) :
              Surging(w) /\ line = SurgeRow(c, SliceRead(c, n), w, dates[c])
    BY SurgeRowsAreRead
<1>2. PICK c \in Company : \E w \in SurgeWindows(SliceRead(c, n)) :
          Surging(w) /\ line = SurgeRow(c, SliceRead(c, n), w, dates[c])
    BY <1>1
<1>3. PICK w \in SurgeWindows(SliceRead(c, n)) : line = SurgeRow(c, SliceRead(c, n), w, dates[c])
    BY <1>2
<1>4. line.company = c /\ line.read = SliceRead(c, n) /\ line.metrics = Metrics(w)
    BY <1>3 DEF SurgeRow
<1>5. History(c, k) \in Seq(BarsOf)
    <2>1. k \in Counted(c)
        BY <1>4 DEF Counted
    <2>. QED BY <2>1, HistoryIsBars
<1>6. SurgeWindows(SliceRead(c, n)) = {w}
    BY <1>3 DEF SurgeWindows
<1>7. SurgeWindows(Recent(History(c, k))) = {w}
    BY <1>4, <1>6
<1>8. SurgeWindows(Since(History(c, k), PageWindow)) = {w}
    BY <1>5, <1>7, WindowsOfAnEnd
<1>. QED BY <1>4, <1>8 DEF PageVolume

LEMMA NoEdge == ASSUME ScansInv PROVE DriftIsNoEdge
<1>. DEFINE n == got["stats"]
<1>0. "stats" \in ScanKinds
    BY DEF ScanKinds
<1>1. AllCounted(n) /\ \A c \in Company : SliceOf("stats", c) = SliceRead(c, n)
    BY <1>0, AnsweredReadings
<1>2. ASSUME NEW stat \in shown["stats"]
      PROVE  stat \in StatsRows(n)
    <2>1. step["stats"] = "done"
        BY <1>0, <1>2 DEF ScansInv, AnswerKept
    <2>. QED BY <1>0, <1>2, <2>1 DEF ScansInv, AnswerKept, Answers
<1>. HIDE DEF n
<1>3. ASSUME NEW stat \in shown["stats"], NEW c \in Company,
             stat.count = Len(SliceRead(c, n)) - Forward,
             \A i \in DOMAIN SliceRead(c, n) :
                 SliceRead(c, n)[i].day \in {g.day : g \in {h \in Signals[c] : h.name = stat.name /\ h.bullish}},
             \A d \in Company \ {c} : \A g \in Signals[d] : g.name # stat.name
      PROVE  2 * stat.wins <= stat.count
    BY <1>1, <1>2, <1>3, DriftWinsNothing
<1>. QED BY <1>1, <1>3 DEF DriftIsNoEdge

\* What the four scans promise each other and their readers: an answer that is there is
\* complete, the pages list the same companies on the same bars, a surge's figures fit
\* together, and a signal that only follows the price has no edge.
THEOREM ScansAlwaysAgree == MarketScanSpec => []ScansAgree
<1>1. ScansInv => ScansAgree
    <2>. SUFFICES ASSUME ScansInv PROVE ScansAgree
        OBVIOUS
    <2>1. FailuresAreLoud
        <3>1. AllOrNothing \in SUBSET ScanKinds
            BY DEF AllOrNothing, ScanKinds
        <3>. QED BY <3>1 DEF FailuresAreLoud, ScansInv, AnswerKept
    <2>. QED BY <2>1, SameListing, SurgeFigures, PageFigures, NoEdge DEF ScansAgree
<1>. QED BY <1>1, ScansAreInvariant, PTL
=============================================================================
