--------------------------- MODULE CompanyArchive ---------------------------
(***************************************************************************)
(* What is stored of the companies of one market besides prices: the row   *)
(* of metrics with its report dates, the reported statements, and the      *)
(* append-only archive of everything that was ever acquired.  They are     *)
(* written by the nightly refresh and by pages that find nothing stored.   *)
(*                                                                         *)
(* Figures are left out; a day is a number and 0 stands for no date.  The  *)
(* provider's client answers an outage like a company that reports         *)
(* nothing: no dates, no statements.                                       *)
(***************************************************************************)
EXTENDS Integers, FiniteSetsExt

CONSTANTS
    Markets,    \* bound: the company lists of the markets to consider
    LastDay,    \* bound: days 1..LastDay
    Mondays,    \* the days of the weekly pass
    Dated,      \* bound: the companies the provider names report dates of
    Visited,    \* bound: the companies whose pages are opened
    Missing     \* no row

ASSUME ArchiveAssumption ==
    /\ LastDay \in Nat \ {0}
    /\ Mondays \subseteq 1..LastDay
    /\ \A market \in Markets : IsFiniteSet(market) /\ market # {}
    /\ Missing \notin [last : Nat, next : Nat]

Statement == {"quarterly", "cashflow"}

VARIABLES
    companies,  \* the tickers of the market
    today,
    row,        \* ticker -> company_fundamentals: the last and the next report, or Missing
    stored,     \* ticker -> the kinds of statement stored
    observed,   \* ticker -> the kinds archived in financial_observations
    night,      \* the refresh: its phase, each ticker's step, the tickers it had trouble with
    page,       \* a stock page being computed
    capexMiss   \* history cache: tickers remembered as having no cash flow

archiveVars == <<companies, today, row, stored, observed, night, page, capexMiss>>

NoDates == [last |-> 0, next |-> 0]
Idle == [at |-> "idle", step |-> [t \in companies |-> "done"], trouble |-> {}]
NoPage == [at |-> "idle"]

---------------------------------------------------------------------------
(* repository.py and long_term_repository.py *)

\* report_dates_from_info(), on the day of the download: today or, a midnight later, yesterday.
Answered(t) ==
    IF t \in Dated
    THEN UNION {[last : {0, day}, next : {0, day + 1}] : day \in {today} \union ({today - 1} \ {0})}
    ELSE {NoDates}

\* Mutant: the stored next report is forgotten when the provider names another.
MergeNewest(old, new) ==
    [last |-> Max({new.last, old.last}),
     next |-> IF new.next # 0 THEN new.next ELSE IF old.next > today THEN old.next ELSE 0]

\* merge_report_dates(): a report that has come becomes the last one.
Merge(old, new) ==
    [last |-> Max({new.last, old.last, IF old.next <= today THEN old.next ELSE 0}),
     next |-> IF new.next # 0 THEN new.next ELSE IF old.next > today THEN old.next ELSE 0]

\* The row and its observation are written in one transaction.
UpsertFundamentals(t, new) ==
    /\ row' = [row EXCEPT ![t] = IF @ = Missing THEN new ELSE Merge(@, new)]
    /\ observed' = [observed EXCEPT ![t] = @ \union {"fundamentals"}]

\* So are statements (upsert_quarterly, upsert_cashflow).
UpsertStatement(t, kind) ==
    /\ stored' = [stored EXCEPT ![t] = @ \union {kind}]
    /\ observed' = [observed EXCEPT ![t] = @ \union {kind}]

\* Mutant: a company that was ever observed counts as archived.
UnobservedAtAll == {t \in companies : observed[t] = {}}

\* get_missing_financial_observation_tickers()
Unarchived == {t \in companies : ~({"fundamentals"} \union stored[t] \subseteq observed[t])}

\* get_report_dates(): the latest report known to have come.
KnownReport(t) ==
    IF row[t] = Missing THEN 0
    ELSE Max({row[t].last, IF row[t].next <= today THEN row[t].next ELSE 0})

---------------------------------------------------------------------------
(* daily_ingest.py: the financial part of a refresh, after its prices. *)

\* The scheduler or somebody's button.
Trigger ==
    /\ night.at = "idle"
    /\ night' = [night EXCEPT !.at = "due"]
    /\ UNCHANGED <<companies, today, row, stored, observed, page, capexMiss>>

\* Which companies are fetched: all of them for a market that is new, on a Monday and
\* while no cash flow is stored, else those whose archive has holes.
PlanNight ==
    /\ night.at = "due"
    /\ \E full, probed \in BOOLEAN :
           LET all == \/ full
                      \/ today \in Mondays
                      \/ probed /\ \A t \in companies : "cashflow" \notin stored[t]
               chosen == IF all THEN companies ELSE Unarchived
           IN  \/ night' = [at |-> "fetch", trouble |-> {},
                            step |-> [t \in companies |-> IF t \in chosen THEN "metrics" ELSE "done"]]
               \/ ~all /\ night' = [Idle EXCEPT !.trouble = companies]   \* the run fails
    /\ UNCHANGED <<companies, today, row, stored, observed, page, capexMiss>>

After(step) == CASE step = "metrics" -> "quarterly" [] step = "quarterly" -> "cashflow" [] OTHER -> "done"

Step(t, trouble) ==
    night' = [night EXCEPT !.step[t] = After(@),
                           !.trouble = IF trouble THEN @ \union {t} ELSE @]

\* _ingest_fundamentals(): one call after the other, each failing by itself.
FetchMetrics(t) ==
    /\ night.at = "fetch" /\ night.step[t] = "metrics"
    /\ \/ \E new \in Answered(t) : UpsertFundamentals(t, new) /\ Step(t, FALSE)
       \/ Step(t, TRUE) /\ UNCHANGED <<row, observed>>
    /\ UNCHANGED <<companies, today, stored, page, capexMiss>>

FetchStatement(t) ==
    /\ night.at = "fetch" /\ night.step[t] \in Statement
    /\ \/ UpsertStatement(t, night.step[t]) /\ Step(t, FALSE)
       \/ Step(t, TRUE) /\ UNCHANGED <<stored, observed>>
    /\ UNCHANGED <<companies, today, row, page, capexMiss>>

\* The caches are flushed, and the ranking runs.
EndNight ==
    /\ night.at = "fetch"
    /\ \A t \in companies : night.step[t] = "done"
    /\ capexMiss' = {}
    /\ night' = [night EXCEPT !.at = "idle"]
    /\ UNCHANGED <<companies, today, row, stored, observed, page>>

---------------------------------------------------------------------------
(* routers/stocks.py: get_fundamentals and _load_ticker_capex, one page at a time. *)

\* Stored data first, without it (or when the read fails) the provider.
OpenPage(t) ==
    /\ page = NoPage
    /\ \E read \in BOOLEAN :
           LET found == read /\ (row[t] # Missing \/ "quarterly" \in stored[t])
           IN  page' = [at |-> IF found THEN "capex" ELSE "download", ticker |-> t]
    /\ UNCHANGED <<companies, today, row, stored, observed, night, capexMiss>>

\* Both downloads come before either is stored.
PageDownloads ==
    /\ page.at = "download"
    /\ \E new \in Answered(page.ticker), quarterly \in BOOLEAN :
           page' = [at |-> "store", ticker |-> page.ticker, new |-> new, quarterly |-> quarterly]
    /\ UNCHANGED <<companies, today, row, stored, observed, night, capexMiss>>

PageStoresMetrics ==
    /\ page.at = "store"
    /\ \/ /\ UpsertFundamentals(page.ticker, page.new)
          /\ page' = [at |-> IF page.quarterly THEN "quarterly" ELSE "capex", ticker |-> page.ticker]
       \/ /\ page' = [at |-> "capex", ticker |-> page.ticker]
          /\ UNCHANGED <<row, observed>>
    /\ UNCHANGED <<companies, today, stored, night, capexMiss>>

PageStoresQuarterly ==
    /\ page.at = "quarterly"
    /\ \/ UpsertStatement(page.ticker, "quarterly")
       \/ UNCHANGED <<stored, observed>>
    /\ page' = [at |-> "capex", ticker |-> page.ticker]
    /\ UNCHANGED <<companies, today, row, night, capexMiss>>

\* The cash flow is downloaded when none is stored and none was missed lately.
PageNeedsCapex ==
    /\ page.at = "capex"
    /\ \E read \in BOOLEAN :
           page' = IF (read /\ "cashflow" \in stored[page.ticker]) \/ page.ticker \in capexMiss
                   THEN NoPage ELSE [page EXCEPT !.at = "cashflow"]
    /\ UNCHANGED <<companies, today, row, stored, observed, night, capexMiss>>

PageCapex ==
    /\ page.at = "cashflow"
    /\ \/ UpsertStatement(page.ticker, "cashflow") /\ UNCHANGED capexMiss
       \/ capexMiss' = capexMiss \union {page.ticker} /\ UNCHANGED <<stored, observed>>
       \/ UNCHANGED <<stored, observed, capexMiss>>
    /\ page' = NoPage
    /\ UNCHANGED <<companies, today, row, night>>

---------------------------------------------------------------------------
Tomorrow ==
    /\ today < LastDay
    /\ today' = today + 1
    /\ capexMiss' = {}      \* _CAPEX_MISS_TTL_SECONDS is a day
    /\ UNCHANGED <<companies, row, stored, observed, night, page>>

\* main.py: a start resumes what observation_bootstrap_markets() finds incomplete, and
\* runs a market that has no long-term snapshots.
Restart ==
    /\ \E unranked \in BOOLEAN :
           night' = [Idle EXCEPT !.at = IF Unarchived # {} \/ unranked THEN "due" ELSE "idle"]
    /\ page' = NoPage
    /\ capexMiss' = {}
    /\ UNCHANGED <<companies, today, row, stored, observed>>

\* An installation from before the archive: rows and statements nobody observed.
ArchiveInit ==
    /\ companies \in Markets
    /\ today = 1
    /\ row \in [companies -> {Missing, NoDates}]
    /\ stored \in [companies -> SUBSET Statement]
    /\ observed = [t \in companies |-> {}]
    /\ night = [Idle EXCEPT !.at = "due"]
    /\ page = NoPage
    /\ capexMiss = {}

ArchiveNext ==
    \/ Trigger \/ PlanNight \/ EndNight
    \/ \E t \in companies : FetchMetrics(t) \/ FetchStatement(t)
    \/ \E t \in Visited \intersect companies : OpenPage(t)
    \/ PageDownloads \/ PageStoresMetrics \/ PageStoresQuarterly
    \/ PageNeedsCapex \/ PageCapex
    \/ Tomorrow \/ Restart

ArchiveSpec == ArchiveInit /\ [][ArchiveNext]_archiveVars

---------------------------------------------------------------------------
(* Properties. *)

\* "Overwriting would lose exactly the date the volume-surge flag needs"
\* (repository.py:66): whatever the weekly pass, a page or a new day does, and
\* whatever the provider names or forgets, a report known to have come stays known
\* until a later one comes.
ReportsStayKnown ==
    [][\A t \in companies : KnownReport(t)' >= KnownReport(t)]_archiveVars

\* "A single on-demand fetch or a completed market must not hide missing observations
\* elsewhere after an interrupted first refresh" (daily_ingest.py:638-641): once no
\* refresh runs or is due, crashed ones and pages in between or not, everything stored
\* of a company is archived too, unless the last refresh failed on that company.
ArchiveCompletes ==
    night.at = "idle" =>
        \A t \in companies \ night.trouble : {"fundamentals"} \union stored[t] \subseteq observed[t]
=============================================================================
