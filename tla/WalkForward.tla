---------------------------- MODULE WalkForward ----------------------------
(***************************************************************************)
(* The AI research layer's data (app/ml): which bars the label of a        *)
(* stock-session is computed from, how the labelled rows are split by      *)
(* calendar year, and hence which bars a fold's model and cut have seen.   *)
(*                                                                         *)
(* The state is one market's stored history: the sessions of each stock.   *)
(* Prices are abstracted: a label stands for the set of bars it is         *)
(* computed from.  Day 0 is the first of January of the first year.        *)
(***************************************************************************)
EXTENDS Integers, FiniteSetsExt

CONSTANTS
    Stocks,
    LastDay,        \* bound: the days modelled, 0..LastDay
    Year,           \* days of a year
    Horizon,        \* sessions a label looks ahead (HORIZONS)
    MaxGap,         \* MAX_WINDOW_GAP_DAYS
    MinStocks,      \* MIN_STOCKS_PER_DAY
    Embargo,        \* EMBARGO_DAYS
    MinTrainYears,  \* MIN_TRAIN_YEARS
    Holdout,        \* holdout_start(): the first locked day
    Deep            \* bound: the stored history reaches back to one of these days

ASSUME WalkForwardAssumption ==
    /\ {LastDay, Embargo} \subseteq Nat
    /\ {Year, Horizon, MaxGap, MinStocks, MinTrainYears} \subseteq Nat \ {0}
    /\ Deep \subseteq 0..LastDay /\ 0 \in Deep

VARIABLES today,    \* the newest session
          traded,   \* stock -> the days it has traded
          since     \* stock -> the day its stored history starts

walkVars == <<today, traded, since>>

Stored(s) == {d \in traded[s] : since[s] <= d}
Cells == {c \in Stocks \X (0..LastDay) : c[2] \in Stored(c[1])}

---------------------------------------------------------------------------
(* labels.py and dataset.py *)

\* The sessions t+1 .. t+n of the stock.
Window(c) ==
    LET later == {d \in Stored(c[1]) : d > c[2]}
    IN  {d \in later : Cardinality({e \in later : e <= d}) <= Horizon}

\* forward_open_to_close(): judged when the window is whole and holds no suspension.
WholeLabel(c) ==
    LET days == Window(c) \union {c[2]}
    IN  /\ Cardinality(Window(c)) = Horizon
        /\ \A d \in Window(c) : \E e \in days : e < d /\ d - e <= MaxGap

LabelEnd(c) == Max(Window(c))

\* market_day_tables(): the stocks whose returns the market's median is taken over.
Peers(day) == {p \in Cells : p[2] = day /\ WholeLabel(p)}

\* attach_cross_sectional(): whether the stock beat its market, where enough traded.
\* Either job's rows are some of these (job1_rows, job2_rows).
Labelled(c) == WholeLabel(c) /\ Cardinality(Peers(c[2])) >= MinStocks
Rows == {c \in Cells : Labelled(c)}

\* The bars behind a row's label: its own window and that of every peer.
Evidence(c) == UNION {{p[1]} \X Window(p) : p \in Peers(c[2])}

---------------------------------------------------------------------------
(* validation.py: walk_forward_folds. *)

YearOf(day) == day \div Year
Start(year) == year * Year

Usable == {c \in Rows : c[2] < Holdout /\ LabelEnd(c) < Holdout}

\* Mutant: the purge alone keeps training out of the test year.
LearnableUnembargoed(start) == {c \in Usable : c[2] < start /\ LabelEnd(c) < start}

\* The rows that may be learned from when what follows begins at `start'.
Learnable(start) == {c \in Usable : c[2] < start - Embargo /\ LabelEnd(c) < start}

Test(year) == {c \in Usable : YearOf(c[2]) = year}
Train(year) == Learnable(Start(year))
Fit(year) == {c \in Learnable(Start(year - 1)) : c \in Train(year)}
Inner(year) == {c \in Train(year) : c[2] >= Start(year - 1)}

TestYears ==
    LET years == {YearOf(c[2]) : c \in Usable}
    IN  {y \in years : /\ y >= Min(years) + MinTrainYears
                       /\ Train(y) # {}}

---------------------------------------------------------------------------
(* phase1.py: run_job1 and run_job2. *)

\* What the scaler, the model and the cut of a fold are computed from: labels of the
\* fit rows; and of the inner rows the trades, each over its row's own window.
LearnedByModel(year) == UNION {Evidence(c) : c \in Fit(year)}
LearnedByCut(year) == UNION {{c[1]} \X Window(c) : c \in Inner(year)}

---------------------------------------------------------------------------
WalkInit ==
    /\ today = 0
    /\ traded = [s \in Stocks |-> {0}]
    /\ since \in [Stocks -> Deep]

\* A session of the market: the nightly ingest stores a bar of each stock that traded.
Session(on) ==
    /\ today < LastDay
    /\ today' = today + 1
    /\ traded' = [s \in Stocks |-> IF s \in on THEN traded[s] \union {today'} ELSE traded[s]]
    /\ UNCHANGED since

\* ml/backfill.py: the stored history is extended to the listing.
Extend(s) ==
    /\ since[s] # 0
    /\ since' = [since EXCEPT ![s] = 0]
    /\ UNCHANGED <<today, traded>>

WalkNext ==
    \/ \E on \in SUBSET Stocks \ {{}} : Session(on)
    \/ \E s \in Stocks : Extend(s)

WalkSpec == WalkInit /\ [][WalkNext]_walkVars

---------------------------------------------------------------------------
(* Properties. *)

\* "train only on the past, purge labels that reach into the test year, embargo the
\* sessions before it" (validation.py:5-7), the embargo being "30 sessions (the longer
\* horizon) expressed in calendar days" (34): what a fold's model has seen is dated
\* before the year its cut is chosen on, and what its cut has seen before the year it
\* is tested on.
NothingLeaks ==
    \A y \in TestYears :
        /\ \A e \in LearnedByModel(y) : e[2] < Start(y - 1)
        /\ \A e \in LearnedByCut(y) : e[2] < Start(y)

\* What the purge and the embargo of walk_forward_folds do achieve, whichever sessions
\* thinly traded stocks missed: a fit row knows the year its cut is chosen on only
\* through the market's median, from peers that missed sessions, and of that year no
\* more days than a window can be longer than the embargo; the cut knows nothing of
\* the year it is tested on.
LeaksAreBounded ==
    \A y \in TestYears :
        /\ \A c \in Fit(y) : \A p \in Peers(c[2]) :
               LabelEnd(p) >= Start(y - 1) =>
                   p # c /\ LabelEnd(p) - Start(y - 1) < Horizon * MaxGap - Embargo
        /\ \A e \in LearnedByCut(y) : e[2] < Start(y)

\* "never touch the locked holdout" (validation.py:5-7): no label of a fold is
\* computed from a bar of the holdout.
HoldoutStaysLocked ==
    \A y \in TestYears : \A c \in Train(y) \union Test(y) :
        \A e \in Evidence(c) : e[2] < Holdout
=============================================================================
