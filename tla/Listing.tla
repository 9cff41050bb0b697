------------------------------ MODULE Listing ------------------------------
(***************************************************************************)
(* The ranking as a page asks for it: the cached rows with today's prices  *)
(* laid over them, screened by what insiders did, ordered by up to         *)
(* MaxLevels columns, and cut into pages.                                  *)
(*                                                                         *)
(* A row is a record.  Numbers are small and `Nothing' is a missing one;   *)
(* the filters that compare one column with one bound are represented by   *)
(* the one that converts, the price's.                                     *)
(***************************************************************************)
EXTENDS Integers, FiniteSetsExt, SequencesExt

CONSTANTS
    Kinds,      \* the rows there can be: price, currency, sector, score, trades
    Rates,      \* currency -> its fixed rate, where there is one (PLN_PER_UNIT)
    Nothing,
    MaxRows,    \* bound
    MaxLevels,  \* MAX_SORT_LEVELS
    PageSize

ASSUME ListingAssumption ==
    /\ {MaxRows, MaxLevels, PageSize} \subseteq Nat \ {0}
    /\ \A c \in DOMAIN Rates : Rates[c] \in Nat \ {0}

Columns == {"price", "sector", "score", "insider", "rating"}
Activities == {"all", "buy", "netBuy"}

VARIABLES
    ranking,    \* the cached rows, in the order of the ranking
    live,       \* the place of a row -> today's price
    answer      \* what the last request was and got

listingVars == <<ranking, live, answer>>

NoAnswer == [status |-> 0]

---------------------------------------------------------------------------
(* insider_screen_service.py: an amount nobody knows makes its side unknown. *)

SideTotal(trades, side) ==
    LET amounts == {t \in trades : t.side = side}
    IN  IF \E t \in amounts : t.amount = Nothing THEN Nothing
        ELSE MapThenSumSet(LAMBDA t : t.amount, amounts)

\* summarize_insider_activity(): the total of the selected side, or the balance.
InsiderTotal(trades, activity) ==
    LET buy == SideTotal(trades, "buy")
        sell == SideTotal(trades, "sell")
    IN  IF activity = "buy" THEN buy
        ELSE IF Nothing \in {buy, sell} THEN Nothing ELSE buy - sell

\* screen_insider_activity(): which rows the selection keeps.
Screened(row, activity) ==
    LET total == InsiderTotal(row.trades, activity)
    IN  CASE activity = "all" -> TRUE
          [] activity = "buy" -> \E t \in row.trades : t.side = "buy"
          [] OTHER -> total # Nothing /\ total > 0

---------------------------------------------------------------------------
(* routers/stocks.py *)

\* _price_in(), in units of the common scale: comparable with any other such amount of
\* the same `unit', or Nothing without a rate.
PriceIn(row, unit) ==
    IF row.currency \in DOMAIN Rates /\ unit \in DOMAIN Rates THEN row.price * Rates[row.currency]
    ELSE IF row.currency = unit THEN row.price
    ELSE Nothing

\* _sort_value(): missing numbers are below every number, a missing sector is empty.
SortValue(row, column, request) ==
    LET value == CASE column = "price" -> PriceIn(row, request.unit)
                   [] column = "insider" -> InsiderTotal(row.trades, request.activity)
                   [] OTHER -> row[column]
    IN  IF value = Nothing THEN -1000 ELSE value

\* _parse_sort_levels(): a repeated column counts at its first position, with the
\* direction sent in that position.
Firsts(keys) == {i \in 1..Len(keys) : \A j \in 1..(i - 1) : keys[j] # keys[i]}

Levels(keys, dirs) ==
    LET level == [i \in Firsts(keys) |->
                     [column |-> keys[i], down |-> IF i <= Len(dirs) THEN dirs[i] = "desc" ELSE TRUE]]
    IN  [n \in 1..Cardinality(Firsts(keys)) |->
            level[CHOOSE i \in Firsts(keys) : Cardinality({j \in Firsts(keys) : j <= i}) = n]]

BadRequest(keys, dirs) ==
    \/ keys = <<>>
    \/ \E i \in 1..Len(keys) : keys[i] \notin Columns
    \/ Len(dirs) > Len(keys)
    \/ Cardinality(Firsts(keys)) > MaxLevels

\* _query_ranking(): levels of the retired method are dropped.
ActiveLevels(levels) ==
    LET kept == SelectSeq(levels, LAMBDA level : level.column # "rating")
    IN  IF kept = <<>> THEN <<[column |-> "score", down |-> TRUE]>> ELSE kept

\* list.sort() by a rank per place: stable.
SortedBy(rows, rank) ==
    LET place == SetToSortSeq(DOMAIN rows,
                     LAMBDA i, j : rank[i] < rank[j] \/ (rank[i] = rank[j] /\ i < j))
    IN  [n \in DOMAIN rows |-> rows[place[n]]]

\* One pass of _apply_sort(): insiders' missing amounts go last in either direction.
Pass(level, rows, request) ==
    LET key(row) == SortValue(row, level.column, request)
        sorted == SortedBy(rows, [i \in DOMAIN rows |->
                                     IF level.down THEN -key(rows[i]) ELSE key(rows[i])])
    IN  IF level.column = "insider"
        THEN SortedBy(sorted, [i \in DOMAIN rows |-> IF key(sorted[i]) = -1000 THEN 1 ELSE 0])
        ELSE sorted

\* Mutant: the passes run from the first level to the last.
ApplySortForward(rows, request) ==
    FoldLeft(LAMBDA sorted, level : Pass(level, sorted, request), rows, request.levels)

\* _apply_sort(): one pass per level, the last level first.
ApplySort(rows, request) ==
    FoldRight(LAMBDA level, sorted : Pass(level, sorted, request), request.levels, rows)

\* live_prices.py: overlay_rows(), before anything reads a price.
Overlaid ==
    [i \in DOMAIN ranking |->
        IF i \in DOMAIN live THEN [ranking[i] EXCEPT !.price = live[i]] ELSE ranking[i]]

Within(row, request) ==
    request.min = Nothing \/ (PriceIn(row, request.unit) # Nothing
                              /\ PriceIn(row, request.unit) >= request.min)

\* get_ranking(): the rows, in their final order.
Result(request) ==
    ApplySort(SelectSeq(Overlaid, LAMBDA row : Within(row, request) /\ Screened(row, request.activity)),
              request)

PageOf(rows, page) ==
    LET first == (page - 1) * PageSize + 1
    IN  SubSeq(rows, first, IF first + PageSize - 1 < Len(rows) THEN first + PageSize - 1 ELSE Len(rows))

---------------------------------------------------------------------------
\* A refresh adds a row to the ranking; a live run a price of today.
Rank(kind) ==
    /\ Len(ranking) < MaxRows
    /\ ranking' = Append(ranking, kind @@ [id |-> Len(ranking) + 1])
    /\ UNCHANGED <<live, answer>>

PriceToday(i, price) ==
    /\ i \in DOMAIN ranking
    /\ live' = [j \in DOMAIN live \union {i} |-> IF j = i THEN price ELSE live[j]]
    /\ UNCHANGED <<ranking, answer>>

\* A page asks, and asks again once it has shown the answer.
Get(keys, dirs, unit, activity, min, page) ==
    /\ answer = NoAnswer
    /\ answer' =
           IF BadRequest(keys, dirs) THEN [status |-> 400]
           ELSE LET request == [levels |-> ActiveLevels(Levels(keys, dirs)), unit |-> unit,
                                activity |-> activity, min |-> min]
                IN  [status |-> 200, request |-> request, shown |-> Overlaid,
                     rows |-> PageOf(Result(request), page), total |-> Len(Result(request))]
    /\ UNCHANGED <<ranking, live>>

Show == answer # NoAnswer /\ answer' = NoAnswer /\ UNCHANGED <<ranking, live>>

ListingInit ==
    /\ ranking = <<>>
    /\ live = [i \in {} |-> 0]
    /\ answer = NoAnswer

---------------------------------------------------------------------------
(* Properties. *)

\* Which of two rows a reader of the table expects first: by the first column that
\* tells them apart, in its direction; as in the ranking when none does.  An insider
\* amount nobody knows is last in either direction.
ComesBefore(a, b, request) ==
    LET value(row, n) == SortValue(row, request.levels[n].column, request)
        telling == {n \in DOMAIN request.levels : value(a, n) # value(b, n)}
        first == Min(telling)
        unknown(row) == request.levels[first].column = "insider" /\ value(row, first) = -1000
    IN  IF telling = {} THEN a.id < b.id
        ELSE \/ unknown(b)
             \/ ~unknown(a) /\ IF request.levels[first].down THEN value(a, first) > value(b, first)
                               ELSE value(a, first) < value(b, first)

\* "each level breaking only the ties of the one before it" (stocks.py:456-457) and "the
\* price bounds and a sort by price [...] read the same figures the rows show"
\* (stocks.py:1188-1190): every page is in the order of the request's columns, judged by
\* the prices it shows, although the rows are sorted once per level, moved for missing
\* amounts in between, and a live price may have come over the cached one.
TableIsInOrder ==
    answer.status = 200 =>
        \A j \in DOMAIN answer.rows : \A i \in 1..(j - 1) :
            /\ ComesBefore(answer.rows[i], answer.rows[j], answer.request)
            /\ answer.rows[j] = answer.shown[answer.rows[j].id]
=============================================================================
