------------------------------ MODULE MCArchive ------------------------------
(***************************************************************************)
(* Checks CompanyArchive, InsiderTrades, ProviderClient, MarketScan and    *)
(* Listing in one run.  They share no state: each behaviour moves one of   *)
(* them, its focus.                                                        *)
(***************************************************************************)
EXTENDS CompanyArchive, InsiderTrades, ProviderClient, MarketScan, Listing, TLC

VARIABLE focus

vars == <<archiveVars, insiderVars, providerVars, scanVars, listingVars, focus>>

Row(price, currency, sector, score, trades) ==
    [price |-> price, currency |-> currency, sector |-> sector, score |-> score, trades |-> trades]
Bought(amount) == {[side |-> "buy", amount |-> amount]}
MCKinds ==
    {Row(2, "USD", 1, 1, {}), Row(2, "PLN", 1, Nothing, Bought(1)),
     Row(3, "PLN", Nothing, 1, Bought(2) \union {[side |-> "sell", amount |-> 3]}),
     Row(1, "GBX", 1, 2, Bought(Nothing))}
MCRates == [USD |-> 4, PLN |-> 1]

SortBys ==
    {<<"price">>, <<"sector", "price">>, <<"price", "price", "score">>, <<"sector", "score", "price">>,
     <<"insider", "sector">>, <<"sector", "insider">>, <<"rating">>, <<"name">>, <<>>,
     <<"price", "sector", "score", "insider">>}
SortDirs == {<<>>, <<"asc">>, <<"desc", "asc">>}

\* Sessions every other day; the second company stopped trading a session ago, and
\* one signal fires on every bar of the first, which is stored from the start.
Bar(day, close, volume) ==
    [day |-> day, close |-> close, high |-> close + 1, low |-> close - 1, volume |-> volume]
MCPast ==
    << <<Bar(1, 9, 5), Bar(3, 2, 0), Bar(5, 3, 1), Bar(7, 2, 5), Bar(9, 4, 2)>>,
       <<Bar(1, 2, 3), Bar(3, 4, 3), Bar(5, 2, 4), Bar(7, 3, 8)>> >>
MCReported == <<{4, 6, 9}, {3, 10}>>
MCBack == <<1, 2>>
MCWeight == <<2, 1>>
Sow(day) == [day |-> day, name |-> "sow", bullish |-> FALSE]
MCSignals ==
    <<{Sow(5)} \union [day : {1, 3, 5, 7, 9}, name : {"spring"}, bullish : {TRUE}], {Sow(3)}>>

\* Two scans, one of them the ranking.
WithRanking ==
    scans' = MaxScans =>
        step'["ranking"] # "idle" /\ \E k \in ScanKinds \ {"ranking"} : step'[k] # "idle"

Init ==
    /\ ArchiveInit /\ InsiderInit /\ ProviderInit /\ MarketScanInit /\ ListingInit
    /\ focus \in {"archive", "insiders", "provider", "scans", "listing"}
    /\ IF focus = "scans" THEN storedBars[1] > 0 ELSE \A c \in Company : storedBars[c] = 0
    /\ focus # "archive" => companies = CHOOSE m \in Markets : TRUE
    /\ focus # "archive" => \A t \in companies : row[t] = Missing /\ stored[t] = {}

AskForTable ==
    \E keys \in SortBys, dirs \in SortDirs, unit \in {"PLN", "GBX"}, activity \in Activities,
       min \in {Nothing, 3} :
        \E number \in 1..2 : Get(keys, dirs, unit, activity, min, number)

Next ==
    /\ UNCHANGED focus
    /\ \/ /\ focus = "archive" /\ ArchiveNext
          /\ UNCHANGED <<insiderVars, providerVars, scanVars, listingVars>>
       \/ /\ focus = "insiders" /\ InsiderNext
          /\ UNCHANGED <<archiveVars, providerVars, scanVars, listingVars>>
       \/ /\ focus = "provider" /\ ProviderNext
          /\ UNCHANGED <<archiveVars, insiderVars, scanVars, listingVars>>
       \/ /\ focus = "scans" /\ MarketScanNext /\ WithRanking
          /\ UNCHANGED <<archiveVars, insiderVars, providerVars, listingVars>>
       \/ /\ focus = "listing"
          /\ \/ answer = NoAnswer /\ \E kind \in Kinds : Rank(kind)
             \/ answer = NoAnswer /\ live = <<>> /\ PriceToday(1, 9)
             \/ AskForTable
             \/ Show
          /\ UNCHANGED <<archiveVars, insiderVars, providerVars, scanVars>>

Spec == Init /\ [][Next]_vars
=============================================================================
