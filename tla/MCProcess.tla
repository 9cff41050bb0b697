------------------------- MODULE MCProcess ---------------------------------
(***************************************************************************)
(* Checks Lifespan, which brings ActionLog, TradingDay and PortfolioLedger *)
(* in one run.  They share no state: each behaviour plays one scene, the   *)
(* life of the process; the days of its scheduler and its live prices;     *)
(* portfolios kept by hand, deleted and made again on any device; or one   *)
(* portfolio that reports are imported into beside edits by hand.  The     *)
(* trades are a handful, of one instrument.                                *)
(***************************************************************************)
EXTENDS Lifespan, TradingDay, PortfolioLedger

VARIABLE scene

Trade(id, day, time, side, quantity, source) ==
    [id |-> id, day |-> day, time |-> time, side |-> side, quantity |-> quantity,
     price |-> 1, source |-> source]

BuyByHand == Trade(1, 1, 0, "buy", 2, "manual")
BuyOtherwise == Trade(1, 1, 0, "buy", 1, "manual")
SaleByHand == Trade(2, 2, 0, "sell", 2, "manual")
BuyTooLate == Trade(3, 3, 0, "buy", 2, "manual")

\* What the broker's report says of that purchase, and of the next day, when a
\* sale came first; the broker corrected one of them later.
BuyReported == Trade(11, 1, 9, "buy", 2, "xtb")
BuyAtEleven == Trade(12, 2, 11, "buy", 1, "xtb")
BuyCorrected == Trade(12, 2, 11, "buy", 2, "xtb")
SaleAtTen == Trade(13, 2, 10, "sell", 1, "xtb")

ByHandOnly == {BuyByHand, BuyOtherwise, SaleByHand, BuyTooLate}
AllTrades == ByHandOnly \union {BuyReported, BuyAtEleven, BuyCorrected, SaleAtTen}

Report == [rows |-> {BuyReported, SaleAtTen}, flawed |-> FALSE]
DayReport == [rows |-> {BuyAtEleven, SaleAtTen}, flawed |-> TRUE]
Correction == [rows |-> {BuyCorrected}, flawed |-> FALSE]
Reports == {Report, DayReport, Correction}

FirstPortfolio == CHOOSE p \in Portfolios : TRUE

\* What is sent in the scene of reports.
WithReports(q) ==
    /\ q.portfolio = FirstPortfolio /\ q.op # "update"
    /\ q.op = "add" => q.trade = BuyByHand


MCInit ==
    /\ Init /\ DayInit /\ LedgerInit
    /\ scene \in {"life", "days", "edits", "imports"}
    /\ scene # "days" => season = CHOOSE s \in Seasons : TRUE

MCNext ==
    /\ UNCHANGED scene
    /\ \/ scene = "life" /\ Next /\ UNCHANGED <<dayVars, ledgerVars>>
       \/ scene = "days" /\ DayNext /\ UNCHANGED <<vars, ledgerVars>>
       \/ /\ scene \in {"edits", "imports"}
          /\ LedgerNext
          /\ \A q \in sent' \ sent : IF scene = "edits" THEN q.op # "import" ELSE WithReports(q)
          /\ UNCHANGED <<vars, dayVars>>

\* The scenes of portfolios have safety properties only.
MCSpec ==
    /\ MCInit /\ [][MCNext]_<<vars, dayVars, ledgerVars, scene>>
    /\ \/ scene = "life" /\ Fairness
       \/ scene = "days" /\ DayFairness
       \/ scene \in {"edits", "imports"}
=============================================================================
