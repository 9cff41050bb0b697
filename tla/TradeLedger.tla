---------------------------- MODULE TradeLedger ----------------------------
(***************************************************************************)
(* What the portfolios of an account promise their owner, whatever the     *)
(* number of devices, retries and requests in flight: every change anyone  *)
(* can see is one whole edit (a portfolio opened or closed, its settings   *)
(* changed, some new trades entered, or one trade struck out) made to the  *)
(* ledger as it stands, so no edit undoes another by accident.             *)
(* PortfolioLedger implements it.                                          *)
(***************************************************************************)
EXTENDS Naturals, FiniteSets

CONSTANTS Portfolios, Trades, Settings, NoSettings, MaxPortfolios, MaxTransactions

VARIABLE ledger     \* per portfolio: its settings (NoSettings: there is none) and its trades

Closed == [settings |-> NoSettings, trades |-> {}]

IsOpen(p) == ledger[p] # Closed

Init == ledger = [p \in Portfolios |-> Closed]

Open(p, settings) ==
    /\ ~IsOpen(p)
    /\ Cardinality({q \in Portfolios : IsOpen(q)}) < MaxPortfolios
    /\ ledger' = [ledger EXCEPT ![p] = [settings |-> settings, trades |-> {}]]

Close(p) ==
    /\ IsOpen(p)
    /\ ledger' = [ledger EXCEPT ![p] = Closed]

Arrange(p, settings) ==
    /\ IsOpen(p)
    /\ ledger' = [ledger EXCEPT ![p] = [settings |-> settings, trades |-> ledger[p].trades]]

Enter(p, new) ==
    /\ IsOpen(p)
    /\ new \cap ledger[p].trades = {}
    /\ Cardinality(ledger[p].trades \union new) <= MaxTransactions
    /\ ledger' = [ledger EXCEPT ![p] = [settings |-> ledger[p].settings,
                                        trades |-> ledger[p].trades \union new]]

Strike(p, trade) ==
    /\ IsOpen(p)
    /\ trade \in ledger[p].trades
    /\ ledger' = [ledger EXCEPT ![p] = [settings |-> ledger[p].settings,
                                        trades |-> ledger[p].trades \ {trade}]]

Next ==
    \E p \in Portfolios :
        \/ \E settings \in Settings : Open(p, settings) \/ Arrange(p, settings)
        \/ \E new \in SUBSET Trades : Enter(p, new)
        \/ \E trade \in Trades : Strike(p, trade)
        \/ Close(p)

Spec == Init /\ [][Next]_ledger
=============================================================================
