----------------------------- MODULE Vsa4Trades -----------------------------
(***************************************************************************)
(* What the VSA V4 program does with its setups: run_backtest              *)
(* (analysis/vsa4/backtest.py) trades them one position at a time, and     *)
(* Vsa4.evaluate (analysis/methods/vsa4.py) scores where the sequence      *)
(* stands and calls a recent setup's trade live without running it.  Both  *)
(* read the engine's rows, so each step is a session of Vsa4Engine first.  *)
(*                                                                         *)
(* A position is one unit: sizing, the equity curve and its statistics are *)
(* left out.  A commission is a fixed fee a side, slippage a fixed number  *)
(* of price units.  Positions stay open at the end of the data, the        *)
(* default the application never overrides.                                *)
(***************************************************************************)
EXTENDS Vsa4Engine

CONSTANTS
    RewardRisk,      \* Config.reward_risk
    Commission,
    Slippage,
    InitialCapital,
    LiveSessions     \* how recent a setup has to be to be called live

\* Config.validate().
ASSUME TradingAssumption ==
    {RewardRisk, Commission, Slippage, InitialCapital, LiveSessions} \subseteq Nat

VARIABLES
    sides,     \* the setups the simulation trades: "long" or "both"
    cash,
    position,  \* the open position
    queued,    \* pending_entry: the setup to be filled at the next open
    trades     \* the closed trades, oldest first

accountVars == <<sides, cash, position, queued, trades>>

Sign(side) == IF side = "long" THEN 1 ELSE -1

NoPosition == [side |-> "none"]
NoEntry == [side |-> "none"]

\* An execution against the market, slipped to the trader's disadvantage.
Filled(price, side) == price - Sign(side) * Slippage

\* _try_enter: a bar without trade fills nothing, nor does an open beyond the stop.
Enterable(bar, s) ==
    /\ bar.volume > 0 /\ s.stop > 0
    /\ Beyond(s.side, bar.open, s.stop)

\* The position s opens when bar i opens.
Position(b, i, s) ==
    LET entry == Filled(b[i].open, Other(s.side))
        distance == Sign(s.side) * (entry - s.stop)
    IN  [side |-> s.side, setup |-> s.at, entered |-> i, entry |-> entry, stop |-> s.stop,
         target |-> entry + Sign(s.side) * distance * RewardRisk]

Reaches(bar, side, price) == IF side = "long" THEN bar.high >= price ELSE bar.low <= price
Hits(bar, side, price) == IF side = "long" THEN bar.low <= price ELSE bar.high >= price

\* How position p leaves on a bar: the open first, then the stop before the target,
\* since a bar does not tell the order of its prices.  A target fills at its limit.
ExitOn(bar, p) ==
    CASE bar.volume = 0 -> [reason |-> "none", price |-> 0]
      [] ~Beyond(p.side, bar.open, p.stop) ->
             [reason |-> "stop_gap_open", price |-> Filled(bar.open, p.side)]
      [] ~Beyond(p.side, p.target, bar.open) ->
             [reason |-> "take_profit_gap_open", price |-> p.target]
      [] Hits(bar, p.side, p.stop) ->
             [reason |-> "stop", price |-> Filled(p.stop, p.side)]
      [] Reaches(bar, p.side, p.target) -> [reason |-> "take_profit", price |-> p.target]
      [] OTHER -> [reason |-> "none", price |-> 0]

Gross(p, price) == Sign(p.side) * (price - p.entry)

\* Mutant: the entry's commission is charged again when the trade is closed.
ProceedsTwice(p, price) == Gross(p, price) - 2 * Commission

\* What closing adds to the account; the entry's commission was paid at the entry.
Proceeds(p, price) == Gross(p, price) - Commission

Net(p, price) == Gross(p, price) - 2 * Commission

AccountInit ==
    /\ sides \in {"long", "both"}
    /\ cash = InitialCapital
    /\ position = NoPosition
    /\ queued = NoEntry
    /\ trades = <<>>

\* One turn of run_backtest's loop, on the bar that just closed: the queued entry at
\* its open, the exits, and at its close the next entry to queue.
Trade ==
    LET i == Len(bars')
        bar == bars'[i]
        enters == position = NoPosition /\ queued # NoEntry /\ Enterable(bar, queued)
        held == IF enters THEN Position(bars', i, queued) ELSE position
        exit == IF held = NoPosition THEN [reason |-> "none", price |-> 0] ELSE ExitOn(bar, held)
        left == IF exit.reason = "none" THEN held ELSE NoPosition
        new == {s \in setups' : s.at = i /\ (s.side = "long" \/ sides = "both")}
    IN  /\ position' = left
        /\ cash' = cash - (IF enters THEN Commission ELSE 0)
                        + (IF exit.reason = "none" THEN 0 ELSE Proceeds(held, exit.price))
        /\ trades' = IF exit.reason = "none" THEN trades
                     ELSE Append(trades, [of |-> held, left |-> i, reason |-> exit.reason,
                                          price |-> exit.price, net |-> Net(held, exit.price)])
        /\ queued' = IF left = NoPosition /\ Cardinality(new) = 1
                     THEN CHOOSE s \in new : TRUE ELSE NoEntry
        /\ UNCHANGED sides

TradingSpec ==
    EngineInit /\ AccountInit
        /\ [][\E q \in Quotes : Close(q) /\ Trade]_<<engineVars, accountVars>>

---------------------------------------------------------------------------
(* Vsa4.evaluate: where the sequence stands after the last close. *)

Today == Len(bars)

Newest(side) == {s \in setups : s.side = side /\ \A t \in setups : t.side = side => t.at <= s.at}

\* Mutant: the bar the entry is made on is not looked at.
WatchedAfterEntry(s) == (s.at + 2)..Today

\* The bars on which a setup's stop or target may have been touched.
Watched(s) == (s.at + 1)..Today

\* _trade_live: entered at the next open, and neither level touched since.
TradeLive(s) ==
    /\ s.at < Today
    /\ LET entry == bars[s.at + 1].open
           target == entry + RewardRisk * (entry - s.stop)
       IN  /\ Beyond(s.side, entry, s.stop)
           /\ \A j \in Watched(s) : /\ ~Hits(bars[j], s.side, s.stop)
                                    /\ ~Reaches(bars[j], s.side, target)

Fired(side) == \E s \in Newest(side) : s.at = Today
Live(side) == \E s \in Newest(side) : Today - s.at <= LiveSessions /\ TradeLive(s)
Pending(side) == test[side] # NoTest /\ Today - test[side].at < ConfirmationWindow
Building(side) == background[side] # NoLeg /\ Today - background[side].at <= SequenceWindow

Score ==
    IF Fired("long") THEN 100
    ELSE IF Fired("short") THEN 0
    ELSE IF Live("long") THEN 85
    ELSE IF Live("short") THEN 5
    ELSE IF Pending("long") THEN 65
    ELSE IF Pending("short") THEN 10
    ELSE IF Building("long") THEN 50
    ELSE IF Building("short") THEN 20
    ELSE 35

---------------------------------------------------------------------------
(* Properties. *)

\* Every trade was opened at the open after the close that confirmed its setup, and
\* only once the trade before it had been left; the account holds what it began with,
\* what the closed trades made after costs, and owes nothing but the open entry's fee.
AccountAddsUp ==
    /\ cash = InitialCapital
                  + SumFunction([k \in DOMAIN trades |-> trades[k].net])
                  - (IF position = NoPosition THEN 0 ELSE Commission)
    /\ LET opened == [k \in DOMAIN trades |-> trades[k].of]
           all == IF position = NoPosition THEN opened ELSE Append(opened, position)
       IN  \A k \in DOMAIN all :
               /\ all[k].entered = all[k].setup + 1
               /\ \E s \in setups : s.at = all[k].setup /\ s.side = all[k].side
               /\ k > 1 => trades[k - 1].left < all[k].entered

\* _trade_live mirrors the program's own trade: a setup the score calls live, if the
\* simulation of both sides filled it, is the position it still holds.
LiveIsStillOpen ==
    \A side \in Sides :
        Score = (IF side = "long" THEN 85 ELSE 5) =>
            \A s \in Newest(side) :
                \A k \in DOMAIN trades : trades[k].of.setup # s.at \/ trades[k].of.side # side
=============================================================================
