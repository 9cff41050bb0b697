------------------------------ MODULE MCEngines ------------------------------
(***************************************************************************)
(* The analysis methods for TLC.  Each behaviour feeds one of them, its    *)
(* focus, a series of sessions drawn from shapes that between them reach   *)
(* every signal of that method; the others keep their first state.         *)
(***************************************************************************)
EXTENDS VsaSignals, Vsa4Trades, WalkForward, StockPage

VARIABLE focus

MCTemplate == [short |-> 2, mid |-> 3, long |-> 4, slope |-> 1, year |-> 5, scan |-> 3]
MCBreakout == [base |-> 2, mid |-> 3, year |-> 5, recent |-> 2, prior |-> 2, min |-> 6,
               fresh |-> 2, scan |-> 3]
MCStage == [ma |-> 2, flat |-> 1, base |-> 1, volume |-> 1, fresh |-> 1, scan |-> 3]
MCPivot == [down |-> 2, fast |-> 2, mid |-> 3, slow |-> 6, quiet |-> 2, before |-> 3,
            wedge |-> 2, rising |-> 2, fresh |-> 2, scan |-> 3]
MCGate == [forward |-> 1, samples |-> 2]

MCIntraday == [hour |-> [group |-> 1, reach |-> 1, warm |-> 0],
               four |-> [group |-> 3, reach |-> 2, warm |-> 1]]

MCClassic == [lookback |-> 2, trend |-> 2, warmup |-> 1, phase |-> 2, least |-> 1, half |-> 1,
              weekHalf |-> 3, span |-> 3, weeks |-> 3, leastWeeks |-> 3]
\* The defaults, and what a user made of the rules with the phases switched on.
MCConfigs ==
    {DefaultConfig,
     [ConfigFromSettings([SOS |-> [lookback |-> 3], Upthrust |-> [enabled |-> FALSE]])
         EXCEPT !.phase = TRUE]}

Methods == {"vsa", "template", "breakout", "pivot", "stage"}

\* A session of a trend method: the close's move, the range beyond both closes, the volume.
Shape ==
    [template |-> {<<1, 0, 0, 2>>, <<3, 0, 0, 2>>, <<-2, 0, 0, 2>>, <<0, 7, 0, 2>>},
     breakout |-> {<<0, 1, 1, 9>>, <<0, 0, 1, 1>>, <<2, 0, 0, 3>>},
     pivot    |-> {<<0, 1, 0, 9>>, <<-1, 0, 1, 1>>, <<1, 0, 0, 2>>},
     vsa      |-> {<<4, 0, 0, 9>>, <<-4, 2, 0, 4>>, <<1, 1, 0, 1>>, <<4, 0, 0, 1>>,
                   <<0, 0, 6, 2>>},
     stage    |-> {<<0, 0, 0, 1>>, <<1, 0, 0, 4>>, <<4, 0, 4, 10>>}]
\* What matters comes late: a base before the breakout, a year before the template.
ShapeAt(method, n) ==
    CASE n < 3 /\ method = "stage" -> Shape[method] \ {<<4, 0, 4, 10>>}
      [] n < 3 /\ method = "template" -> Shape[method] \ {<<3, 0, 0, 2>>, <<-2, 0, 0, 2>>}
      [] OTHER -> Shape[method]
Longest == [template |-> 7, breakout |-> 7, pivot |-> 8, stage |-> 6, vsa |-> 6]
Price == [template |-> 10, breakout |-> 20, pivot |-> 20, stage |-> 20, vsa |-> 20]

\* Daily bars have no holes to speak of, weeks have: a holiday may eat into one.
Step(method) == IF method = "stage" THEN {1, 3} ELSE {1}

\* A session of the VSA V4 program, against the close before it.
S(o, h, l, c, v) == [open |-> o, high |-> h, low |-> l, close |-> c, volume |-> v]
Fall == S(0, 1, -6, -5, 4)
Surge == S(0, 6, -1, 5, 9)
Dip == S(0, 1, -2, -1, 1)
Rise == S(0, 3, -1, 2, 3)
Hammer == S(0, 2, -4, 1, 8)
Rejection == S(0, 6, -1, -1, 9)
Churn == S(0, 2, 0, 1, 12)
SellingClimax == S(0, 0, -10, -5, 12)
BuyingClimax == S(0, 10, 0, 5, 12)
Halted == S(0, 0, 0, 0, 0)
GapDown == S(-6, -6, -7, -6, 2)
Feed(n) ==
    CASE n = 0 -> {Fall, Surge}
      [] n = 1 -> {Fall, Surge, Rise}
      [] n \in 2 .. 4 -> {Fall, Surge, Dip, Rise, Hammer, Rejection, Churn, SellingClimax, BuyingClimax}
      [] n = 5 -> {Surge, Fall, Rise}
      [] n > 5 -> {Surge, Fall, Halted, GapDown}

Init ==
    /\ focus \in Methods \union {"vsa4", "folds", "page"}
    /\ HistoryInit(IF focus \in Methods THEN Price[focus] ELSE 1,
                   IF focus \in {"template", "breakout", "pivot"} THEN 9 ELSE 1)
    /\ EngineInit /\ AccountInit /\ (focus # "vsa4" => sides = "long")
    /\ PageInit /\ WalkInit /\ (focus # "folds" => since = [s \in Stocks |-> 0])

Next ==
    /\ UNCHANGED focus
    /\ \/ /\ focus \in Methods
          /\ Len(history) < Longest[focus]
          /\ \E k \in ShapeAt(focus, Len(history)), days \in Step(focus) :
                 NextSession(days, k[1], k[2], k[3], k[4])
          /\ UNCHANGED <<engineVars, accountVars, walkVars, pageVars>>
       \/ /\ focus = "vsa4"
          /\ \E s \in Feed(Len(bars)) : Close(s) /\ Trade
          /\ UNCHANGED <<historyVars, walkVars, pageVars>>
       \/ /\ focus = "folds"
          /\ WalkNext
          /\ UNCHANGED <<historyVars, engineVars, accountVars, pageVars>>
       \/ /\ focus = "page"
          /\ PageNext
          /\ UNCHANGED <<historyVars, engineVars, accountVars, walkVars>>

Spec == Init /\ [][Next]_<<focus, historyVars, engineVars, accountVars, walkVars, pageVars>>
=============================================================================
