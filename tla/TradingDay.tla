----------------------------- MODULE TradingDay -----------------------------
(***************************************************************************)
(* The market clock (markets.py) and what is scheduled by it               *)
(* (jobs/daily_ingest.py build_scheduler and bootstrap_plan, main.py,      *)
(* services/live_prices.py): the nightly refresh of each group of markets  *)
(* on that group's own clock, the start-up download of what is behind, and *)
(* the hourly live prices laid over the finished sessions.                 *)
(*                                                                         *)
(* Time is UTC minutes of a week that repeats; exchange times, zones and   *)
(* the runs' hours are the code's own.  Each exchange may have a holiday   *)
(* on any weekday, which the program does not know.  Of the pipeline only  *)
(* its lock and the outcome of a market's fetch are kept: RefreshPipeline  *)
(* has the rest.                                                           *)
(***************************************************************************)
EXTENDS Integers, FiniteSets, FiniteSetsExt

CONSTANTS Markets,   \* the served markets
          Days,      \* days of a week
          Weekend,   \* those of them without trading: weekday() >= 5
          Hours,     \* bound: the UTC hours at which the live job is looked at
          Crashes    \* the process may be restarted

ASSUME ClockBounds ==
    /\ Markets \subseteq {"gpw", "de", "uk", "us"}
    /\ Days \in Nat \ {0}
    /\ Weekend \subseteq 0 .. Days - 1
    /\ Hours \subseteq 0 .. 23
    /\ Crashes \in BOOLEAN

Hour == 60
Day == 24 * Hour
Week == Days * Day

\* MARKETS: zone, opening and closing time; "de" stands for Paris and Amsterdam too.
Zone(m) == CASE m = "uk" -> "london" [] m = "us" -> "newyork" [] OTHER -> "warsaw"
Opens(m) == CASE m = "uk" -> 8 * Hour [] m = "us" -> 9 * Hour + 30 [] OTHER -> 9 * Hour
Closes(m) == CASE m = "gpw" -> 17 * Hour + 5
               [] m = "uk" -> 16 * Hour + 40
               [] m = "us" -> 16 * Hour
               [] OTHER -> 17 * Hour + 40
Settle == 15

\* refresh_runs(): the nightly runs and the clock each one follows.
Runs == {"europe", "us"}
RunZone(r) == IF r = "us" THEN "newyork" ELSE "warsaw"
RunMinute(r) == IF r = "us" THEN 17 * Hour + 15 ELSE 18 * Hour
RunMarkets(r) == {m \in Markets : (m = "us") = (r = "us")}

\* Daylight saving there, or not: the American one begins earlier and ends later.
Seasons == {s \in [eu : BOOLEAN, us : BOOLEAN] : s.eu => s.us}
Offset(z, s) ==
    LET summer(on) == IF on THEN Hour ELSE 0
    IN CASE z = "newyork" -> summer(s.us) - 5 * Hour
         [] z = "london" -> summer(s.eu)
         [] OTHER -> summer(s.eu) + Hour

Local(z, t, s) == (t + Offset(z, s) + Week) % Week
DayOf(t) == t \div Day
MinuteOf(t) == t % Day

VARIABLES now,      \* the UTC minute
          season,
          trades,   \* the exchange has a session on its present day
          data,     \* stored sessions: "current"; "behind" a finished one; or
                    \* "holiday": all there is, though a weekday has passed since
          today,    \* the stored newest session is the present day's
          live,     \* _prices: none, of the present day, or of an earlier one
          served,   \* the day's nightly run has fetched the market
          due,      \* jobs whose minute has come
          run,      \* the refresh in progress: its kind and what it has to do
          liveRun,  \* the live run in progress: markets to do, quotes in hand
          up        \* the process is running

dayVars == <<now, season, trades, data, today, live, served, due, run, liveRun, up>>

Here(m) == Local(Zone(m), now, season)
Weekday(t) == DayOf(t) \notin Weekend

\* session_is_final() of the present day, and session_in_progress().
FinalToday(m) == MinuteOf(Here(m)) >= Closes(m) + Settle
InProgress(m) == Weekday(Here(m)) /\ MinuteOf(Here(m)) > Opens(m) /\ ~FinalToday(m)

Idle == [kind |-> "none", todo |-> {}]
NoLive == [todo |-> {}, at |-> "none", got |-> "none"]
Jobs == Runs \union {"live"}

DayTypeOK ==
    /\ now \in 0 .. Week - 1
    /\ season \in Seasons
    /\ {trades, today, served} \subseteq [Markets -> BOOLEAN]
    /\ data \in [Markets -> {"current", "holiday", "behind"}]
    /\ live \in [Markets -> {"none", "today", "earlier"}]
    /\ due \subseteq Jobs
    /\ run \in [kind : {"none", "nightly", "late", "startup", "manual"}, todo : SUBSET Markets]
    /\ liveRun \in [todo : SUBSET Markets, at : Markets \union {"none"},
                    got : {"none", "today", "earlier"}]
    /\ liveRun.at \in liveRun.todo \union {"none"}
    /\ up \in BOOLEAN

\* The app is switched on at midnight with all it can have.
DayInit ==
    /\ now = 0 /\ season \in Seasons
    /\ trades = [m \in Markets |-> FALSE]
    /\ data = [m \in Markets |-> "current"]
    /\ today = [m \in Markets |-> FALSE] /\ served = [m \in Markets |-> FALSE]
    /\ live = [m \in Markets |-> "none"]
    /\ due = {} /\ run = Idle /\ liveRun = NoLive /\ up = TRUE

-----------------------------------------------------------------------------
(* Time. *)

Moments ==
    {t \in {5 * i : i \in 0 .. (Week \div 5) - 1} :
        \/ MinuteOf(t) \in {h * Hour : h \in Hours}
        \/ \E s \in Seasons :
            \/ \E m \in Markets : MinuteOf(Local(Zone(m), t, s)) \in {0, Closes(m) + Settle}
            \/ \E r \in Runs : MinuteOf(Local(RunZone(r), t, s)) = RunMinute(r)}

After == [t \in Moments \union {0} |->
            IF \E n \in Moments : n > t THEN Min({n \in Moments : n > t}) ELSE Min(Moments)]

\* Mutant: the American run starts with the European one.
JobsAtOneClock(t) ==
    {r \in Runs : RunMarkets(r) # {} /\ MinuteOf(Local("warsaw", t, season)) = RunMinute("europe")}
        \union (IF MinuteOf(t) \in {h * Hour : h \in Hours} THEN {"live"} ELSE {})

\* build_scheduler(): each run at its minute of its own clock, live prices at
\* every full hour.
JobsAt(t) ==
    {r \in Runs : RunMarkets(r) # {} /\ MinuteOf(Local(RunZone(r), t, season)) = RunMinute(r)}
        \union (IF MinuteOf(t) \in {h * Hour : h \in Hours} THEN {"live"} ELSE {})

\* The scheduler starts what is due before time goes on.  At an exchange's
\* midnight a new day begins there; when its bar is final, the day has a session
\* to store, or passed as a holiday.  A nightly run that a midnight overtakes is
\* late: what it fetches then is no longer that day's.
Tick ==
    LET next == After[now]
        there(m) == Local(Zone(m), next, season)
        midnight == {m \in Markets : MinuteOf(there(m)) = 0}
        closed == {m \in Markets : /\ MinuteOf(there(m)) = Closes(m) + Settle
                                   /\ Weekday(there(m))}
        aged(x) == IF x = "today" THEN "earlier" ELSE x
    IN /\ due = {}
       /\ now' = next
       /\ due' = IF up THEN JobsAt(next) ELSE {}
       /\ \E T \in SUBSET {m \in midnight : Weekday(there(m))} :
            trades' = [m \in Markets |-> IF m \in midnight THEN m \in T ELSE trades[m]]
       /\ today' = [m \in Markets |-> today[m] /\ m \notin midnight]
       /\ served' = [m \in Markets |-> served[m] /\ m \notin midnight]
       /\ live' = [m \in Markets |-> IF m \in midnight THEN aged(live[m]) ELSE live[m]]
       /\ liveRun' = IF liveRun.at \in midnight
                     THEN [liveRun EXCEPT !.got = aged(@)] ELSE liveRun
       /\ data' = [m \in Markets |->
                     IF m \notin closed THEN data[m]
                     ELSE IF trades[m] THEN "behind"
                     ELSE IF data[m] = "current" THEN "holiday" ELSE data[m]]
       /\ run' = IF run.kind = "nightly" /\ run.todo \intersect midnight # {}
                 THEN [run EXCEPT !.kind = "late"] ELSE run
       /\ UNCHANGED <<season, up>>

-----------------------------------------------------------------------------
(* Refreshes: RefreshService.run() and its lock. *)

StartRun(kind, ms) == run' = [kind |-> kind, todo |-> ms]

\* The nightly job; with another refresh in progress it is dropped.
FireNightly(r) ==
    /\ r \in due /\ due' = due \ {r}
    /\ run.kind = "none"
    /\ StartRun("nightly", RunMarkets(r))
    /\ UNCHANGED <<now, season, trades, data, today, live, served, liveRun, up>>

DropNightly(r) ==
    /\ r \in due /\ due' = due \ {r}
    /\ run.kind # "none"
    /\ UNCHANGED <<now, season, trades, data, today, live, served, run, liveRun, up>>

Manual(ms) ==
    /\ up /\ run.kind = "none" /\ ms # {}
    /\ StartRun("manual", ms)
    /\ UNCHANGED <<now, season, trades, data, today, live, served, due, liveRun, up>>

\* A market's bars are downloaded: those of sessions that are final by now.
Fetch(m) ==
    /\ m \in run.todo
    /\ run' = [run EXCEPT !.todo = @ \ {m}]
    /\ data' = [data EXCEPT ![m] = IF @ = "behind" THEN "current" ELSE @]
    /\ today' = [today EXCEPT ![m] = @ \/ (trades[m] /\ FinalToday(m))]
    /\ served' = [served EXCEPT ![m] = @ \/ run.kind = "nightly"]
    /\ UNCHANGED <<now, season, trades, live, due, liveRun, up>>

\* The provider fails: the run is recorded as failed and ends there.
FetchFails ==
    /\ run.todo # {}
    /\ run' = Idle
    /\ UNCHANGED <<now, season, trades, data, today, live, served, due, liveRun, up>>

\* The last step of a refresh: live prices for its markets that are trading,
\* unless a live run is in progress.
EndRun ==
    /\ run.kind # "none" /\ run.todo = {}
    /\ run' = Idle
    /\ UNCHANGED <<now, season, trades, data, today, live, served, due, liveRun, up>>

EndRunLive(ms) ==
    /\ run.kind # "none" /\ run.todo = {}
    /\ ms # {} /\ \A m \in ms : InProgress(m)
    /\ liveRun = NoLive
    /\ liveRun' = [liveRun EXCEPT !.todo = ms]
    /\ run' = Idle
    /\ UNCHANGED <<now, season, trades, data, today, live, served, due, up>>

-----------------------------------------------------------------------------
(* Live prices. *)

\* The hourly job: the markets trading at that moment; nothing to do, or a run
\* in progress, and it is skipped.
FireLive ==
    /\ "live" \in due /\ due' = due \ {"live"}
    /\ liveRun' = IF liveRun = NoLive
                  THEN [liveRun EXCEPT !.todo = {m \in Markets : InProgress(m)}]
                  ELSE liveRun
    /\ UNCHANGED <<now, season, trades, data, today, live, served, run, up>>

\* Mutant: the market's largest stocks are not asked first.
DownloadAll(m) ==
    /\ liveRun.at = "none" /\ m \in liveRun.todo
    /\ liveRun' = [todo |-> liveRun.todo, at |-> m, got |-> "today"]
    /\ UNCHANGED <<now, season, trades, data, today, live, served, due, run, up>>

\* _run_market(): without a bar for today among the largest stocks, or without
\* an answer, the market is left for the next run; a session's first minutes may
\* look like that too.
Download(m) ==
    /\ liveRun.at = "none" /\ m \in liveRun.todo
    /\ \/ /\ trades[m]
          /\ liveRun' = [todo |-> liveRun.todo, at |-> m, got |-> "today"]
       \/ liveRun' = [liveRun EXCEPT !.todo = @ \ {m}]
    /\ UNCHANGED <<now, season, trades, data, today, live, served, due, run, up>>

\* The quotes in hand replace what an earlier day left.
Keep ==
    /\ liveRun.at # "none"
    /\ live' = [live EXCEPT ![liveRun.at] = liveRun.got]
    /\ liveRun' = [todo |-> liveRun.todo \ {liveRun.at}, at |-> "none", got |-> "none"]
    /\ UNCHANGED <<now, season, trades, data, today, served, due, run, up>>

\* get() and _supersedes(): a price is laid over the finished session when it is
\* of the exchange's present day and newer than that session.
OnShow(m) == live[m] = "today" /\ ~today[m]

-----------------------------------------------------------------------------
(* Restarts. *)

Crash ==
    /\ Crashes /\ up
    /\ up' = FALSE /\ due' = {}
    /\ run' = Idle /\ liveRun' = NoLive /\ live' = [m \in Markets |-> "none"]
    /\ UNCHANGED <<now, season, trades, data, today, served>>

\* Mutant: the start-up download looks for today's bar only.
BehindToday == {m \in Markets : Weekday(Here(m)) /\ FinalToday(m) /\ ~today[m]}

\* bootstrap_plan(): the markets whose newest stored session is not the newest
\* weekday that is final.
Behind == {m \in Markets : data[m] # "current"}

Restart ==
    /\ ~up /\ up' = TRUE
    /\ run' = IF Behind = {} THEN Idle ELSE [kind |-> "startup", todo |-> Behind]
    /\ liveRun' = [NoLive EXCEPT !.todo = {m \in Markets \ Behind : InProgress(m)}]
    /\ UNCHANGED <<now, season, trades, data, today, live, served, due>>

-----------------------------------------------------------------------------
RunStep == (\E m \in Markets : Fetch(m)) \/ EndRun \/ \E ms \in SUBSET Markets : EndRunLive(ms)
LiveStep == FireLive \/ Keep \/ \E m \in Markets : Download(m)

DayNext ==
    \/ Tick
    \/ \E r \in Runs : FireNightly(r) \/ DropNightly(r)
    \/ \E ms \in SUBSET Markets : Manual(ms)
    \/ RunStep \/ FetchFails \/ LiveStep
    \/ Crash \/ Restart

\* Time passes, due jobs start or are dropped, the tasks run, and a process that
\* is down is started again.  Of the provider no more is asked than that it does
\* not fail a market for ever.
DayFairness ==
    /\ WF_dayVars(Tick) /\ WF_dayVars(Restart)
    /\ WF_dayVars(RunStep \/ FetchFails) /\ WF_dayVars(LiveStep)
    /\ \A r \in Runs : WF_dayVars(FireNightly(r) \/ DropNightly(r))
    /\ \A m \in Markets : SF_dayVars(Fetch(m))

DaySpec == DayInit /\ [][DayNext]_dayVars
FairDaySpec == DaySpec /\ DayFairness

-----------------------------------------------------------------------------
\* A day's nightly run that fetched a market has its session of that day: the
\* run's hour, on its own clock, is after the close of every market of its group
\* on that market's clock, daylight saving or not ("every European exchange has
\* closed by 17:35", markets.py:489; config.py:49-51).
NightlyHasTheDay ==
    \A m \in Markets : served[m] /\ FinalToday(m) => data[m] # "behind"

\* "It describes a session that is over" is never shown as today's price
\* (live_prices.py:311-313): a live price is on show only on a day the exchange
\* trades, though the program knows no holidays, and never once the final bar of
\* that day is stored.
LiveIsOfASession ==
    \A m \in Markets : OnShow(m) => trades[m] /\ ~today[m]

\* What an exchange has finished is stored in the end, by a nightly run or by the
\* download of a start ("a restart ... catches up", daily_ingest.py:735-745), unless
\* from some time on each nightly run of its group finds the lock taken and the
\* process is not restarted either: those runs are dropped, not queued.
SessionsAreStored ==
    \A m \in Markets :
        []<><<Restart \/ \E r \in Runs : m \in RunMarkets(r) /\ FireNightly(r)>>_dayVars
            => []<>(data[m] # "behind")
=============================================================================
