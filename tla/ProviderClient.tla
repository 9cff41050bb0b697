--------------------------- MODULE ProviderClient ---------------------------
(***************************************************************************)
(* Downloads of one stock's bars from Yahoo Finance: the process-wide gate *)
(* every call goes through, the worker thread behind it, the waits on a    *)
(* rate limit, and which bars a call keeps of those it is served.          *)
(*                                                                         *)
(* Time is a counter of ticks.  Every day has a session; a bar is the day  *)
(* of its session and the moment the provider built it: before the session *)
(* is over it holds what has traded so far.                                *)
(***************************************************************************)
EXTENDS Integers, FiniteSetsExt

CONSTANTS
    DailyCall,      \* calls of get_daily_history
    SessionCall,    \* calls of get_session_quote
    Slots,          \* the semaphore
    Day,            \* ticks of a day
    Opens, Closes,  \* ticks into the day
    Settle,         \* SESSION_SETTLE, in ticks
    Waits,          \* how often a rate-limited call waits
    MaxOrphans,     \* bound: threads left behind at once
    LastTick        \* bound

ASSUME ProviderAssumption ==
    /\ {Slots, Day} \subseteq Nat \ {0}
    /\ {Opens, Closes, Settle, Waits, MaxOrphans, LastTick} \subseteq Nat
    /\ Opens < Closes /\ Closes + Settle < Day
    /\ DailyCall \intersect SessionCall = {}

Call == DailyCall \union SessionCall

VARIABLES
    now,
    call,       \* call -> its step, the moment its thread read the clock, its waits, its result
    orphans     \* threads whose caller has left

providerVars == <<now, call, orphans>>

NoResult == [bars |-> {}, final |-> FALSE, today |-> -1]
Unasked == [at |-> "idle", stamp |-> -1, waits |-> 0, served |-> -1, result |-> NoResult]

DayOf(tick) == tick \div Day

\* Market.session_is_final()
Final(day, tick) ==
    \/ day < DayOf(tick)
    \/ day = DayOf(tick) /\ tick % Day >= Closes + Settle

\* What the provider has at a moment: a bar of each session begun.
Served(tick) ==
    {[day |-> d, built |-> tick] :
        d \in {d \in 0..DayOf(tick) : d < DayOf(tick) \/ tick % Day >= Opens}}

Holders == {c \in Call : call[c].at \in {"thread", "served"}}

---------------------------------------------------------------------------
Ask(c) ==
    /\ call[c].at \in {"idle", "done", "failed"}
    /\ call' = [call EXCEPT ![c] = [Unasked EXCEPT !.at = "queued"]]
    /\ UNCHANGED <<now, orphans>>

Gate == Cardinality(Holders) < Slots

\* async with the semaphore: the thread starts and reads the clock.
Start(c) ==
    /\ call[c].at = "queued"
    /\ Gate
    /\ call' = [call EXCEPT ![c] = [[@ EXCEPT !.at = "thread"] EXCEPT !.stamp = now]]
    /\ UNCHANGED <<now, orphans>>

\* _with_rate_limit_retry(): the thread waits, holding the gate.
RateLimited(c) ==
    /\ call[c].at = "thread" /\ call[c].waits < Waits
    /\ call' = [call EXCEPT ![c].waits = @ + 1]
    /\ UNCHANGED <<now, orphans>>

\* The provider builds the answer.
Download(c) ==
    /\ call[c].at = "thread"
    /\ call' = [call EXCEPT ![c] = [[@ EXCEPT !.at = "served"] EXCEPT !.served = now]]
    /\ UNCHANGED <<now, orphans>>

\* Mutant: the clock is read when the answer has been parsed.
ClockOnArrival(c) == now

\* _utcnow(), read before anything is asked.
Clock(c) == call[c].stamp

\* _fetch_sync(): the sessions that were over.
KeptDaily(c) == {b \in Served(call[c].served) : Final(b.day, Clock(c))}

\* _fetch_session_sync(): the day's own bar and the newest before it.
KeptSession(c) ==
    LET today == DayOf(Clock(c))
        before == {b \in Served(call[c].served) : b.day < today}
    IN  {b \in Served(call[c].served) : b.day = today}
            \union {b \in before : \A x \in before : x.day <= b.day}

\* The answer.  A session call without a usable bar fails, as does any call whose
\* download went wrong.
Answer(c) ==
    /\ call[c].at = "served"
    /\ \/ \E bars \in {IF c \in DailyCall THEN KeptDaily(c) ELSE KeptSession(c)} :
              call' = [call EXCEPT ![c] =
                  [[@ EXCEPT !.at = IF bars = {} /\ c \in SessionCall THEN "failed" ELSE "done"]
                     EXCEPT !.result = [bars |-> bars, today |-> DayOf(Clock(c)),
                                        final |-> Final(DayOf(Clock(c)), Clock(c))]]]
       \/ call' = [call EXCEPT ![c] = [Unasked EXCEPT !.at = "failed"]]
    /\ UNCHANGED <<now, orphans>>

\* The caller leaves: the semaphore is released, the thread goes on.
Leave(c) ==
    /\ call[c].at = "queued" \/ (c \in Holders /\ orphans < MaxOrphans)
    /\ call' = [call EXCEPT ![c] = Unasked]
    /\ orphans' = IF c \in Holders THEN orphans + 1 ELSE orphans
    /\ UNCHANGED now

OrphanEnds ==
    /\ orphans > 0
    /\ orphans' = orphans - 1
    /\ UNCHANGED <<now, call>>

Tick ==
    /\ now < LastTick
    /\ now' = now + 1
    /\ UNCHANGED <<call, orphans>>

ProviderInit ==
    /\ now = 0
    /\ call = [c \in Call |-> Unasked]
    /\ orphans = 0

ProviderNext ==
    \/ \E c \in Call : Ask(c) \/ Start(c) \/ RateLimited(c) \/ Download(c) \/ Answer(c) \/ Leave(c)
    \/ OrphanEnds \/ Tick

ProviderSpec == ProviderInit /\ [][ProviderNext]_providerVars

---------------------------------------------------------------------------
(* Properties. *)

\* "Only finished sessions are returned" (yahoo_finance_client.py:212) and what stands
\* in for today's price is called final only when it is: however long a call waited in
\* its thread while sessions opened, closed and settled, no bar built before its
\* session had settled is taken for a finished one.
FinishedBarsAreFinished ==
    \A c \in Call : call[c].at = "done" =>
        \A b \in call[c].result.bars :
            c \in DailyCall \/ b.day < call[c].result.today \/ call[c].result.final
                => Final(b.day, b.built)
=============================================================================
