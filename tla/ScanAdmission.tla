---------------------------- MODULE ScanAdmission ----------------------------
(***************************************************************************)
(* How public requests for full-market work share a process: the response  *)
(* cache (services/cache.py), the scans admitted by ScanWorkBudget         *)
(* (services/scan_work.py) and the back-test behind its one-slot gate      *)
(* (routers/stocks.py).  A scan or a back-test is a task of its own: the   *)
(* callers that wait for it may disconnect, and it runs on.                *)
(*                                                                         *)
(* Between two steps of a task or a request the event loop may run any     *)
(* other one; what a request does up to its first await is one action.     *)
(***************************************************************************)
EXTENDS Integers, Sequences, SequencesExt, FiniteSets

CONSTANTS Visitors,       \* requests under way at once, all from one address
          Baselines,      \* keys of scans with the default settings
          Variants,       \* keys of scans with settings of a visitor's own
          Tests,          \* keys of back-tests
          MaxCached,     \* TTLCache._max_entries
          MaxTasks,       \* ScanWorkBudget._max_concurrent
          Misses,         \* misses_per_minute
          MaxLocks,       \* LockRegistry._max_locks
          MaxGeneration   \* bound on the cache's generation

ASSUME AdmissionBounds ==
    {MaxCached, MaxTasks, Misses, MaxLocks, MaxGeneration} \subseteq Nat \ {0}

Scans == Baselines \union Variants
CacheKeys == Scans \union Tests
NoOwner == "nobody"

ASSUME NobodyIsNoVisitor == NoOwner \notin Visitors

VARIABLES store,        \* entries [key, live], least recently used first
          pinned,       \* _pinned
          generation,
          tasks,        \* scans: [key, asked, read, stage]
          spent,        \* misses of the address within the window, by kind of work
          waits,        \* what a request waits for
          locks,        \* LockRegistry: [key, holder, line], in the order of their use
          dropped,      \* locks the registry forgot with requests still in line
          gate,         \* _method_backtest_gate is taken
          test          \* the back-test: [key, read, stage, owner]

admissionVars == <<store, pinned, generation, tasks, spent, waits, locks, dropped, gate, test>>

Unread == 0
Generations == 1 .. MaxGeneration
Stages == {"new", "running", "done"}
NoTest == [key |-> "none", read |-> Unread, stage |-> "none", owner |-> NoOwner]
Resting == [on |-> "none", key |-> "none", asked |-> Unread]
Lock == [key : Tests, holder : Visitors \union {NoOwner}, line : Seq(Visitors)]
IdleLock(k) == [key |-> k, holder |-> NoOwner, line |-> <<>>]

AdmissionTypeOK ==
    /\ store \in Seq([key : CacheKeys, live : BOOLEAN]) /\ Len(store) <= MaxCached
    /\ pinned \subseteq {store[i].key : i \in DOMAIN store}
    /\ generation \in Generations
    /\ tasks \subseteq [key : Scans, asked : Generations,
                        read : Generations \union {Unread}, stage : Stages]
    /\ spent \in [{"scan", "test"} -> 0 .. Misses]
    /\ waits \in [Visitors -> [on : {"none", "scan", "lock", "test"},
                               key : CacheKeys \union {"none"}, asked : Generations \union {Unread}]]
    /\ locks \in Seq(Lock) /\ dropped \subseteq Lock
    /\ gate \in BOOLEAN
    /\ test \in [key : Tests \union {"none"}, read : Generations \union {Unread},
                 stage : Stages \union {"none"}, owner : Visitors \union {NoOwner}]

AdmissionInit ==
    /\ store = <<>> /\ pinned = {} /\ generation = 1
    /\ tasks = {} /\ spent = [kind \in {"scan", "test"} |-> 0]
    /\ waits = [v \in Visitors |-> Resting]
    /\ locks = <<>> /\ dropped = {} /\ gate = FALSE /\ test = NoTest

-----------------------------------------------------------------------------
(* TTLCache: s is a store, p its pins. *)

Present(s) == {s[i].key : i \in DOMAIN s}
Without(s, k) == SelectSeq(s, LAMBDA e : e.key # k)
Living(k) == \E i \in DOMAIN store : store[i].key = k /\ store[i].live

\* get(): a live entry becomes the most recently used, an expired one is dropped.
Get(k) ==
    /\ store' = IF Living(k) THEN Append(Without(store, k), [key |-> k, live |-> TRUE])
                ELSE Without(store, k)
    /\ pinned' = IF Living(k) THEN pinned ELSE pinned \ {k}

\* The newcomer is last; over the ceiling what has expired goes before what lives.
Swept(s, k) ==
    IF Len(s) <= MaxCached THEN s ELSE SelectSeq(s, LAMBDA e : e.live \/ e.key = k)

\* Mutant: the least recently used entry goes, pinned or not.
EvictOldest(s, p) == IF Len(s) <= MaxCached THEN s ELSE Tail(s)

\* Still over: an unpinned entry goes first, though it be the newcomer itself.
Evicted(s, p) ==
    LET loose == {i \in DOMAIN s : s[i].key \notin p}
        oldest == CHOOSE i \in loose : \A j \in loose : i <= j
    IN IF Len(s) <= MaxCached THEN s
       ELSE IF loose = {} THEN Tail(s) ELSE RemoveAt(s, oldest)

\* _admit(), with the pin that set() and set_if_generation() add before it.
Admit(k, pin) ==
    LET pins == IF pin THEN pinned \union {k} ELSE pinned
        grown == Append(Without(store, k), [key |-> k, live |-> TRUE])
    IN /\ store' = Evicted(Swept(grown, k), pins \intersect Present(Swept(grown, k)))
       /\ pinned' = pins \intersect Present(store')

\* set_if_generation()
AdmitIfCurrent(k, pin, read) ==
    IF read = generation THEN Admit(k, pin) ELSE UNCHANGED <<store, pinned>>

Age(k) ==
    /\ Living(k)
    /\ store' = [i \in DOMAIN store |-> IF store[i].key = k THEN [key |-> k, live |-> FALSE]
                                        ELSE store[i]]
    /\ UNCHANGED <<pinned, generation, tasks, spent, waits, locks, dropped, gate, test>>

\* invalidate() of a refresh, of the entries its markets fed.
Invalidate(doomed) ==
    /\ generation < MaxGeneration /\ generation' = generation + 1
    /\ store' = SelectSeq(store, LAMBDA e : e.key \notin doomed)
    /\ pinned' = pinned \ doomed
    /\ UNCHANGED <<tasks, spent, waits, locks, dropped, gate, test>>

\* RefreshService stores the rankings it has just computed, and pins them.
Prewarm(k) ==
    /\ Admit(k, TRUE)
    /\ UNCHANGED <<generation, tasks, spent, waits, locks, dropped, gate, test>>

-----------------------------------------------------------------------------
(* ScanWorkBudget. *)

MissForgotten(kind) ==
    /\ spent[kind] > 0 /\ spent' = [spent EXCEPT ![kind] = @ - 1]
    /\ UNCHANGED <<store, pinned, generation, tasks, waits, locks, dropped, gate, test>>

Free(v) == waits[v] = Resting
WaitFor(v, k) == waits' = [waits EXCEPT ![v] = [on |-> "scan", key |-> k, asked |-> generation]]
Shared(k) == \E t \in tasks : t.key = k /\ t.asked = generation

\* Mutant: the client pays before it is known whether there is a slot.
StartScanPaidFirst(v, k) ==
    LET full == Cardinality(tasks) >= MaxTasks
    IN /\ spent["scan"] < Misses
       /\ spent' = [spent EXCEPT !["scan"] = @ + 1]
       /\ IF full THEN UNCHANGED <<tasks, waits>>
          ELSE /\ tasks' = tasks \union {[key |-> k, asked |-> generation, read |-> Unread,
                                          stage |-> "new"]}
               /\ WaitFor(v, k)

\* A slot, then the client's budget: without either the request is refused at once.
StartScan(v, k) ==
    /\ Cardinality(tasks) < MaxTasks /\ spent["scan"] < Misses
    /\ spent' = [spent EXCEPT !["scan"] = @ + 1]
    /\ tasks' = tasks \union {[key |-> k, asked |-> generation, read |-> Unread,
                               stage |-> "new"]}
    /\ WaitFor(v, k)

\* run(): the cache, the task of this key and generation, or a task of its own.
AskScan(v, k) ==
    /\ Free(v) /\ Get(k)
    /\ \/ Living(k) /\ UNCHANGED <<waits, tasks, spent>>
       \/ ~Living(k) /\ Shared(k) /\ WaitFor(v, k) /\ UNCHANGED <<tasks, spent>>
       \/ ~Living(k) /\ ~Shared(k) /\ StartScan(v, k)
    /\ UNCHANGED <<generation, locks, dropped, gate, test>>

Advance(t, stage, read) == tasks' = (tasks \ {t}) \union {[t EXCEPT !.stage = stage, !.read = read]}

\* compute_and_cache() reads the generation when the task first runs.
ScanBegins(t) ==
    /\ t.stage = "new" /\ Advance(t, "running", generation)
    /\ UNCHANGED <<store, pinned, generation, spent, waits, locks, dropped, gate, test>>

\* The result of the default settings is pinned; a computation may also raise.
ScanEnds(t) ==
    /\ t.stage = "running" /\ Advance(t, "done", t.read)
    /\ \/ AdmitIfCurrent(t.key, t.key \in Baselines, t.read)
       \/ UNCHANGED <<store, pinned>>
    /\ UNCHANGED <<generation, spent, waits, locks, dropped, gate, test>>

\* _finished(), a callback of the task that is done, and with it those who wait.
ScanFinished(t) ==
    /\ t.stage = "done" /\ tasks' = tasks \ {t}
    /\ waits' = [v \in Visitors |-> IF waits[v] = [on |-> "scan", key |-> t.key, asked |-> t.asked]
                                    THEN Resting ELSE waits[v]]
    /\ UNCHANGED <<store, pinned, generation, spent, locks, dropped, gate, test>>

-----------------------------------------------------------------------------
(* LockRegistry and the back-test. *)

LockOf(k) == CHOOSE i \in DOMAIN locks : locks[i].key = k
Known(k) == \E i \in DOMAIN locks : locks[i].key = k

\* _prune(): idle locks go, the oldest first, until there is room; one that was
\* released to a request that has not woken yet is idle too.
Victim == {i \in DOMAIN locks : locks[i].holder = NoOwner /\ \A j \in 1 .. (i - 1) : locks[j].holder # NoOwner}
Pruned == IF Len(locks) < MaxLocks \/ Victim = {} THEN locks
          ELSE RemoveAt(locks, CHOOSE i \in Victim : TRUE)
Forgotten == {l \in ToSet(locks) \ ToSet(Pruned) : l.line # <<>>}

Starts(k) == ~Living(k) /\ ~gate /\ spent["test"] < Misses
Keeper(v, k) == IF Starts(k) THEN v ELSE NoOwner

StartTest(v, k) ==
    /\ gate' = TRUE
    /\ test' = [key |-> k, read |-> Unread, stage |-> "new", owner |-> v]
    /\ spent' = [spent EXCEPT !["test"] = @ + 1]
    /\ waits' = [waits EXCEPT ![v] = [on |-> "test", key |-> k, asked |-> Unread]]

\* Mutant: a request refused by its budget keeps the gate it has just taken.
EnterKeepingGate(v, k) ==
    IF Starts(k) THEN StartTest(v, k)
    ELSE /\ waits' = [waits EXCEPT ![v] = Resting]
         /\ gate' = (gate \/ ~Living(k))
         /\ UNCHANGED <<test, spent>>

\* What a request does with the lock of its key in hand: the cache again, the gate,
\* the budget.  Refused or answered it gives back what it took; else a task starts.
Enter(v, k) ==
    IF Starts(k) THEN StartTest(v, k)
    ELSE /\ waits' = [waits EXCEPT ![v] = Resting]
         /\ UNCHANGED <<gate, test, spent>>

\* get_method_backtest(): an unanswered request takes the lock of its key, or its
\* place in line.
AskTest(v, k) ==
    LET known == IF Known(k) THEN locks[LockOf(k)] ELSE IdleLock(k)
        others == IF Known(k) THEN RemoveAt(locks, LockOf(k)) ELSE Pruned
        queues == known.holder # NoOwner \/ known.line # <<>>
    IN /\ Free(v) /\ Get(k)
       /\ \/ Living(k) /\ UNCHANGED <<waits, locks, dropped, spent, gate, test>>
          \/ /\ ~Living(k) /\ queues
             /\ waits' = [waits EXCEPT ![v] = [on |-> "lock", key |-> k, asked |-> Unread]]
             /\ locks' = Append(others, [known EXCEPT !.line = Append(@, v)])
             /\ UNCHANGED <<dropped, spent, gate, test>>
          \/ /\ ~Living(k) /\ ~queues
             /\ Enter(v, k)
             /\ locks' = Append(others, [known EXCEPT !.holder = Keeper(v, k)])
             /\ dropped' = IF Known(k) THEN dropped ELSE dropped \union Forgotten
       /\ UNCHANGED <<generation, tasks>>

\* The lock is free and its first in line wakes.
Wake(v) ==
    LET k == waits[v].key
        taken(l) == [l EXCEPT !.line = Tail(@), !.holder = Keeper(v, k)]
        turn(l) == l.holder = NoOwner /\ l.line # <<>> /\ Head(l.line) = v
    IN /\ waits[v].on = "lock" /\ Get(k) /\ Enter(v, k)
       /\ \/ \E i \in DOMAIN locks :
                 /\ turn(locks[i]) /\ locks' = [locks EXCEPT ![i] = taken(locks[i])]
                 /\ UNCHANGED dropped
          \/ \E l \in dropped :
                 /\ turn(l)
                 /\ dropped' = (dropped \ {l}) \union
                        (IF taken(l) = IdleLock(l.key) THEN {} ELSE {taken(l)})
                 /\ UNCHANGED locks
       /\ UNCHANGED <<generation, tasks>>

TestBegins ==
    /\ test.stage = "new" /\ test' = [test EXCEPT !.stage = "running", !.read = generation]
    /\ UNCHANGED <<store, pinned, generation, tasks, spent, waits, locks, dropped, gate>>

TestEnds ==
    /\ test.stage = "running" /\ test' = [test EXCEPT !.stage = "done"]
    /\ \/ AdmitIfCurrent(test.key, FALSE, test.read)
       \/ UNCHANGED <<store, pinned>>
    /\ UNCHANGED <<generation, tasks, spent, waits, locks, dropped, gate>>

\* _backtest_finished(), before its caller wakes.
TestFinished ==
    /\ test.stage = "done" /\ test' = NoTest /\ gate' = FALSE
    /\ UNCHANGED <<store, pinned, generation, tasks, spent, waits, locks, dropped>>

\* The request leaves the lock it holds; the others stay in line.
Release(v) ==
    LET left(l) == IF l.holder = v THEN [l EXCEPT !.holder = NoOwner] ELSE l
    IN /\ locks' = [i \in DOMAIN locks |-> left(locks[i])]
       /\ dropped' = {left(l) : l \in dropped} \ {IdleLock(k) : k \in Tests}

\* The back-test a request waits for is over; it gets what came of it.
Answered(v) ==
    /\ waits[v].on = "test" /\ test.owner # v
    /\ waits' = [waits EXCEPT ![v] = Resting]
    /\ Release(v)
    /\ UNCHANGED <<store, pinned, generation, tasks, spent, gate, test>>

\* A caller goes away: it leaves its place in line, or the lock, but not the gate.
LeaveLine(v) ==
    LET place(l) == CHOOSE i \in DOMAIN l.line : l.line[i] = v
        left(l) == IF v \in ToSet(l.line) THEN [l EXCEPT !.line = RemoveAt(@, place(l))] ELSE l
    IN /\ locks' = [i \in DOMAIN locks |-> left(locks[i])]
       /\ dropped' = {left(l) : l \in dropped} \ {IdleLock(k) : k \in Tests}

Disconnect(v) ==
    /\ ~Free(v) /\ waits' = [waits EXCEPT ![v] = Resting]
    /\ CASE waits[v].on = "test" -> Release(v)
         [] waits[v].on = "lock" -> LeaveLine(v)
         [] OTHER -> UNCHANGED <<locks, dropped>>
    /\ test' = IF test.owner = v THEN [test EXCEPT !.owner = NoOwner] ELSE test
    /\ UNCHANGED <<store, pinned, generation, tasks, spent, gate>>

-----------------------------------------------------------------------------
CacheStep ==
    \/ \E k \in CacheKeys : Age(k)
    \/ \E doomed \in {CacheKeys, Baselines} : Invalidate(doomed)

ScanStep ==
    \/ \E v \in Visitors, k \in Scans : AskScan(v, k)
    \/ \E t \in tasks : ScanBegins(t) \/ ScanEnds(t) \/ ScanFinished(t)
    \/ \E k \in Baselines : Prewarm(k)
    \/ MissForgotten("scan")

TestStep ==
    \/ \E v \in Visitors, k \in Tests : AskTest(v, k)
    \/ \E v \in Visitors : Wake(v) \/ Answered(v)
    \/ TestBegins \/ TestEnds \/ TestFinished
    \/ MissForgotten("test")

Leaving == \E v \in Visitors : Disconnect(v)

AdmissionNext == CacheStep \/ ScanStep \/ TestStep \/ Leaving

AdmissionSpec == AdmissionInit /\ [][AdmissionNext]_admissionVars

-----------------------------------------------------------------------------
\* "The task owns admission until it finishes, including when all its HTTP callers
\* disconnect" (scan_work.py:22-28): the slots and the gate are taken by work that
\* runs and by nothing else, and whoever waits waits for such work, or in the line
\* of a lock whose holder does.
WaitersHaveWork ==
    /\ Cardinality(tasks) <= MaxTasks
    /\ \A t, u \in tasks : t.key = u.key /\ t.asked = u.asked => t = u
    /\ gate = (test # NoTest)
    /\ \A v \in Visitors :
        /\ waits[v].on = "scan" =>
             \E t \in tasks : t.key = waits[v].key /\ t.asked = waits[v].asked
        /\ waits[v].on = "lock" =>
             \E l \in ToSet(locks) \union dropped :
                 l.key = waits[v].key /\ Contains(l.line, v)
    /\ \A l \in ToSet(locks) \union dropped :
        l.holder # NoOwner => waits[l.holder] = [on |-> "test", key |-> l.key, asked |-> Unread]

\* "Evict unpinned least-recently-used entries first so pre-warmed baseline entries
\* survive variant churn" (cache.py:165-166): without a refresh a live pinned entry
\* gives way only when every entry left is pinned as well.
BaselineSurvives ==
    generation' = generation =>
        \A k \in pinned : Living(k) /\ k \notin Present(store') => Present(store') \subseteq pinned'

BaselineOutlivesChurn == [][BaselineSurvives]_admissionVars

\* "Cache hits and joins consume no miss budget" (scan_work.py:26): a client pays
\* only for work that starts for it.
PaysForWork ==
    /\ spent'["scan"] > spent["scan"] => Cardinality(tasks') > Cardinality(tasks)
    /\ spent'["test"] > spent["test"] => ~gate /\ test'.stage = "new"

RefusalsAreFree == [][PaysForWork]_admissionVars
=============================================================================
