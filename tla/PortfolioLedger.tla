-------------------------- MODULE PortfolioLedger --------------------------
(***************************************************************************)
(* The portfolios of one account (db/portfolio_repository.py, the trade    *)
(* order and the short test of services/portfolio.py, the import plan of   *)
(* services/xtb_import.py): pages on any number of devices send changes,   *)
(* each made out from the portfolio as that page showed it; the server     *)
(* applies them one transaction at a time, under the owner's row lock.     *)
(*                                                                         *)
(* A request may be delayed, lost, and delivered any number of times (the  *)
(* page resends it unchanged after an uncertain answer), so a request once *)
(* sent stays in flight.  A page that lies open for an hour before it      *)
(* sends is the same as a request that takes an hour, so requests are made *)
(* out from the current portfolio.                                         *)
(*                                                                         *)
(* A trade keeps what the program compares: identity, moment, side and     *)
(* quantity, of one instrument.  The list of trades is abstracted to the   *)
(* set of its entries, each with the version at which it was entered:      *)
(* entries of one moment are replayed in the order they were entered, and  *)
(* the list is always sorted by moment, stably, before it is looked at, so *)
(* the sort an import saves changes nothing that could be seen.  Left out: *)
(* prices and costs, request validation, and portfolio ids that belong to  *)
(* another account.                                                        *)
(***************************************************************************)
EXTENDS Integers, FiniteSets, FiniteSetsExt

CONSTANTS
    Portfolios,       \* the ids pages may give to new portfolios
    Trades,           \* the trades that may be recorded
    Files,            \* the broker reports that may be imported
    Settings,         \* name, broker and cost method together
    NoSettings,       \* not one of them
    Workers,          \* server tasks that may be inside change()
    MaxPortfolios,    \* portfolios per account
    MaxTransactions,  \* trades per portfolio
    MaxVersion,       \* bound: the version of a portfolio
    MaxRequests       \* bound: requests sent

ASSUME LimitsAssumption ==
    /\ MaxPortfolios \in Nat
    /\ MaxTransactions \in Nat
    /\ MaxVersion \in Nat \ {0}
    /\ MaxRequests \in Nat
    /\ NoSettings \notin Settings
    /\ IsFiniteSet(Portfolios)
    /\ IsFiniteSet(Trades)

\* trade_order: a trade entered by hand has no time of day and precedes that day's
\* imported ones.
Earlier(t, u) == t.day < u.day \/ (t.day = u.day /\ t.time < u.time)

\* A trade has an identity the page or the report gave it.  No two rows of a report
\* have one identity or one moment.
ASSUME TradesAssumption ==
    /\ \A t \in Trades : /\ t.side \in {"buy", "sell"}
                         /\ t.source \in {"manual", "xtb"}
                         /\ t.quantity \in Nat \ {0}
                         /\ t.day \in Nat /\ t.time \in Nat
    /\ \A file \in Files :
           /\ file.flawed \in BOOLEAN
           /\ file.rows \subseteq Trades
           /\ \A t, u \in file.rows :
                  t # u => t.id # u.id /\ (Earlier(t, u) \/ Earlier(u, t))

VARIABLES
    book,     \* table portfolios: the row of each id
    sent,     \* the requests in flight
    working,  \* the transaction each worker has open
    answer,   \* the answer just given, if this step gave one
    gone      \* history: the portfolios deleted at least once

ledgerVars == <<book, sent, working, answer, gone>>

Entries == [trade : Trades, since : 1..MaxVersion]
Absent == [version |-> 0, settings |-> NoSettings, entries |-> {}]
Rows == {Absent} \union
    {row \in [version : 1..MaxVersion, settings : Settings, entries : SUBSET Entries] :
         \A e \in row.entries : e.since <= row.version}

\* A request carries the version of the portfolio its page showed; the rest of seen
\* is history.
Requests ==
    [op : {"create", "update"}, portfolio : Portfolios, seen : Rows, settings : Settings]
    \union [op : {"add", "remove"}, portfolio : Portfolios, seen : Rows, trade : Trades]
    \union [op : {"import"}, portfolio : Portfolios, seen : Rows, file : Files,
            partial : BOOLEAN]
    \union [op : {"delete"}, portfolio : Portfolios, seen : Rows]

NoTransaction == [pc |-> "idle"]
NoAnswer == [given |-> FALSE]

Existing == {p \in Portfolios : book[p] # Absent}

LedgerInit ==
    /\ book = [p \in Portfolios |-> Absent]
    /\ sent = {}
    /\ working = [w \in Workers |-> NoTransaction]
    /\ answer = NoAnswer
    /\ gone = {}

---------------------------------------------------------------------------
(* The pages. *)

Send(q) ==
    /\ Cardinality(sent) < MaxRequests
    /\ sent' = sent \union {q}
    /\ answer' = NoAnswer
    /\ UNCHANGED <<book, working, gone>>

\* The creation form draws a new random id, and keeps it for its retries only.
SendCreate(p, settings) ==
    /\ \A q \in sent : q.portfolio # p
    /\ Send([op |-> "create", portfolio |-> p, seen |-> Absent, settings |-> settings])

SendChange(p) ==
    /\ book[p] # Absent
    /\ \/ \E settings \in Settings :
              Send([op |-> "update", portfolio |-> p, seen |-> book[p], settings |-> settings])
       \/ \E trade \in {t \in Trades : t.source = "manual"} :
              Send([op |-> "add", portfolio |-> p, seen |-> book[p], trade |-> trade])
       \/ \E entry \in book[p].entries :
              Send([op |-> "remove", portfolio |-> p, seen |-> book[p],
                    trade |-> entry.trade])
       \/ \E file \in Files, partial \in BOOLEAN :
              Send([op |-> "import", portfolio |-> p, seen |-> book[p], file |-> file,
                    partial |-> partial])
       \/ Send([op |-> "delete", portfolio |-> p, seen |-> book[p]])

---------------------------------------------------------------------------
(* PortfolioRepository.change: the transaction begins, and later commits. *)

\* Mutant: the rows are read without FOR UPDATE.
UnlockedAlways == TRUE

\* SELECT ... FOR UPDATE of the owner's row waits for every other transaction.
Unlocked == \A w \in Workers : working[w] = NoTransaction

Begin(w, q) ==
    /\ working[w] = NoTransaction
    /\ Unlocked
    /\ book[q.portfolio].version < MaxVersion
    /\ working' = [working EXCEPT ![w] =
           [pc |-> "locked", request |-> q, row |-> book[q.portfolio],
            count |-> Cardinality(Existing)]]
    /\ answer' = NoAnswer
    /\ UNCHANGED <<book, sent, gone>>

\* The connection is lost or the process ends: the transaction is rolled back.
Abort(w) ==
    /\ working[w] # NoTransaction
    /\ working' = [working EXCEPT ![w] = NoTransaction]
    /\ answer' = NoAnswer
    /\ UNCHANGED <<book, sent, gone>>

\* holdings() replays trades by moment, and those of one moment as entered.
Replayed(e, f) ==
    Earlier(e.trade, f.trade) \/ (~Earlier(f.trade, e.trade) /\ e.since < f.since)

Signed(e) == IF e.trade.side = "buy" THEN e.trade.quantity ELSE -e.trade.quantity

\* What is held when the replay comes to e.
Position(entries, e) == MapThenSumSet(Signed, {f \in entries : Replayed(f, e)})

\* holdings() raises insufficient_shares unless every sale is covered when it is made.
Covered(entries) ==
    \A e \in entries : e.trade.side = "sell" => e.trade.quantity <= Position(entries, e)

\* Mutant: a version from the past is good enough.
KnownVersion(q, row) == q.seen.version <= row.version

\* A change is made to the portfolio its page showed, or refused as a conflict.
SameVersion(q, row) == q.seen.version = row.version

\* Mutant: a trade is looked up by all it says instead of by its id.
EqualTrade(entries, t) == {e \in entries : e.trade = t}

\* The stored trade with the id of t.
WithId(entries, t) == {e \in entries : e.trade.id = t.id}

NextVersion(row) == row.version + 1

\* The entries after t has been recorded.
Added(row, t) == row.entries \union {[trade |-> t, since |-> row.version + 1]}

\* _trade_key without the time: was this trade of a report entered by hand before?
ByHand(entries, t) ==
    \E e \in entries : /\ e.trade.source = "manual"
                       /\ e.trade.day = t.day
                       /\ e.trade.side = t.side
                       /\ e.trade.quantity = t.quantity
                       /\ e.trade.price = t.price

\* Mutant: a stored reference is a duplicate whatever its data.
ConflictingNever(row, file) == {}

\* prepare_import: a reference stored with other data, which blocks the batch,
\* a trade entered by hand, which is an error, and what is left to add.
Conflicting(row, file) ==
    {t \in file.rows : \E e \in WithId(row.entries, t) : e.trade # t}

New(row, file) == {t \in file.rows : WithId(row.entries, t) = {}}

Overlapping(row, file) == {t \in New(row, file) : ByHand(row.entries, t)}

Additions(row, file) == New(row, file) \ Overlapping(row, file)

\* Mutant: the list of a portfolio is replaced by what was added to it.
ImportedAlone(row, file) ==
    {[trade |-> t, since |-> row.version + 1] : t \in Additions(row, file)}

\* prepare_import: the ledger after an import.
Imported(row, file) ==
    row.entries \union {[trade |-> t, since |-> row.version + 1] : t \in Additions(row, file)}

\* Mutant: an import is not replayed.
ImportableUncovered(q, row) ==
    /\ row # Absent
    /\ q.file.flawed \/ Overlapping(row, q.file) # {} => q.partial
    /\ Conflicting(row, q.file) = {}
    /\ Cardinality(Imported(row, q.file)) <= MaxTransactions

\* May the report be imported: rows in error need the owner's consent.
Importable(q, row) ==
    /\ row # Absent
    /\ q.file.flawed \/ Overlapping(row, q.file) # {} => q.partial
    /\ Conflicting(row, q.file) = {}
    /\ Cardinality(Imported(row, q.file)) <= MaxTransactions
    /\ Covered(Imported(row, q.file))

\* The retries that are answered with what is stored, whatever their version.
Known(q, row) ==
    /\ row # Absent
    /\ \/ q.op = "create" /\ row.settings = q.settings
       \/ q.op = "add" /\ \E e \in row.entries : e.trade = q.trade
       \/ q.op = "import" /\ Importable(q, row) /\ Additions(row, q.file) = {}

\* The changes that are made.
Creatable(row, count) == row = Absent /\ count < MaxPortfolios

Current(q, row) == row # Absent /\ SameVersion(q, row)

Addable(q, row) ==
    /\ Current(q, row)
    /\ WithId(row.entries, q.trade) = {}
    /\ Cardinality(row.entries) < MaxTransactions
    /\ Covered(Added(row, q.trade))

Removable(q, row) ==
    /\ Current(q, row)
    /\ WithId(row.entries, q.trade) # {}
    /\ Covered(row.entries \ WithId(row.entries, q.trade))

ImportReady(q, row) ==
    Importable(q, row) /\ Additions(row, q.file) # {} /\ SameVersion(q, row)

Granted(q, row, count) ==
    \/ q.op = "create" /\ Creatable(row, count)
    \/ q.op \in {"update", "delete"} /\ Current(q, row)
    \/ q.op = "add" /\ Addable(q, row)
    \/ q.op = "remove" /\ Removable(q, row)
    \/ q.op = "import" /\ ImportReady(q, row)

Reply(w, ok) ==
    /\ working' = [working EXCEPT ![w] = NoTransaction]
    /\ answer' = [given |-> TRUE, ok |-> ok, request |-> working[w].request]
    /\ UNCHANGED sent

\* The transaction commits a new version of its row.
Save(w, settings, entries) ==
    LET row == working[w].row
    IN  /\ book' = [book EXCEPT ![working[w].request.portfolio] =
                       [version |-> NextVersion(row), settings |-> settings,
                        entries |-> entries]]
        /\ Reply(w, TRUE)
        /\ UNCHANGED gone

Serves(w, op) == working[w] # NoTransaction /\ working[w].request.op = op

Create(w) ==
    /\ Serves(w, "create")
    /\ Creatable(working[w].row, working[w].count)
    /\ Save(w, working[w].request.settings, {})

Update(w) ==
    /\ Serves(w, "update")
    /\ Current(working[w].request, working[w].row)
    /\ Save(w, working[w].request.settings, working[w].row.entries)

Add(w) ==
    /\ Serves(w, "add")
    /\ Addable(working[w].request, working[w].row)
    /\ Save(w, working[w].row.settings, Added(working[w].row, working[w].request.trade))

RemoveTrade(w) ==
    LET row == working[w].row
    IN  /\ Serves(w, "remove")
        /\ Removable(working[w].request, row)
        /\ Save(w, row.settings, row.entries \ WithId(row.entries, working[w].request.trade))

Import(w) ==
    /\ Serves(w, "import")
    /\ ImportReady(working[w].request, working[w].row)
    /\ Save(w, working[w].row.settings, Imported(working[w].row, working[w].request.file))

Delete(w) ==
    /\ Serves(w, "delete")
    /\ Current(working[w].request, working[w].row)
    /\ book' = [book EXCEPT ![working[w].request.portfolio] = Absent]
    /\ gone' = gone \union {working[w].request.portfolio}
    /\ Reply(w, TRUE)

\* Nothing is written: the request is answered from the row, or refused.
Answer(w) ==
    /\ working[w] # NoTransaction
    /\ LET q == working[w].request
           row == working[w].row
       IN  \/ Known(q, row) /\ Reply(w, TRUE)
           \/ ~Known(q, row) /\ ~Granted(q, row, working[w].count) /\ Reply(w, FALSE)
    /\ UNCHANGED <<book, gone>>

---------------------------------------------------------------------------
Pages == \E p \in Portfolios :
    SendChange(p) \/ \E settings \in Settings : SendCreate(p, settings)

Server == \E w \in Workers :
    \/ \E q \in sent : Begin(w, q)
    \/ Create(w) \/ Update(w) \/ Add(w) \/ RemoveTrade(w) \/ Import(w) \/ Delete(w)
    \/ Answer(w) \/ Abort(w)

LedgerNext == Pages \/ Server

LedgerSpec == LedgerInit /\ [][LedgerNext]_ledgerVars

---------------------------------------------------------------------------
(* Properties. *)

Transactions == [pc : {"locked"}, request : Requests, count : Nat,
                 row : {row \in Rows : row.version < MaxVersion}]

Answers == [given : {TRUE}, ok : BOOLEAN, request : Requests]

\* Every variable stays in its range, and no entry is newer than its portfolio.
LedgerTypeOK ==
    /\ book \in [Portfolios -> Rows]
    /\ sent \subseteq Requests
    /\ working \in [Workers -> {NoTransaction} \union Transactions]
    /\ answer \in {NoAnswer} \union Answers
    /\ gone \subseteq Portfolios

\* README, Personal portfolios: whatever is added late, back-dated, imported or
\* removed, replaying the ledger never sells what is not held.
NeverShort == \A p \in Portfolios : Covered(book[p].entries)

\* README: unchanged trade requests can be retried without duplicates, and
\* overlapping reports do not duplicate imported trades.
TradesOnce ==
    \A p \in Portfolios : \A e, f \in book[p].entries : e.trade.id = f.trade.id => e = f

\* The limits of an account hold although requests on every device count towards them.
WithinLimits ==
    /\ Cardinality(Existing) <= MaxPortfolios
    /\ \A p \in Portfolios : Cardinality(book[p].entries) <= MaxTransactions

Recorded(p) == {e.trade : e \in book[p].entries}

\* What a request asked for is so.
Done(q) ==
    LET row == book[q.portfolio]
    IN  CASE q.op \in {"create", "update"} -> row # Absent /\ row.settings = q.settings
          [] q.op = "add" -> q.trade \in Recorded(q.portfolio)
          [] q.op = "remove" -> row # Absent /\ WithId(row.entries, q.trade) = {}
          [] q.op = "import" ->
                 \A t \in q.file.rows : \/ t \in Recorded(q.portfolio)
                                        \/ q.partial /\ ByHand(row.entries, t)
          [] q.op = "delete" -> row = Absent

\* Whoever is told that a change was saved, by the change itself or by the answer to
\* a retry, finds it saved.
AnswersAreTrue == answer.given /\ answer.ok => Done(answer.request)

\* README: version checks prevent overwriting edits from another device.  While a
\* portfolio has never been deleted, every change to it is made by a request whose
\* page showed it exactly as it is now, however late or often that request arrives.
ChangesWhatWasSeen ==
    [][\A p \in Portfolios \ gone : book'[p] # book[p] =>
           \E w \in Workers : /\ working[w] # NoTransaction
                              /\ working'[w] = NoTransaction
                              /\ working[w].request.portfolio = p
                              /\ working[w].request.seen = book[p]]_ledgerVars

\* The portfolios as their owner sees them implement TradeLedger: what is committed
\* is always one whole edit of what was there.
Shown == [p \in Portfolios |-> [settings |-> book[p].settings, trades |-> Recorded(p)]]

Abstract == INSTANCE TradeLedger WITH ledger <- Shown

ImplementsTradeLedger == Abstract!Spec

\* The inductive invariant behind them.  One transaction is open at a time, and what it
\* read is what is stored; a request made out from the version that is stored was made
\* out from the very row that is stored, as long as versions have not started again.
LockInv ==
    /\ \A v, w \in Workers : working[v] # NoTransaction /\ working[w] # NoTransaction => v = w
    /\ \A w \in Workers : working[w] # NoTransaction =>
           /\ working[w].request \in sent
           /\ working[w].row = book[working[w].request.portfolio]
           /\ working[w].count = Cardinality(Existing)

SeenInv ==
    \A q \in sent :
        /\ q.op = "create" <=> q.seen = Absent
        /\ q.portfolio \notin gone =>
               /\ q.seen.version <= book[q.portfolio].version
               /\ q.seen.version = book[q.portfolio].version => q.seen = book[q.portfolio]

LedgerInv == LockInv /\ SeenInv /\ NeverShort /\ TradesOnce /\ WithinLimits
=============================================================================
