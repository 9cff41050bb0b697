----------------------- MODULE PortfolioLedger_proofs -----------------------
(***************************************************************************)
(* Proofs about PortfolioLedger, for any trades, reports, settings, limits *)
(* and any number of portfolios, requests in flight and server tasks.  The *)
(* argument: while one transaction at a time is open (LockInv), what it    *)
(* read is what it writes over, so each write can be judged on its own     *)
(* (EachWrite); and versions only grow within a portfolio's first life, so *)
(* a request whose version is the stored one has seen the stored row       *)
(* (SeenInv).                                                              *)
(***************************************************************************)
EXTENDS PortfolioLedger, FiniteSetTheorems, TLAPS

Unique(entries) == \A e, f \in entries : e.trade.id = f.trade.id => e = f

Writes(w) == Create(w) \/ Update(w) \/ Add(w) \/ RemoveTrade(w) \/ Import(w) \/ Delete(w)

\* Facts about numbers and sizes.
LEMMA Numbers ==
  ASSUME LimitsAssumption
  PROVE  /\ MaxVersion \in Nat /\ MaxVersion > 0
         /\ MaxPortfolios \in Nat /\ MaxTransactions \in Nat
         /\ \A n \in 1..MaxVersion : n \in Nat /\ n > 0 /\ n <= MaxVersion
         /\ \A n \in Nat : n > 0 /\ n <= MaxVersion => n \in 1..MaxVersion
BY DEF LimitsAssumption

\* There are finitely many entries, so every ledger has a size.
LEMMA EntriesAreFinite ==
  ASSUME LimitsAssumption
  PROVE  IsFiniteSet(Entries)
<1> DEFINE Pairs == Trades \X (1..MaxVersion)
           f == [e \in Entries |-> <<e.trade, e.since>>]
<1>0. IsFiniteSet(1..MaxVersion)
  <2>1. 1 \in Int /\ MaxVersion \in Int
    BY Numbers
  <2> QED BY <2>1, FS_Interval
<1>1. IsFiniteSet(Pairs)
  BY <1>0, FS_Product DEF LimitsAssumption
<1>2. f \in [Entries -> Pairs]
  BY DEF Entries
<1>3. \A d, e \in Entries : f[d] = f[e] => d = e
  BY DEF Entries
<1>4. f \in Injection(Entries, Pairs)
  BY <1>2, <1>3 DEF Injection, IsInjective
<1> QED BY <1>1, <1>4, FS_Injection

\* What a row is.
LEMMA RowFacts ==
  ASSUME LimitsAssumption, NEW row \in Rows
  PROVE  /\ row.version \in Nat /\ row.version <= MaxVersion
         /\ row.version = 0 <=> row = Absent
         /\ row # Absent => row.settings \in Settings
         /\ row.entries \in SUBSET Entries
         /\ \A e \in row.entries : e.since <= row.version
         /\ IsFiniteSet(row.entries) /\ Cardinality(row.entries) \in Nat
<1>1. IsFiniteSet(row.entries) /\ Cardinality(row.entries) \in Nat
  <2>1. row.entries \in SUBSET Entries
    BY DEF Rows, Absent
  <2> QED BY <2>1, EntriesAreFinite, FS_Subset, FS_CardinalityType
<1> QED BY <1>1, Numbers DEF Rows, Absent

\* A row at its next version, with entries that are no newer.
LEMMA SavedRow ==
  ASSUME LimitsAssumption, NEW row \in Rows, row.version < MaxVersion,
         NEW settings \in Settings, NEW entries \in SUBSET Entries,
         \A e \in entries : e.since <= row.version + 1
  PROVE  [version |-> NextVersion(row), settings |-> settings, entries |-> entries] \in Rows
<1>1. row.version + 1 \in 1..MaxVersion
  BY RowFacts, Numbers
<1> QED BY <1>1 DEF Rows, NextVersion

\* What a request is.
LEMMA RequestFacts ==
  ASSUME NEW q \in Requests
  PROVE  /\ q.portfolio \in Portfolios /\ q.seen \in Rows
         /\ q.op \in {"create", "update", "add", "remove", "import", "delete"}
         /\ q.op \in {"create", "update"} => q.settings \in Settings
         /\ q.op \in {"add", "remove"} => q.trade \in Trades
         /\ q.op = "import" => q.file \in Files /\ q.partial \in BOOLEAN
BY DEF Requests

\* What an open transaction holds.
LEMMA OpenFacts ==
  ASSUME LedgerTypeOK, NEW w \in Workers, working[w] # NoTransaction
  PROVE  /\ working[w].request \in Requests
         /\ working[w].row \in Rows /\ working[w].row.version < MaxVersion
         /\ working[w].count \in Nat
BY DEF LedgerTypeOK, Transactions

\* The portfolios of an account can be counted.
LEMMA ExistingIsFinite ==
  ASSUME LimitsAssumption
  PROVE  IsFiniteSet(Existing) /\ Cardinality(Existing) \in Nat
<1>1. Existing \in SUBSET Portfolios
  BY DEF Existing
<1> QED BY <1>1, FS_Subset, FS_CardinalityType DEF LimitsAssumption

\* Recording trades that are new to a row, each under a different id.
LEMMA AddingFresh ==
  ASSUME LimitsAssumption, NEW row \in Rows, row.version < MaxVersion,
         NEW new \in SUBSET Trades,
         \A t \in new : WithId(row.entries, t) = {},
         \A t, u \in new : t # u => t.id # u.id,
         Unique(row.entries)
  PROVE  LET entries == row.entries \union {[trade |-> t, since |-> row.version + 1] : t \in new}
         IN  /\ entries \in SUBSET Entries
             /\ \A e \in entries : e.since <= row.version + 1
             /\ Unique(entries)
<1> DEFINE added == {[trade |-> t, since |-> row.version + 1] : t \in new}
           entries == row.entries \union added
<1>1. row.version + 1 \in 1..MaxVersion
  BY RowFacts, Numbers
<1>2. added \in SUBSET Entries
  BY <1>1 DEF Entries
<1>3. entries \in SUBSET Entries
  BY <1>2, RowFacts
<1>4. \A e \in entries : e.since <= row.version + 1
  <2> SUFFICES ASSUME NEW e \in entries PROVE e.since <= row.version + 1
    OBVIOUS
  <2>1. CASE e \in added
    BY <2>1, RowFacts
  <2>2. CASE e \in row.entries
    <3>1. e.since \in Nat /\ e.since <= row.version /\ row.version \in Nat
      BY <2>2, RowFacts, Numbers DEF Entries
    <3> QED BY <3>1
  <2> QED BY <2>1, <2>2
<1>5. Unique(entries)
  <2> SUFFICES ASSUME NEW e \in entries, NEW f \in entries, e.trade.id = f.trade.id
               PROVE  e = f
    BY DEF Unique
  <2>1. CASE e \in row.entries /\ f \in row.entries
    BY <2>1 DEF Unique
  <2>2. CASE e \in added /\ f \in added
    BY <2>2
  <2>3. CASE e \in row.entries /\ f \in added
    BY <2>3 DEF WithId
  <2>4. CASE e \in added /\ f \in row.entries
    BY <2>4 DEF WithId
  <2> QED BY <2>1, <2>2, <2>3, <2>4
<1> QED BY <1>3, <1>4, <1>5

---------------------------------------------------------------------------
(* What each write does to the row it writes. *)

\* The transaction of w commits row.
Commits(w, row) ==
    LET q == working[w].request
        p == q.portfolio
    IN  /\ working[w] # NoTransaction
        /\ book' = [book EXCEPT ![p] = row]
        /\ Covered(row.entries)
        /\ Unique(row.entries)
        /\ Cardinality(row.entries) <= MaxTransactions
        /\ \/ row.version > book[p].version /\ gone' = gone
           \/ row = Absent /\ gone' = gone \union {p}
        /\ book[p] = Absent => q.op = "create" /\ Cardinality(Existing) < MaxPortfolios
        /\ book[p] # Absent => q.seen.version = book[p].version
        /\ working' = [working EXCEPT ![w] = NoTransaction]
        /\ sent' = sent
        /\ answer' = [given |-> TRUE, ok |-> TRUE, request |-> q]

\* Every write commits a row that keeps each promise about one portfolio, over the row it read.
LEMMA EachWrite ==
  ASSUME LimitsAssumption, TradesAssumption, LedgerTypeOK, LedgerInv,
         NEW w \in Workers, Writes(w)
  PROVE  \E row \in Rows : Commits(w, row)
<1> DEFINE q == working[w].request
           p == q.portfolio
           row == working[w].row
<1>1. working[w] # NoTransaction
  BY DEF Writes, Create, Update, Add, RemoveTrade, Import, Delete, Serves
<1>2. /\ q \in Requests /\ row \in Rows /\ row.version < MaxVersion
      /\ row = book[p] /\ working[w].count = Cardinality(Existing)
      /\ p \in Portfolios
  BY <1>1, OpenFacts, RequestFacts DEF LedgerInv, LockInv
<1>3. /\ Covered(row.entries) /\ Unique(row.entries)
      /\ Cardinality(row.entries) <= MaxTransactions
  BY <1>2 DEF LedgerInv, NeverShort, TradesOnce, WithinLimits, Unique
<1>4. /\ row.entries \in SUBSET Entries /\ row.version \in Nat
      /\ \A e \in row.entries : e.since \in Nat /\ e.since <= row.version + 1
      /\ IsFiniteSet(row.entries) /\ Cardinality(row.entries) \in Nat
  <2>1. \A e \in row.entries : e.since \in Nat /\ e.since <= row.version
    BY <1>2, RowFacts, Numbers DEF Entries
  <2> QED BY <1>2, <2>1, RowFacts
<1> DEFINE Saved(settings, entries) ==
             [version |-> NextVersion(row), settings |-> settings, entries |-> entries]
<1>5. ASSUME NEW settings \in Settings, NEW entries \in SUBSET Entries,
             \A e \in entries : e.since <= row.version + 1,
             Covered(entries), Unique(entries), Cardinality(entries) <= MaxTransactions,
             Save(w, settings, entries),
             row = Absent => q.op = "create" /\ working[w].count < MaxPortfolios,
             row # Absent => q.seen.version = row.version
      PROVE  \E new \in Rows : Commits(w, new)
  <2>1. Saved(settings, entries) \in Rows
    BY <1>2, <1>5, SavedRow
  <2>2. Saved(settings, entries).version > book[p].version
    BY <1>2, <1>4 DEF NextVersion
  <2>3. Commits(w, Saved(settings, entries))
    BY <1>1, <1>2, <1>5, <2>2 DEF Commits, Save, Reply
  <2> QED BY <2>1, <2>3
<1>6. CASE Create(w)
  <2>1. /\ q.op = "create" /\ row = Absent /\ working[w].count < MaxPortfolios
        /\ Save(w, q.settings, {}) /\ q.settings \in Settings
    BY <1>2, <1>6, RequestFacts DEF Create, Serves, Creatable
  <2>2. Covered({}) /\ Unique({}) /\ Cardinality({}) <= MaxTransactions
    BY FS_EmptySet, Numbers DEF Covered, Unique
  <2> QED BY <1>5, <2>1, <2>2
<1>7. CASE Update(w)
  <2>1. /\ row # Absent /\ q.seen.version = row.version
        /\ Save(w, q.settings, row.entries) /\ q.settings \in Settings
    BY <1>2, <1>7, RequestFacts DEF Update, Serves, Current, SameVersion
  <2> QED BY <1>3, <1>4, <1>5, <2>1
<1>8. CASE Add(w)
  <2>1. /\ row # Absent /\ q.seen.version = row.version
        /\ Save(w, row.settings, Added(row, q.trade)) /\ q.trade \in Trades
        /\ WithId(row.entries, q.trade) = {} /\ Covered(Added(row, q.trade))
        /\ Cardinality(row.entries) < MaxTransactions
    BY <1>2, <1>8, RequestFacts DEF Add, Serves, Addable, Current, SameVersion
  <2>2. Added(row, q.trade) =
          row.entries \union {[trade |-> t, since |-> row.version + 1] : t \in {q.trade}}
    BY DEF Added
  <2>3. /\ Added(row, q.trade) \in SUBSET Entries /\ Unique(Added(row, q.trade))
        /\ \A e \in Added(row, q.trade) : e.since <= row.version + 1
    BY <1>2, <1>3, <2>1, <2>2, AddingFresh
  <2>4. Cardinality(Added(row, q.trade)) <= MaxTransactions
    <3> DEFINE one == [trade |-> q.trade, since |-> row.version + 1]
               old == Cardinality(row.entries)
    <3>1. Cardinality(row.entries \union {one}) \in {old, old + 1}
      BY <1>4, FS_AddElement
    <3>2. old \in Nat /\ old < MaxTransactions
      BY <1>4, <2>1
    <3>3. Cardinality(row.entries \union {one}) <= MaxTransactions
      BY <3>1, <3>2, Numbers
    <3> QED BY <3>3 DEF Added
  <2> QED BY <1>2, <1>5, <2>1, <2>3, <2>4, RowFacts
<1>9. CASE RemoveTrade(w)
  <2> DEFINE rest == row.entries \ WithId(row.entries, q.trade)
  <2>1. /\ row # Absent /\ q.seen.version = row.version
        /\ Save(w, row.settings, rest) /\ Covered(rest)
    BY <1>9 DEF RemoveTrade, Removable, Current, SameVersion
  <2>2. Cardinality(rest) <= MaxTransactions
    <3>1. Cardinality(rest) \in Nat /\ Cardinality(rest) <= Cardinality(row.entries)
      BY <1>4, FS_Subset, FS_CardinalityType
    <3> QED BY <1>3, <1>4, <3>1, Numbers
  <2>3. Unique(rest)
    BY <1>3 DEF Unique
  <2> QED BY <1>2, <1>4, <1>5, <2>1, <2>2, <2>3, RowFacts
<1>10. CASE Import(w)
  <2> DEFINE new == Additions(row, q.file)
  <2>1. /\ row # Absent /\ q.seen.version = row.version
        /\ Save(w, row.settings, Imported(row, q.file)) /\ q.file \in Files
        /\ Covered(Imported(row, q.file))
        /\ Cardinality(Imported(row, q.file)) <= MaxTransactions
    BY <1>2, <1>10, RequestFacts DEF Import, Serves, ImportReady, Importable, SameVersion
  <2>2. /\ new \in SUBSET Trades
        /\ \A t \in new : WithId(row.entries, t) = {}
        /\ \A t, u \in new : t # u => t.id # u.id
    BY <2>1 DEF TradesAssumption, Additions, New, Overlapping
  <2>3. /\ Imported(row, q.file) \in SUBSET Entries /\ Unique(Imported(row, q.file))
        /\ \A e \in Imported(row, q.file) : e.since <= row.version + 1
    BY <1>2, <1>3, <2>2, AddingFresh DEF Imported
  <2> QED BY <1>2, <1>5, <2>1, <2>3, RowFacts
<1>11. CASE Delete(w)
  <2>1. Absent \in Rows /\ Absent.entries = {}
    BY DEF Rows, Absent
  <2>2. Covered({}) /\ Unique({}) /\ Cardinality({}) <= MaxTransactions
    BY FS_EmptySet, Numbers DEF Covered, Unique
  <2>3. Commits(w, Absent)
    BY <1>1, <1>2, <1>11, <2>1, <2>2
    DEF Commits, Delete, Current, SameVersion, Reply
  <2> QED BY <2>1, <2>3
<1> QED BY <1>6, <1>7, <1>8, <1>9, <1>10, <1>11 DEF Writes

---------------------------------------------------------------------------
(* Type correctness. *)

\* An account without portfolios is in range.
LEMMA TypeInit ==
  ASSUME LimitsAssumption, LedgerInit
  PROVE  LedgerTypeOK
BY DEF LedgerInit, LedgerTypeOK, Rows

\* A step of the pages: one request is sent, for the row as it is.
LEMMA EachSend ==
  ASSUME LimitsAssumption, LedgerTypeOK, Pages
  PROVE  \E q \in Requests :
           /\ sent' = sent \union {q} /\ answer' = NoAnswer
           /\ UNCHANGED <<book, working, gone>>
           /\ \/ q.op = "create" /\ q.seen = Absent
              \/ q.op # "create" /\ q.seen = book[q.portfolio] /\ q.seen # Absent
           /\ q.op = "create" => \A r \in sent : r.portfolio # q.portfolio
<1> PICK p \in Portfolios :
      SendChange(p) \/ \E settings \in Settings : SendCreate(p, settings)
  BY DEF Pages
<1>1. Absent \in Rows /\ book[p] \in Rows
  BY DEF Rows, LedgerTypeOK
<1>2. ASSUME NEW settings \in Settings, SendCreate(p, settings)
      PROVE  \E q \in Requests :
               /\ sent' = sent \union {q} /\ answer' = NoAnswer
               /\ UNCHANGED <<book, working, gone>>
               /\ q.op = "create" /\ q.seen = Absent
               /\ \A r \in sent : r.portfolio # q.portfolio
  <2> DEFINE q == [op |-> "create", portfolio |-> p, seen |-> Absent, settings |-> settings]
  <2>1. q \in Requests
    BY <1>1 DEF Requests
  <2> QED BY <1>2, <2>1 DEF SendCreate, Send
<1>3. CASE SendChange(p)
  <2>1. \E q \in Requests : Send(q) /\ q.op # "create" /\ q.portfolio = p /\ q.seen = book[p]
    <3> DEFINE Sends(q) == q \in Requests /\ Send(q) /\ q.op # "create"
                           /\ q.portfolio = p /\ q.seen = book[p]
    <3>1. ASSUME NEW settings \in Settings,
                 Send([op |-> "update", portfolio |-> p, seen |-> book[p],
                       settings |-> settings])
          PROVE  \E q : Sends(q)
      <4> DEFINE q == [op |-> "update", portfolio |-> p, seen |-> book[p],
                       settings |-> settings]
      <4>1. Sends(q)
        BY <1>1, <3>1 DEF Requests
      <4> QED BY <4>1
    <3>2. ASSUME NEW trade \in Trades, NEW op \in {"add", "remove"},
                 Send([op |-> op, portfolio |-> p, seen |-> book[p], trade |-> trade])
          PROVE  \E q : Sends(q)
      <4> DEFINE q == [op |-> op, portfolio |-> p, seen |-> book[p], trade |-> trade]
      <4>1. Sends(q)
        BY <1>1, <3>2 DEF Requests
      <4> QED BY <4>1
    <3>3. ASSUME NEW file \in Files, NEW partial \in BOOLEAN,
                 Send([op |-> "import", portfolio |-> p, seen |-> book[p], file |-> file,
                       partial |-> partial])
          PROVE  \E q : Sends(q)
      <4> DEFINE q == [op |-> "import", portfolio |-> p, seen |-> book[p], file |-> file,
                       partial |-> partial]
      <4>1. Sends(q)
        BY <1>1, <3>3 DEF Requests
      <4> QED BY <4>1
    <3>4. ASSUME Send([op |-> "delete", portfolio |-> p, seen |-> book[p]])
          PROVE  \E q : Sends(q)
      <4> DEFINE q == [op |-> "delete", portfolio |-> p, seen |-> book[p]]
      <4>1. Sends(q)
        BY <1>1, <3>4 DEF Requests
      <4> QED BY <4>1
    <3>5. \A entry \in book[p].entries : entry.trade \in Trades
      BY <1>1, RowFacts DEF Entries
    <3> HIDE DEF Sends
    <3>6. \E q : Sends(q)
      BY <1>3, <3>1, <3>2, <3>3, <3>4, <3>5 DEF SendChange
    <3> QED BY <3>6 DEF Sends
  <2>2. PICK q \in Requests :
          Send(q) /\ q.op # "create" /\ q.portfolio = p /\ q.seen = book[p]
    BY <2>1
  <2>3. q.seen # Absent
    BY <1>3, <2>2 DEF SendChange
  <2> QED BY <2>2, <2>3 DEF Send
<1> QED BY <1>2, <1>3

\* No step leaves the range of a variable.
LEMMA TypeStep ==
  ASSUME LimitsAssumption, TradesAssumption, LedgerTypeOK, LedgerInv, [LedgerNext]_ledgerVars
  PROVE  LedgerTypeOK'
<1>1. CASE Pages
  <2> PICK q \in Requests : sent' = sent \union {q} /\ answer' = NoAnswer
                            /\ UNCHANGED <<book, working, gone>>
    BY <1>1, EachSend
  <2> QED BY DEF LedgerTypeOK
<1>2. ASSUME NEW w \in Workers, NEW q \in sent, Begin(w, q)
      PROVE  LedgerTypeOK'
  <2>1. q \in Requests /\ q.portfolio \in Portfolios /\ book[q.portfolio] \in Rows
    BY RequestFacts DEF LedgerTypeOK
  <2> DEFINE tx == [pc |-> "locked", request |-> q, row |-> book[q.portfolio],
                    count |-> Cardinality(Existing)]
  <2>2. tx \in Transactions
    BY <1>2, <2>1, ExistingIsFinite DEF Begin, Transactions
  <2>3. working' = [working EXCEPT ![w] = tx]
    BY <1>2 DEF Begin
  <2> HIDE DEF tx
  <2> QED BY <1>2, <2>2, <2>3 DEF Begin, LedgerTypeOK
<1>3. ASSUME NEW w \in Workers, Writes(w)
      PROVE  LedgerTypeOK'
  <2> PICK row \in Rows : Commits(w, row)
    BY <1>3, EachWrite
  <2>1. working[w].request \in Requests /\ working[w].request.portfolio \in Portfolios
    BY OpenFacts, RequestFacts DEF Commits
  <2>2. book' \in [Portfolios -> Rows] /\ gone' \subseteq Portfolios
    BY <2>1 DEF Commits, LedgerTypeOK
  <2>3. working' \in [Workers -> {NoTransaction} \union Transactions] /\ answer' \in Answers
    BY <2>1 DEF Commits, LedgerTypeOK, Answers
  <2> QED BY <2>2, <2>3 DEF Commits, LedgerTypeOK
<1>4. ASSUME NEW w \in Workers, Answer(w)
      PROVE  LedgerTypeOK'
  <2>1. working[w].request \in Requests
    BY <1>4, OpenFacts DEF Answer
  <2>2. PICK ok \in BOOLEAN : Reply(w, ok) /\ UNCHANGED <<book, gone>>
    BY <1>4 DEF Answer
  <2>3. answer' \in Answers
    BY <2>1, <2>2 DEF Reply, Answers
  <2> QED BY <2>2, <2>3 DEF Reply, LedgerTypeOK
<1>5. ASSUME NEW w \in Workers, Abort(w)
      PROVE  LedgerTypeOK'
  BY <1>5 DEF Abort, LedgerTypeOK
<1>6. CASE UNCHANGED ledgerVars
  BY <1>6 DEF ledgerVars, LedgerTypeOK
<1> QED BY <1>1, <1>2, <1>3, <1>4, <1>5, <1>6 DEF LedgerNext, Server, Writes

---------------------------------------------------------------------------
(* The inductive invariant. *)

\* The invariant holds of an account without portfolios.
LEMMA InvInit ==
  ASSUME LimitsAssumption, LedgerInit
  PROVE  LedgerInv
<1>1. LockInv /\ SeenInv
  BY DEF LedgerInit, LockInv, SeenInv
<1>2. NeverShort /\ TradesOnce
  BY DEF LedgerInit, NeverShort, TradesOnce, Covered, Absent
<1>3. WithinLimits
  <2>1. Existing = {}
    BY DEF LedgerInit, Existing
  <2>2. \A p \in Portfolios : book[p].entries = {}
    BY DEF LedgerInit, Absent
  <2>3. Cardinality({}) = 0 /\ 0 <= MaxPortfolios /\ 0 <= MaxTransactions
    BY FS_EmptySet, Numbers
  <2>4. Cardinality(Existing) <= MaxPortfolios
    BY <2>1, <2>3
  <2>5. \A p \in Portfolios : Cardinality(book[p].entries) <= MaxTransactions
    BY <2>2, <2>3
  <2> QED BY <2>4, <2>5 DEF WithinLimits
<1> QED BY <1>1, <1>2, <1>3 DEF LedgerInv

\* A committed row keeps the promises that are about one portfolio.
LEMMA RowsStep ==
  ASSUME LimitsAssumption, LedgerTypeOK, LedgerInv,
         NEW w \in Workers, NEW row \in Rows, Commits(w, row)
  PROVE  NeverShort' /\ TradesOnce' /\ WithinLimits'
<1> DEFINE p == working[w].request.portfolio
<1>1. p \in Portfolios /\ book \in [Portfolios -> Rows]
  BY OpenFacts, RequestFacts DEF Commits, LedgerTypeOK
<1>2. book' = [book EXCEPT ![p] = row]
  BY DEF Commits
<1>3. NeverShort'
  <2>1. \A r \in Portfolios : book'[r].entries = IF r = p THEN row.entries ELSE book[r].entries
    BY <1>1, <1>2
  <2>2. \A r \in Portfolios : Covered(book'[r].entries)
    BY <2>1 DEF Commits, LedgerInv, NeverShort
  <2> QED BY <2>2 DEF NeverShort, Covered, Position, Replayed
<1>4. TradesOnce'
  BY <1>1, <1>2 DEF Commits, LedgerInv, TradesOnce, Unique
<1>5. \A r \in Portfolios : Cardinality(book'[r].entries) <= MaxTransactions
  BY <1>1, <1>2 DEF Commits, LedgerInv, WithinLimits
<1>6. Cardinality(Existing') <= MaxPortfolios
  <2>1. IsFiniteSet(Existing) /\ Cardinality(Existing) \in Nat
        /\ Cardinality(Existing) <= MaxPortfolios
    BY ExistingIsFinite DEF LedgerInv, WithinLimits
  <2>2. CASE book[p] = Absent
    <3>1. Cardinality(Existing) < MaxPortfolios
      BY <2>2 DEF Commits
    <3>2. Existing' = Existing \/ Existing' = Existing \union {p}
      BY <1>1, <1>2, <2>2 DEF Existing
    <3>3. Cardinality(Existing \union {p}) \in {Cardinality(Existing), Cardinality(Existing) + 1}
      BY <2>1, FS_AddElement
    <3> QED BY <2>1, <3>1, <3>2, <3>3, Numbers
  <2>3. CASE book[p] # Absent
    <3>1. Existing' \in SUBSET Existing
      BY <1>1, <1>2, <2>3 DEF Existing
    <3>2. Cardinality(Existing') \in Nat /\ Cardinality(Existing') <= Cardinality(Existing)
      BY <2>1, <3>1, FS_Subset, FS_CardinalityType
    <3> QED BY <2>1, <3>2, Numbers
  <2> QED BY <2>2, <2>3
<1> QED BY <1>3, <1>4, <1>5, <1>6 DEF WithinLimits

\* At most one transaction is open, and what it read stays what is stored.
LEMMA LockStep ==
  ASSUME LimitsAssumption, TradesAssumption, LedgerTypeOK, LedgerInv, [LedgerNext]_ledgerVars
  PROVE  LockInv'
<1> USE DEF LedgerInv
<1>1. CASE Pages
  <2> PICK q \in Requests : sent' = sent \union {q} /\ UNCHANGED <<book, working, gone>>
    BY <1>1, EachSend
  <2> QED BY DEF LockInv, Existing
<1>2. ASSUME NEW w \in Workers, NEW q \in sent, Begin(w, q)
      PROVE  LockInv'
  BY <1>2 DEF Begin, Unlocked, LockInv, Existing, LedgerTypeOK, NoTransaction
<1>3. ASSUME NEW w \in Workers, working[w] # NoTransaction,
             working' = [working EXCEPT ![w] = NoTransaction]
      PROVE  LockInv'
  <2>1. \A v \in Workers : working'[v] = NoTransaction
    BY <1>3 DEF LockInv, LedgerTypeOK
  <2> QED BY <2>1 DEF LockInv
<1>4. ASSUME NEW w \in Workers, Writes(w)
      PROVE  LockInv'
  <2> PICK row \in Rows : Commits(w, row)
    BY <1>4, EachWrite
  <2> QED BY <1>3 DEF Commits
<1>5. ASSUME NEW w \in Workers, Answer(w) \/ Abort(w)
      PROVE  LockInv'
  BY <1>3, <1>5 DEF Answer, Abort, Reply
<1>6. CASE UNCHANGED ledgerVars
  BY <1>6 DEF ledgerVars, LockInv, Existing
<1> QED BY <1>1, <1>2, <1>4, <1>5, <1>6 DEF LedgerNext, Server, Writes

\* A request that carries the stored version has seen the stored row.
LEMMA SeenStep ==
  ASSUME LimitsAssumption, TradesAssumption, LedgerTypeOK, LedgerInv, [LedgerNext]_ledgerVars
  PROVE  SeenInv'
<1> USE DEF LedgerInv
<1>1. CASE Pages
  <2> PICK q \in Requests :
        /\ sent' = sent \union {q} /\ UNCHANGED <<book, working, gone>>
        /\ \/ q.op = "create" /\ q.seen = Absent
           \/ q.op # "create" /\ q.seen = book[q.portfolio] /\ q.seen # Absent
    BY <1>1, EachSend
  <2>1. q.op = "create" <=> q.seen = Absent
    OBVIOUS
  <2>2. /\ q.seen.version <= book[q.portfolio].version
        /\ q.seen.version = book[q.portfolio].version => q.seen = book[q.portfolio]
    <3>1. book[q.portfolio] \in Rows /\ q.seen \in Rows
      BY RequestFacts DEF LedgerTypeOK
    <3>2. book[q.portfolio].version \in Nat
      BY <3>1, RowFacts
    <3>3. CASE q.seen = Absent
      <4>1. Absent.version = 0
        BY DEF Absent
      <4>2. book[q.portfolio].version = 0 => book[q.portfolio] = Absent
        BY <3>1, RowFacts
      <4> QED BY <3>2, <3>3, <4>1, <4>2
    <3>4. CASE q.seen = book[q.portfolio]
      BY <3>2, <3>4
    <3> QED BY <3>3, <3>4
  <2> QED BY <2>1, <2>2 DEF SeenInv
<1>2. ASSUME NEW w \in Workers, Writes(w)
      PROVE  SeenInv'
  <2> PICK row \in Rows : Commits(w, row)
    BY <1>2, EachWrite
  <2> DEFINE p == working[w].request.portfolio
  <2>1. p \in Portfolios /\ book \in [Portfolios -> Rows] /\ book' = [book EXCEPT ![p] = row]
    BY OpenFacts, RequestFacts DEF Commits, LedgerTypeOK
  <2> SUFFICES ASSUME NEW q \in sent
               PROVE  /\ q.op = "create" <=> q.seen = Absent
                      /\ q.portfolio \notin gone' =>
                           /\ q.seen.version <= book'[q.portfolio].version
                           /\ q.seen.version = book'[q.portfolio].version
                                => q.seen = book'[q.portfolio]
    BY DEF Commits, SeenInv
  <2>2. q.portfolio \in Portfolios /\ q.seen \in Rows
    BY RequestFacts DEF LedgerTypeOK
  <2>3. CASE q.portfolio # p
    BY <2>1, <2>2, <2>3 DEF Commits, SeenInv
  <2>4. CASE q.portfolio = p
    <3>1. CASE gone' = gone \union {p}
      BY <2>4, <3>1 DEF SeenInv
    <3>2. CASE row.version > book[p].version /\ gone' = gone
      <4>1. book'[p] = row
        BY <2>1
      <4>2. q.seen.version \in Nat /\ row.version \in Nat /\ book[p].version \in Nat
        BY <2>1, <2>2, RowFacts
      <4>3. p \notin gone' => q.seen.version < row.version
        BY <2>4, <3>2, <4>2 DEF SeenInv
      <4> QED BY <2>4, <4>1, <4>2, <4>3 DEF SeenInv
    <3> QED BY <3>1, <3>2 DEF Commits
  <2> QED BY <2>3, <2>4
<1>3. ASSUME NEW w \in Workers,
             (\E q \in sent : Begin(w, q)) \/ Answer(w) \/ Abort(w)
      PROVE  SeenInv'
  BY <1>3 DEF Begin, Answer, Abort, Reply, SeenInv
<1>4. CASE UNCHANGED ledgerVars
  BY <1>4 DEF ledgerVars, SeenInv
<1> QED BY <1>1, <1>2, <1>3, <1>4 DEF LedgerNext, Server, Writes

\* What a step does to the table: one write, or nothing.
LEMMA BookStep ==
  ASSUME LimitsAssumption, TradesAssumption, LedgerTypeOK, LedgerInv, [LedgerNext]_ledgerVars
  PROVE  (\E w \in Workers : Writes(w)) \/ book' = book
<1>1. CASE Pages
  BY <1>1, EachSend
<1>2. ASSUME NEW w \in Workers,
             (\E q \in sent : Begin(w, q)) \/ Answer(w) \/ Abort(w)
      PROVE  book' = book
  BY <1>2 DEF Begin, Answer, Abort
<1> QED BY <1>1, <1>2 DEF LedgerNext, Server, Writes, ledgerVars

\* The invariant is inductive.
LEMMA InvStep ==
  ASSUME LimitsAssumption, TradesAssumption, LedgerTypeOK, LedgerInv, [LedgerNext]_ledgerVars
  PROVE  LedgerInv'
<1>1. CASE \E w \in Workers : Writes(w)
  <2> PICK w \in Workers : Writes(w)
    BY <1>1
  <2> PICK row \in Rows : Commits(w, row)
    BY EachWrite
  <2> QED BY LockStep, SeenStep, RowsStep DEF LedgerInv
<1>2. CASE book' = book
  <2>1. NeverShort' /\ TradesOnce' /\ WithinLimits'
    BY <1>2 DEF LedgerInv, NeverShort, TradesOnce, WithinLimits, Existing, Covered, Position,
                Replayed
  <2> QED BY <2>1, LockStep, SeenStep DEF LedgerInv
<1> QED BY <1>1, <1>2, BookStep

---------------------------------------------------------------------------
(* The theorems. *)

\* The table, the requests in flight and the open transactions stay in range, and the
\* inductive invariant holds, in every state change() can bring about.
THEOREM LedgerIsInvariant == LedgerSpec => [](LedgerTypeOK /\ LedgerInv)
<1>1. LedgerInit => LedgerTypeOK /\ LedgerInv
  BY TypeInit, InvInit, LimitsAssumption
<1>2. LedgerTypeOK /\ LedgerInv /\ [LedgerNext]_ledgerVars => (LedgerTypeOK /\ LedgerInv)'
  BY TypeStep, InvStep, LimitsAssumption, TradesAssumption
<1> QED BY <1>1, <1>2, PTL DEF LedgerSpec

\* Every variable stays in its range, and no entry is newer than its portfolio.
THEOREM TypeCorrect == LedgerSpec => []LedgerTypeOK
BY LedgerIsInvariant, PTL

\* No edit, removal or import, late or repeated, leaves a ledger that sells more than is held.
THEOREM NeverSellsShort == LedgerSpec => []NeverShort
<1>1. LedgerInv => NeverShort
  BY DEF LedgerInv
<1> QED BY <1>1, LedgerIsInvariant, PTL

\* However often a trade or a report is sent again, no identity is recorded twice.
THEOREM RetriesAddOnce == LedgerSpec => []TradesOnce
<1>1. LedgerInv => TradesOnce
  BY DEF LedgerInv
<1> QED BY <1>1, LedgerIsInvariant, PTL

\* The limits on portfolios and trades hold whatever requests meet.
THEOREM LimitsHold == LedgerSpec => []WithinLimits
<1>1. LedgerInv => WithinLimits
  BY DEF LedgerInv
<1> QED BY <1>1, LedgerIsInvariant, PTL

\* A portfolio that was never deleted is changed only by a request that saw it as it is.
THEOREM ChangesAreInformed == LedgerSpec => ChangesWhatWasSeen
<1> DEFINE Informed == \A p \in Portfolios \ gone : book'[p] # book[p] =>
             \E w \in Workers : /\ working[w] # NoTransaction
                                /\ working'[w] = NoTransaction
                                /\ working[w].request.portfolio = p
                                /\ working[w].request.seen = book[p]
<1>1. ASSUME LedgerTypeOK, LedgerInv, [LedgerNext]_ledgerVars
      PROVE  Informed
  <2>1. CASE \E w \in Workers : Writes(w)
    <3> PICK w \in Workers : Writes(w)
      BY <2>1
    <3> PICK row \in Rows : Commits(w, row)
      BY <1>1, EachWrite, LimitsAssumption, TradesAssumption
    <3> DEFINE q == working[w].request
    <3>1. /\ working[w] # NoTransaction /\ q \in sent
          /\ q.portfolio \in Portfolios /\ book \in [Portfolios -> Rows]
      BY <1>1, OpenFacts, RequestFacts DEF Commits, LedgerTypeOK, LedgerInv, LockInv
    <3>2. working'[w] = NoTransaction /\ book' = [book EXCEPT ![q.portfolio] = row]
      BY <1>1 DEF Commits, LedgerTypeOK
    <3>3. q.portfolio \notin gone => q.seen = book[q.portfolio]
      BY <1>1, <3>1 DEF Commits, LedgerInv, SeenInv
    <3> QED BY <3>1, <3>2, <3>3
  <2>2. CASE book' = book
    BY <2>2
  <2> QED BY <1>1, <2>1, <2>2, BookStep, LimitsAssumption, TradesAssumption
<1>2. LedgerTypeOK /\ LedgerInv /\ [LedgerNext]_ledgerVars => [Informed]_ledgerVars
  BY <1>1
<1> QED BY <1>2, LedgerIsInvariant, PTL DEF LedgerSpec, ChangesWhatWasSeen

---------------------------------------------------------------------------
(* What a granted or a known request finds. *)

\* After a report has been imported, and before, if it adds nothing, each row of it is
\* recorded, or known to its owner as a trade entered by hand.
LEMMA ReportedRows ==
  ASSUME NEW q, NEW row, Importable(q, row), NEW t \in q.file.rows
  PROVE  \/ \E e \in row.entries : e.trade = t
         \/ t \in Additions(row, q.file)
         \/ q.partial /\ ByHand(row.entries, t)
<1>1. CASE WithId(row.entries, t) # {}
  BY <1>1 DEF Importable, Conflicting, WithId
<1>2. CASE t \in Overlapping(row, q.file)
  BY <1>2 DEF Importable, Overlapping
<1>3. CASE WithId(row.entries, t) = {} /\ t \notin Overlapping(row, q.file)
  BY <1>3 DEF Additions, New
<1> QED BY <1>1, <1>2, <1>3

\* A write does what it was asked to do.
LEMMA WriteDone ==
  ASSUME LimitsAssumption, LedgerTypeOK, LedgerInv, NEW w \in Workers, Writes(w),
         NEW q, q = working[w].request
  PROVE  Done(q)'
<1> DEFINE p == q.portfolio
           row == working[w].row
<1>1. working[w] # NoTransaction
  BY DEF Writes, Create, Update, Add, RemoveTrade, Import, Delete, Serves
<1>2. /\ q \in Requests /\ row \in Rows /\ row = book[p] /\ p \in Portfolios
      /\ book \in [Portfolios -> Rows]
  BY <1>1, OpenFacts, RequestFacts DEF LedgerInv, LockInv, LedgerTypeOK
<1>3. row.version \in Nat
  BY <1>2, RowFacts
<1>4. ASSUME NEW settings, NEW entries, Save(w, settings, entries)
      PROVE  /\ book'[p] # Absent /\ book'[p].settings = settings
             /\ book'[p].entries = entries
  <2>1. book'[p] = [version |-> row.version + 1, settings |-> settings, entries |-> entries]
    BY <1>2, <1>4 DEF Save, NextVersion
  <2>2. row.version + 1 # 0
    BY <1>3
  <2> QED BY <2>1, <2>2 DEF Absent
<1>5. CASE Create(w)
  <2>1. q.op = "create" /\ Save(w, q.settings, {})
    BY <1>5 DEF Create, Serves
  <2>2. book'[p] # Absent /\ book'[p].settings = q.settings
    BY <1>4, <2>1
  <2> QED BY <2>1, <2>2 DEF Done
<1>6. CASE Update(w)
  <2>1. q.op = "update" /\ Save(w, q.settings, row.entries)
    BY <1>6 DEF Update, Serves
  <2>2. book'[p] # Absent /\ book'[p].settings = q.settings
    BY <1>4, <2>1
  <2> QED BY <2>1, <2>2 DEF Done
<1>7. CASE Add(w)
  <2>1. q.op = "add" /\ Save(w, row.settings, Added(row, q.trade))
    BY <1>7 DEF Add, Serves
  <2>2. book'[p].entries = Added(row, q.trade)
    BY <1>4, <2>1
  <2>3. \E e \in book'[p].entries : e.trade = q.trade
    <3>1. [trade |-> q.trade, since |-> row.version + 1] \in book'[p].entries
      BY <2>2 DEF Added
    <3> QED BY <3>1
  <2> QED BY <2>1, <2>3 DEF Done, Recorded
<1>8. CASE RemoveTrade(w)
  <2>1. q.op = "remove"
        /\ Save(w, row.settings, row.entries \ WithId(row.entries, q.trade))
    BY <1>8 DEF RemoveTrade, Serves
  <2>2. /\ book'[p] # Absent
        /\ book'[p].entries = row.entries \ WithId(row.entries, q.trade)
    BY <1>4, <2>1
  <2>3. WithId(book'[p].entries, q.trade) = {}
    BY <2>2 DEF WithId
  <2> QED BY <2>1, <2>2, <2>3 DEF Done, WithId
<1>9. CASE Import(w)
  <2>1. /\ q.op = "import" /\ Importable(q, row)
        /\ Save(w, row.settings, Imported(row, q.file))
    BY <1>9 DEF Import, Serves, ImportReady
  <2>2. book'[p].entries = Imported(row, q.file)
    BY <1>4, <2>1
  <2>3. \A t \in q.file.rows : \/ \E e \in book'[p].entries : e.trade = t
                               \/ q.partial /\ ByHand(book'[p].entries, t)
    <3> TAKE t \in q.file.rows
    <3>1. row.entries \subseteq book'[p].entries
      BY <2>2 DEF Imported
    <3>2. CASE \E e \in row.entries : e.trade = t
      BY <3>1, <3>2
    <3>3. CASE t \in Additions(row, q.file)
      <4>1. [trade |-> t, since |-> row.version + 1] \in book'[p].entries
        BY <2>2, <3>3 DEF Imported
      <4> QED BY <4>1
    <3>4. CASE q.partial /\ ByHand(row.entries, t)
      BY <3>1, <3>4 DEF ByHand
    <3> QED BY <2>1, <3>2, <3>3, <3>4, ReportedRows
  <2> QED BY <2>1, <2>3 DEF Done, Recorded, ByHand
<1>10. CASE Delete(w)
  <2>1. q.op = "delete" /\ book'[p] = Absent
    BY <1>2, <1>10 DEF Delete, Serves
  <2> QED BY <2>1 DEF Done
<1> QED BY <1>5, <1>6, <1>7, <1>8, <1>9, <1>10 DEF Writes

\* A request that is recognized as a retry has been carried out.
LEMMA KnownDone ==
  ASSUME LimitsAssumption, NEW q, Known(q, book[q.portfolio])
  PROVE  Done(q)
<1> DEFINE row == book[q.portfolio]
<1>1. CASE q.op = "create" /\ row.settings = q.settings
  BY <1>1 DEF Known, Done
<1>2. CASE q.op = "add" /\ \E e \in row.entries : e.trade = q.trade
  BY <1>2 DEF Done, Recorded
<1>3. CASE q.op = "import" /\ Importable(q, row) /\ Additions(row, q.file) = {}
  BY <1>3, ReportedRows DEF Done, Recorded
<1> QED BY <1>1, <1>2, <1>3 DEF Known

\* Whoever is told that a change was saved finds it saved.
THEOREM AnswersHold == LedgerSpec => []AnswersAreTrue
<1>1. LedgerInit => AnswersAreTrue
  BY DEF LedgerInit, AnswersAreTrue, NoAnswer
<1>2. ASSUME LedgerTypeOK, LedgerInv, AnswersAreTrue, [LedgerNext]_ledgerVars
      PROVE  AnswersAreTrue'
  <2>1. CASE answer' = NoAnswer
    BY <2>1 DEF AnswersAreTrue, NoAnswer
  <2>2. ASSUME NEW q, Done(q)', answer' = [given |-> TRUE, ok |-> TRUE, request |-> q]
        PROVE  AnswersAreTrue'
    <3>1. answer'.request = q
      BY <2>2
    <3> QED BY <2>2, <3>1 DEF AnswersAreTrue, Done, Recorded, WithId, ByHand
  <2>3. ASSUME NEW w \in Workers, Writes(w)
        PROVE  AnswersAreTrue'
    <3> PICK row \in Rows : Commits(w, row)
      BY <1>2, <2>3, EachWrite, LimitsAssumption, TradesAssumption
    <3> PICK q : q = working[w].request
      OBVIOUS
    <3>1. Done(q)'
      BY <1>2, <2>3, WriteDone, LimitsAssumption
    <3> QED BY <2>2, <3>1 DEF Commits
  <2>4. ASSUME NEW w \in Workers, Answer(w)
        PROVE  AnswersAreTrue'
    <3> PICK q : q = working[w].request
      OBVIOUS
    <3>1. working[w].row = book[q.portfolio] /\ UNCHANGED book
      BY <1>2, <2>4 DEF Answer, LedgerInv, LockInv
    <3>2. CASE Known(q, working[w].row) /\ Reply(w, TRUE)
      <4>1. Done(q)
        BY <3>1, <3>2, KnownDone, LimitsAssumption
      <4>2. Done(q)'
        BY <3>1, <4>1 DEF Done, Recorded, WithId, ByHand
      <4> QED BY <2>2, <3>2, <4>2 DEF Reply
    <3>3. CASE Reply(w, FALSE)
      BY <3>3 DEF Reply, AnswersAreTrue
    <3> QED BY <2>4, <3>2, <3>3 DEF Answer
  <2>5. CASE UNCHANGED ledgerVars
    BY <1>2, <2>5 DEF ledgerVars, AnswersAreTrue, Done, Recorded, WithId, ByHand
  <2>6. CASE Pages
    BY <1>2, <2>1, <2>6, EachSend, LimitsAssumption
  <2>7. ASSUME NEW w \in Workers, (\E q \in sent : Begin(w, q)) \/ Abort(w)
        PROVE  AnswersAreTrue'
    BY <2>1, <2>7 DEF Begin, Abort
  <2> QED BY <1>2, <2>3, <2>4, <2>5, <2>6, <2>7 DEF LedgerNext, Server, Writes
<1> QED BY <1>1, <1>2, LedgerIsInvariant, PTL DEF LedgerSpec

---------------------------------------------------------------------------
(* The refinement. *)

\* There are no more trades than entries.
LEMMA NoMoreTrades ==
  ASSUME NEW entries, IsFiniteSet(entries)
  PROVE  Cardinality({e.trade : e \in entries}) <= Cardinality(entries)
<1> DEFINE T == {e.trade : e \in entries}
           f == [e \in entries |-> e.trade]
<1>1. f \in Surjection(entries, T)
  BY DEF Surjection
<1> QED BY <1>1, FS_Surjection

\* Both modules count alike.
LEMMA SameCount ==
  ASSUME NEW S
  PROVE  Abstract!Cardinality(S) = Cardinality(S)
BY Zenon DEF Abstract!Cardinality, Cardinality

\* The trades of some entries.
Told(entries) == {e.trade : e \in entries}

\* A portfolio exists if and only if its owner sees it.
LEMMA ShownFacts ==
  ASSUME LimitsAssumption, LedgerTypeOK
  PROVE  /\ \A p \in Portfolios : Abstract!IsOpen(p) <=> book[p] # Absent
         /\ {p \in Portfolios : Abstract!IsOpen(p)} = Existing
<1>1. ASSUME NEW p \in Portfolios
      PROVE  Abstract!IsOpen(p) <=> book[p] # Absent
  <2>1. book[p] \in Rows /\ Shown[p] = [settings |-> book[p].settings, trades |-> Recorded(p)]
    BY DEF LedgerTypeOK, Shown
  <2>2. CASE book[p] = Absent
    <3>1. book[p].settings = NoSettings /\ Recorded(p) = {}
      BY <2>2 DEF Absent, Recorded
    <3> QED BY <2>1, <2>2, <3>1 DEF Abstract!IsOpen, Abstract!Closed
  <2>3. CASE book[p] # Absent
    <3>1. Shown[p].settings # NoSettings
      BY <2>1, <2>3, RowFacts DEF LimitsAssumption
    <3> QED BY <2>3, <3>1 DEF Abstract!IsOpen, Abstract!Closed
  <2> QED BY <2>2, <2>3
<1> QED BY <1>1 DEF Existing

\* A write of a row shows itself in the one portfolio.
LEMMA ShownStep ==
  ASSUME LedgerTypeOK, NEW p \in Portfolios, NEW row, book' = [book EXCEPT ![p] = row]
  PROVE  Shown' = [Shown EXCEPT ![p] = [settings |-> row.settings,
                                        trades |-> {e.trade : e \in row.entries}]]
<1>1. \A r \in Portfolios : book'[r] = IF r = p THEN row ELSE book[r]
  BY DEF LedgerTypeOK
<1> QED BY <1>1 DEF Shown, Recorded

\* Every write is one edit of the abstract ledger.
LEMMA WriteIsEdit ==
  ASSUME LimitsAssumption, TradesAssumption, LedgerTypeOK, LedgerInv,
         NEW w \in Workers, Writes(w)
  PROVE  Abstract!Next
<1> DEFINE q == working[w].request
           p == q.portfolio
           row == working[w].row
<1>1. working[w] # NoTransaction
  BY DEF Writes, Create, Update, Add, RemoveTrade, Import, Delete, Serves
<1>2. /\ q \in Requests /\ row \in Rows /\ row = book[p] /\ p \in Portfolios
      /\ book \in [Portfolios -> Rows] /\ working[w].count = Cardinality(Existing)
  BY <1>1, OpenFacts, RequestFacts DEF LedgerInv, LockInv, LedgerTypeOK
<1>3. /\ Shown[p].settings = row.settings /\ Shown[p].trades = Told(row.entries)
      /\ Abstract!IsOpen(p) <=> row # Absent
      /\ {r \in Portfolios : Abstract!IsOpen(r)} = Existing
  BY <1>2, ShownFacts DEF Shown, Recorded, Told
<1>4. row.entries \subseteq Entries /\ Told(row.entries) \subseteq Trades
  BY <1>2, RowFacts DEF Entries, Told
<1>5. PICK new \in Rows : Commits(w, new)
  BY EachWrite
<1>6. /\ book' = [book EXCEPT ![p] = new]
      /\ Cardinality(Told(new.entries)) <= MaxTransactions
  <2>1. IsFiniteSet(new.entries) /\ Cardinality(new.entries) \in Nat
    BY RowFacts
  <2>2. Cardinality(Told(new.entries)) <= Cardinality(new.entries)
    BY <2>1, NoMoreTrades DEF Told
  <2>3. Cardinality(Told(new.entries)) \in Nat
    <3> DEFINE f == [e \in new.entries |-> e.trade]
    <3>1. f \in Surjection(new.entries, Told(new.entries))
      BY DEF Surjection, Told
    <3>2. IsFiniteSet(Told(new.entries))
      BY <2>1, <3>1, FS_Surjection
    <3> QED BY <3>2, FS_CardinalityType
  <2> QED BY <1>5, <2>1, <2>2, <2>3, Numbers DEF Commits
<1>7. Shown' = [Shown EXCEPT ![p] = [settings |-> new.settings, trades |-> Told(new.entries)]]
  BY <1>2, <1>6, ShownStep DEF Told
<1>8. ASSUME NEW settings, NEW entries, Save(w, settings, entries)
      PROVE  new.settings = settings /\ new.entries = entries
  BY <1>2, <1>6, <1>8 DEF Save
<1>9. CASE Create(w)
  <2>1. /\ row = Absent /\ Cardinality(Existing) < MaxPortfolios
        /\ Save(w, q.settings, {}) /\ q.settings \in Settings
    BY <1>2, <1>9, RequestFacts DEF Create, Serves, Creatable
  <2>2. new.settings = q.settings /\ Told(new.entries) = {}
    BY <1>8, <2>1 DEF Told
  <2>3. Abstract!Open(p, q.settings)
    BY <1>3, <1>7, <2>1, <2>2, SameCount DEF Abstract!Open
  <2> QED BY <1>2, <2>1, <2>3 DEF Abstract!Next
<1>10. CASE Update(w)
  <2>1. row # Absent /\ Save(w, q.settings, row.entries) /\ q.settings \in Settings
    BY <1>2, <1>10, RequestFacts DEF Update, Serves, Current
  <2>2. new.settings = q.settings /\ new.entries = row.entries
    BY <1>8, <2>1
  <2>3. Abstract!Arrange(p, q.settings)
    BY <1>3, <1>7, <2>1, <2>2 DEF Abstract!Arrange
  <2> QED BY <1>2, <2>1, <2>3 DEF Abstract!Next
<1>11. ASSUME NEW more \in SUBSET Trades, row # Absent, new.settings = row.settings,
              Told(new.entries) = Told(row.entries) \union more,
              \A t \in more : WithId(row.entries, t) = {}
       PROVE  Abstract!Next
  <2>1. more \cap Told(row.entries) = {}
    BY <1>11 DEF Told, WithId
  <2>2. Abstract!Enter(p, more)
    BY <1>3, <1>6, <1>7, <1>11, <2>1, SameCount DEF Abstract!Enter
  <2> QED BY <1>2, <2>2 DEF Abstract!Next
<1>12. CASE Add(w)
  <2>1. /\ row # Absent /\ Save(w, row.settings, Added(row, q.trade)) /\ q.trade \in Trades
        /\ WithId(row.entries, q.trade) = {}
    BY <1>2, <1>12, RequestFacts DEF Add, Serves, Addable, Current
  <2>2. new.settings = row.settings /\ new.entries = Added(row, q.trade)
    BY <1>8, <2>1
  <2> DEFINE more == {q.trade}
  <2>4. Told(Added(row, q.trade)) = Told(row.entries) \union more
    <3> DEFINE one == [trade |-> q.trade, since |-> row.version + 1]
               added == {one}
    <3>1. Added(row, q.trade) = row.entries \union added
      BY DEF Added
    <3>2. /\ \A e \in added : e.trade \in more
          /\ \A t \in more : \E e \in added : e.trade = t
      <4>1. one.trade = q.trade
        OBVIOUS
      <4> HIDE DEF one
      <4> QED BY <4>1
    <3> HIDE DEF added, more
    <3> QED BY <3>1, <3>2 DEF Told
  <2>5. more \in SUBSET Trades /\ \A t \in more : WithId(row.entries, t) = {}
    BY <2>1
  <2> HIDE DEF more
  <2> QED BY <1>11, <2>1, <2>2, <2>4, <2>5
<1>13. CASE Import(w)
  <2> DEFINE more == Additions(row, q.file)
  <2>1. /\ row # Absent /\ Save(w, row.settings, Imported(row, q.file)) /\ q.file \in Files
    BY <1>2, <1>13, RequestFacts DEF Import, Serves, ImportReady, Importable
  <2>2. new.settings = row.settings /\ new.entries = Imported(row, q.file)
    BY <1>8, <2>1
  <2>3. Told(Imported(row, q.file)) = Told(row.entries) \union more
    <3> DEFINE One(t) == [trade |-> t, since |-> row.version + 1]
               added == {One(t) : t \in more}
    <3>1. Imported(row, q.file) = row.entries \union added
      BY DEF Imported
    <3>2. /\ \A e \in added : e.trade \in more
          /\ \A t \in more : \E e \in added : e.trade = t
      <4>1. \A t : One(t).trade = t
        OBVIOUS
      <4>2. \A e \in added : \E t \in more : e = One(t)
        BY Zenon
      <4>3. \A t \in more : One(t) \in added
        BY Zenon
      <4>4. ASSUME NEW e \in added
            PROVE  e.trade \in more
        <5> PICK t \in more : e = One(t)
          BY <4>2
        <5> QED BY <4>1
      <4>5. ASSUME NEW t \in more
            PROVE  \E e \in added : e.trade = t
        BY <4>1, <4>3
      <4> HIDE DEF added, more
      <4> QED BY <4>4, <4>5
    <3> HIDE DEF One, added, more
    <3>3. Told(row.entries \union added) = Told(row.entries) \union more
      BY <3>2 DEF Told
    <3> QED BY <3>1, <3>3
  <2>4. more \in SUBSET Trades /\ \A t \in more : WithId(row.entries, t) = {}
    BY <2>1 DEF TradesAssumption, Additions, New
  <2> HIDE DEF more
  <2> QED BY <1>11, <2>1, <2>2, <2>3, <2>4
<1>14. CASE RemoveTrade(w)
  <2> DEFINE struck == WithId(row.entries, q.trade)
  <2>1. row # Absent /\ Save(w, row.settings, row.entries \ struck) /\ struck # {}
    BY <1>14 DEF RemoveTrade, Removable, Current
  <2>2. new.settings = row.settings /\ new.entries = row.entries \ struck
    BY <1>8, <2>1
  <2>3. PICK e \in row.entries : e.trade.id = q.trade.id
    BY <2>1 DEF WithId
  <2>4. \A f \in row.entries : f.trade.id = q.trade.id => f = e
    BY <1>2, <2>3 DEF LedgerInv, TradesOnce
  <2>5. Told(row.entries \ struck) = Told(row.entries) \ {e.trade}
    BY <2>3, <2>4 DEF Told, WithId
  <2>6. e.trade \in Told(row.entries) /\ e.trade \in Trades
    BY <1>4, <2>3 DEF Told
  <2>7. Abstract!Strike(p, e.trade)
    BY <1>3, <1>7, <2>1, <2>2, <2>5, <2>6 DEF Abstract!Strike
  <2> QED BY <1>2, <2>6, <2>7 DEF Abstract!Next
<1>15. CASE Delete(w)
  <2>1. row # Absent /\ new = Absent
    BY <1>2, <1>6, <1>15 DEF Delete, Current
  <2>2. new.settings = NoSettings /\ Told(new.entries) = {}
    BY <2>1 DEF Absent, Told
  <2>3. Abstract!Close(p)
    BY <1>3, <1>7, <2>1, <2>2 DEF Abstract!Close, Abstract!Closed
  <2> QED BY <1>2, <2>3 DEF Abstract!Next
<1> QED BY <1>9, <1>10, <1>12, <1>13, <1>14, <1>15 DEF Writes

\* What the owner of the portfolios sees is always one whole edit of what was there.
THEOREM RefinesTradeLedger == LedgerSpec => ImplementsTradeLedger
<1>1. LedgerInit => Abstract!Init
  BY DEF LedgerInit, Abstract!Init, Abstract!Closed, Shown, Recorded, Absent
<1>2. LedgerTypeOK /\ LedgerInv /\ [LedgerNext]_ledgerVars => [Abstract!Next]_Shown
  <2> SUFFICES ASSUME LedgerTypeOK, LedgerInv, [LedgerNext]_ledgerVars
               PROVE  Abstract!Next \/ Shown' = Shown
    OBVIOUS
  <2>1. CASE \E w \in Workers : Writes(w)
    BY <2>1, WriteIsEdit, LimitsAssumption, TradesAssumption
  <2>2. CASE book' = book
    BY <2>2 DEF Shown, Recorded
  <2> QED BY <2>1, <2>2, BookStep, LimitsAssumption, TradesAssumption
<1> QED BY <1>1, <1>2, LedgerIsInvariant, PTL DEF LedgerSpec, ImplementsTradeLedger, Abstract!Spec
=============================================================================
