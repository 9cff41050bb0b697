---------------------------- MODULE AccountData -----------------------------
(***************************************************************************)
(* What an account keeps besides its portfolios: named watchlists          *)
(* (db/watchlist_repository.py) and the observation journal                *)
(* (db/journal_repository.py).  Several devices of the account work at     *)
(* once and answers get lost.  A watchlist change and a new journal entry  *)
(* are transactions that lock the account's row, read, decide and commit;  *)
(* a review or a deletion locks its entry and is one step here.            *)
(*                                                                         *)
(* A list name stands for its case-folded form.  An entry's text is its    *)
(* evidence: note, conditions, date and snapshot.                          *)
(***************************************************************************)
EXTENDS Integers, FiniteSets

CONSTANTS Devices,
          ListIds, Names, Tickers,
          EntryIds, Texts, Reviews,
          Foreign,     \* entry ids that another account has used
          Nothing,     \* no list, no entry, no device
          MaxLists,    \* 20
          MaxTickers,  \* 500
          MaxEntries,  \* 500
          MaxEdits     \* bound on an entry's version

ASSUME DataBounds ==
    /\ Nothing \notin Devices
    /\ Foreign \subseteq EntryIds
    /\ {MaxLists, MaxTickers, MaxEntries, MaxEdits} \subseteq Nat \ {0}

VARIABLES lists,    \* the account's watchlists by id
          entries,  \* the account's journal entries by id
          used,     \* entry ids that have been deleted
          lock,     \* the device whose transaction holds the account's row
          tx,       \* each device's transaction: what it asks and what it read
          known     \* the entry as each device last saw it

dataVars == <<lists, entries, used, lock, tx, known>>

ASSUME DataIsFinite ==
    /\ IsFiniteSet(ListIds) /\ IsFiniteSet(EntryIds) /\ IsFiniteSet(Tickers)

Stored(rows) == {i \in DOMAIN rows : rows[i] # Nothing}

Lists == [name : Names, tickers : SUBSET Tickers]
Entries == [text : Texts, review : Reviews \union {Nothing}, version : 1 .. MaxEdits,
            by : Devices]

ASSUME NothingIsNoRow == Nothing \notin Lists \union Entries

DataTypeOK ==
    /\ \A i \in ListIds :
        lists[i] = Nothing \/ lists[i] \in Lists
    /\ \A i \in EntryIds : entries[i] = Nothing \/ entries[i] \in Entries
    /\ used \subseteq EntryIds
    /\ lock \in Devices \union {Nothing}
    /\ \A d \in Devices, i \in EntryIds : known[d][i] = Nothing \/ known[d][i] \in Entries

DataInit ==
    /\ lists = [i \in ListIds |-> Nothing]
    /\ entries = [i \in EntryIds |-> Nothing]
    /\ used = {} /\ lock = Nothing
    /\ tx = [d \in Devices |-> Nothing]
    /\ known = [d \in Devices |-> [i \in EntryIds |-> Nothing]]

-----------------------------------------------------------------------------
(* Transactions on the account's row. *)

\* Mutant: the account's row is not locked.
BeginUnlocked(d, request, rows) ==
    /\ tx[d] = Nothing
    /\ tx' = [tx EXCEPT ![d] = [ask |-> request, rows |-> rows]]
    /\ UNCHANGED <<lists, entries, used, lock, known>>

\* SELECT ... FOR UPDATE on the account, then the rows the request is about.
Begin(d, request, rows) ==
    /\ tx[d] = Nothing /\ lock = Nothing
    /\ lock' = d
    /\ tx' = [tx EXCEPT ![d] = [ask |-> request, rows |-> rows]]
    /\ UNCHANGED <<lists, entries, used, known>>

EndTransaction(d) ==
    /\ tx' = [tx EXCEPT ![d] = Nothing]
    /\ lock' = IF lock = d THEN Nothing ELSE lock

\* The connection is lost: rolled back.
RollBack(d) ==
    /\ tx[d] # Nothing
    /\ EndTransaction(d)
    /\ UNCHANGED <<lists, entries, used, known>>

-----------------------------------------------------------------------------
(* Watchlists: change(). *)

NameTaken(rows, id, n) == \E i \in Stored(rows) \ {id} : rows[i].name = n

\* What each operation makes of its list; a refused one has no step.
NewList(ask, rows) ==
    /\ ask.op \in {"create", "bootstrap"}
    /\ ask.op = "bootstrap" => Stored(rows) = {}
    /\ Cardinality(Stored(rows)) < MaxLists
    /\ ~NameTaken(rows, ask.id, ask.name)
    /\ lists' = [lists EXCEPT ![ask.id] = [name |-> ask.name, tickers |-> {}]]

Rename(ask, rows) ==
    /\ ask.op = "rename" /\ ~NameTaken(rows, ask.id, ask.name)
    /\ lists' = [lists EXCEPT ![ask.id].name = ask.name]

DeleteList(ask, rows) ==
    /\ ask.op = "delete" /\ Cardinality(Stored(rows)) # 1
    /\ lists' = [lists EXCEPT ![ask.id] = Nothing]

AddTickers(ask, rows) ==
    /\ ask.op = "add"
    /\ Cardinality(rows[ask.id].tickers \union ask.tickers) <= MaxTickers
    /\ lists' = [lists EXCEPT ![ask.id].tickers = rows[ask.id].tickers \union ask.tickers]

RemoveTickers(ask, rows) ==
    /\ ask.op = "remove"
    /\ lists' = [lists EXCEPT ![ask.id].tickers = rows[ask.id].tickers \ ask.tickers]

ListOperations == {"bootstrap", "create", "rename", "delete", "add", "remove"}

AskList(d, op, i, n, ts) ==
    /\ (op \in {"create", "bootstrap"}) = (lists[i] = Nothing)  \* uuid4() is new
    /\ Begin(d, [op |-> op, id |-> i, name |-> n, tickers |-> ts], lists)

ChangeList(d) ==
    /\ tx[d] # Nothing /\ tx[d].ask.op \in ListOperations
    /\ LET ask == tx[d].ask  rows == tx[d].rows IN
       \/ NewList(ask, rows)
       \/ /\ lists[ask.id] # Nothing
          /\ \/ Rename(ask, rows) \/ DeleteList(ask, rows)
             \/ AddTickers(ask, rows) \/ RemoveTickers(ask, rows)
    /\ EndTransaction(d)
    /\ UNCHANGED <<entries, used, known>>

-----------------------------------------------------------------------------
(* The journal. *)

AskEntry(d, i, t) == Begin(d, [op |-> "note", id |-> i, text |-> t], entries)

\* create(): an id that is stored is answered with what is stored, also when the
\* request is repeated after a lost answer; one of another account's is refused.
Answer(d, i, e) == \* the answer arrives, or it is lost
    known' \in {known, [known EXCEPT ![d][i] = e]}

CreateEntry(d) ==
    /\ tx[d] # Nothing /\ tx[d].ask.op = "note"
    /\ LET i == tx[d].ask.id
           new == [text |-> tx[d].ask.text, review |-> Nothing, version |-> 1, by |-> d]
       IN /\ i \notin Foreign
          /\ IF tx[d].rows[i] # Nothing
             THEN Answer(d, i, tx[d].rows[i]) /\ UNCHANGED entries
             ELSE /\ Cardinality(Stored(tx[d].rows)) < MaxEntries
                  /\ entries' = [entries EXCEPT ![i] = new]
                  /\ Answer(d, i, new)
    /\ EndTransaction(d)
    /\ UNCHANGED <<lists, used>>

Look(d, i) ==
    /\ entries[i] # Nothing
    /\ known' = [known EXCEPT ![d][i] = entries[i]]
    /\ UNCHANGED <<lists, entries, used, lock, tx>>

\* Mutant: the version is not looked at.
AnyVersion(d, i) == entries[i] # Nothing /\ known[d][i] # Nothing

\* The version the device saw must be the entry's.
SameVersion(d, i) ==
    /\ entries[i] # Nothing /\ known[d][i] # Nothing
    /\ known[d][i].version = entries[i].version

Reviewed(e, r, d) == [text |-> e.text, review |-> r, version |-> e.version + 1, by |-> d]

Review(d, i, r) ==
    /\ SameVersion(d, i) /\ entries[i].version < MaxEdits
    /\ entries' = [entries EXCEPT ![i] = Reviewed(@, r, d)]
    /\ Answer(d, i, entries'[i])
    /\ UNCHANGED <<lists, used, lock, tx>>

DeleteEntry(d, i) ==
    /\ SameVersion(d, i)
    /\ entries' = [entries EXCEPT ![i] = Nothing]
    /\ used' = used \union {i}
    /\ UNCHANGED <<lists, lock, tx, known>>

ListStep ==
    \E d \in Devices :
        \/ \E op \in ListOperations, i \in ListIds, n \in Names, ts \in SUBSET Tickers :
            AskList(d, op, i, n, ts)
        \/ ChangeList(d) \/ RollBack(d)

JournalStep ==
    \E d \in Devices :
        \/ \E i \in EntryIds, t \in Texts : AskEntry(d, i, t)
        \/ CreateEntry(d) \/ RollBack(d)
        \/ \E i \in EntryIds :
            Look(d, i) \/ DeleteEntry(d, i) \/ \E r \in Reviews : Review(d, i, r)

DataSpec == DataInit /\ [][ListStep \/ JournalStep]_dataVars

-----------------------------------------------------------------------------
\* However the devices' changes fall together: names differ, no list and no
\* account is over its limit, and the journal neither ("Locks work across
\* workers/devices, including creation of the first list",
\* watchlist_repository.py:25).
LimitsHold ==
    /\ \A i, j \in Stored(lists) : lists[i].name = lists[j].name => i = j
    /\ Cardinality(Stored(lists)) <= MaxLists
    /\ \A i \in Stored(lists) : Cardinality(lists[i].tickers) <= MaxTickers
    /\ Cardinality(Stored(entries)) <= MaxEntries

\* An account that has a list keeps one, although two devices may each delete the
\* other's last but one (the "last_list" refusal).
SomeListStays == [][Stored(lists) # {} => Stored(lists)' # {}]_dataVars

\* "Journal evidence is insert-only; updates only change outcome and review"
\* (journal_repository.py:1), and a review replaces nothing its author has not
\* seen: whatever answers were lost or repeated, its device knew the entry as it
\* was.  Of an id used anew after a deletion neither is claimed: versions start
\* again there.
ReviewsReplaceWhatWasSeen ==
    [][\A i \in EntryIds \ used :
        entries[i] # Nothing /\ entries'[i] # Nothing /\ entries'[i] # entries[i] =>
            /\ entries'[i].text = entries[i].text
            /\ known[entries'[i].by][i] = entries[i]]_dataVars
=============================================================================
