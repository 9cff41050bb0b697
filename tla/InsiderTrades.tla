---------------------------- MODULE InsiderTrades ----------------------------
(***************************************************************************)
(* The stored trades of one company's managers.  They are read from the    *)
(* exchange's reports by stock pages, by the weekly ingest and by the job  *)
(* at noon, none of which knows of the others.                             *)
(*                                                                         *)
(* A report names its trades in attachments.  When none of them could be   *)
(* read the report itself stands for the trade.  (A company whose trades   *)
(* come from Yahoo has no such reports.)  An item is a report and what of  *)
(* it was read; its fields (dates, price, shares, person) are the item.    *)
(***************************************************************************)
EXTENDS Integers, FiniteSets

CONSTANTS
    Report,
    Trade,      \* the trades an attachment of a report can name
    Whole,      \* the report as a whole
    Visitor,    \* stock pages being computed
    Job,        \* the ingest's or the noon job's turn for this company
    MaxChecks   \* bound: downloads begun

ASSUME InsiderAssumption ==
    /\ MaxChecks \in Nat
    /\ Whole \notin Trade /\ Job \notin Visitor

Item == Report \X (Trade \union {Whole})
Task == Visitor \union {Job}

VARIABLES
    published,  \* the reports the exchange lists
    rows,       \* insider_transactions: item -> how often it is stored
    checked,    \* history cache: the company was checked lately
    task,       \* task -> its step, what it downloaded, what of that it found missing
    checks      \* downloads begun

insiderVars == <<published, rows, checked, task, checks>>

Resting == [at |-> "idle", fetched |-> {}, new |-> {}]

---------------------------------------------------------------------------
(* espi_client.py: get_company_insider_transactions(). *)

\* What may be read of a report: nothing, the whole when no attachment could be read,
\* or the trades of those attachments that could.
Readings(r) ==
    {{}, {<<r, Whole>>}} \union {{r} \X trades : trades \in SUBSET Trade \ {{}}}

\* Each report in its own way; a list that cannot be read names no report.
Downloads ==
    {UNION {reading[r] : r \in published} :
        reading \in {f \in [published -> UNION {Readings(r) : r \in Report}] :
                        \A r \in published : f[r] \in Readings(r)}}

---------------------------------------------------------------------------
(* repository.py: upsert_insider_transactions(). *)

\* Mutant: a report that has a row is known.
SameReport(i, j) == i[1] = j[1]

\* Two items are the same trade when they agree in every field the query names.
SameRow(i, j) == i = j

\* Every item is looked up among the rows committed so far ...
LookUp(p) ==
    /\ task[p].at = "look up"
    /\ task' = [task EXCEPT ![p] =
           [at |-> "insert", fetched |-> @.fetched,
            new |-> {i \in @.fetched : \A j \in Item : rows[j] > 0 => ~SameRow(i, j)}]]
    /\ UNCHANGED <<published, rows, checked, checks>>

\* ... and those not found are inserted, in one transaction; it may fail.
Insert(p) ==
    /\ task[p].at = "insert"
    /\ \/ /\ rows' = [i \in Item |-> IF i \in task[p].new THEN rows[i] + 1 ELSE rows[i]]
          /\ task' = [task EXCEPT ![p] = [@ EXCEPT !.at = "done"]]
       \/ /\ task' = [task EXCEPT ![p] = [@ EXCEPT !.at = "failed"]]
          /\ UNCHANGED rows
    /\ UNCHANGED <<published, checked, checks>>

---------------------------------------------------------------------------
Over(p) == task[p].at \in {"idle", "done", "failed"}

\* Who downloads, from now on.
Begin(p) ==
    /\ Over(p)
    /\ checks < MaxChecks
    /\ checks' = checks + 1
    /\ task' = [task EXCEPT ![p] = [Resting EXCEPT !.at = "download"]]

Downloaded(p) ==
    /\ task[p].at = "download"
    /\ \E items \in Downloads :
           task' = [task EXCEPT ![p] = [at |-> IF items = {} THEN "idle" ELSE "look up",
                                        fetched |-> items, new |-> {}]]

\* _load_ticker_insider_transactions(): unless it was checked lately; and when the
\* download is over, however it ended, it was.
Visit(v) == ~checked /\ Begin(v) /\ UNCHANGED <<published, rows, checked>>
VisitorDownloaded(v) == Downloaded(v) /\ checked' = TRUE /\ UNCHANGED <<published, rows, checks>>

\* _fetch_company_insiders(): the noon job forgets the checks when it begins and when
\* it has been through all companies, the ingest flushes them at its end.
StartJob ==
    /\ Begin(Job)
    /\ checked' \in {checked, FALSE}
    /\ UNCHANGED <<published, rows>>

JobDownloaded == Downloaded(Job) /\ UNCHANGED <<published, rows, checked, checks>>

\* _INSIDER_MISS_TTL_SECONDS, or the end of a job.
Forget == checked' = FALSE /\ UNCHANGED <<published, rows, task, checks>>

Publish(r) ==
    /\ r \notin published
    /\ published' = published \union {r}
    /\ UNCHANGED <<rows, checked, task, checks>>

InsiderInit ==
    /\ published = {}
    /\ rows = [i \in Item |-> 0]
    /\ checked = FALSE
    /\ task = [p \in Task |-> Resting]
    /\ checks = 0

InsiderNext ==
    \/ \E v \in Visitor : Visit(v) \/ VisitorDownloaded(v)
    \/ StartJob \/ JobDownloaded
    \/ \E p \in Task : LookUp(p) \/ Insert(p)
    \/ \E r \in Report : Publish(r)
    \/ Forget

InsiderSpec == InsiderInit /\ [][InsiderNext]_insiderVars

---------------------------------------------------------------------------
(* Properties. *)

\* Whoever stored what in between, a download that was stored without an error has
\* every one of its trades in the table, also those of a report read in part before.
FetchedIsStored ==
    \A p \in Task : task[p].at = "done" => \A i \in task[p].fetched : rows[i] > 0

\* "A report is a container, not an extra trade alongside its attachments"
\* (espi_client.py:399).
ReportIsNoExtraTrade ==
    \A r \in Report : rows[<<r, Whole>>] > 0 => \A t \in Trade : rows[<<r, t>>] = 0
=============================================================================
