----------------------------- MODULE ActionLog -----------------------------
(***************************************************************************)
(* The audit trail's way into the database (services/action_log.py): every *)
(* request and job records an entry, a bounded queue carries it to one     *)
(* writer task that inserts batches, and stop_db_writer asks that writer   *)
(* to finish with a sentinel behind the entries, waits for it for a while  *)
(* and writes what is left itself.                                         *)
(*                                                                         *)
(* An entry is a model value recorded at most once.  The file and the ring *)
(* buffer, which no step here ever loses, are left out.                    *)
(***************************************************************************)
EXTENDS Integers, Sequences, SequencesExt

CONSTANTS LogEntries,   \* what requests, jobs and logged errors record
          QueueMax,     \* _QUEUE_MAX
          BatchMax,     \* _BATCH_MAX
          Off           \* no queue, or no writer

ASSUME LogBounds ==
    /\ QueueMax \in Nat \ {0}
    /\ BatchMax \in Nat \ {0}
    /\ Off \notin LogEntries

Shutdown == "shutdown"

ASSUME SentinelIsNoEntry == Shutdown \notin LogEntries

ASSUME OffIsNothingElse ==
    /\ Off \notin Seq(LogEntries \union {Shutdown})
    /\ Off \notin {"waiting", "collecting", "inserting", "pruning", "ended"}

VARIABLES queue,     \* _queue: entries and perhaps the sentinel, or Off
          handed,    \* entries given to the loop by call_soon_threadsafe
          worker,    \* what the writer task awaits, or Off
          batch,     \* what the writer has taken off the queue
          stopping,  \* the writer has met the sentinel
          stopper,   \* where stop_db_writer stands
          tail,      \* what the final flush has taken off the queue
          accepted,  \* every entry that was put on a queue, in order
          table,     \* action_logs, in the order of insertion
          droppedEntries,  \* entries counted by dropped_count
          recorded   \* entries recorded so far

logVars == <<queue, handed, worker, batch, stopping, stopper, tail, accepted,
             table, droppedEntries, recorded>>

Running == worker \in {"waiting", "collecting", "inserting", "pruning"}

LogTypeOK ==
    /\ queue = Off \/ queue \in Seq(LogEntries \union {Shutdown})
    /\ queue # Off => Len(queue) <= QueueMax
    /\ handed \subseteq LogEntries
    /\ worker \in {Off, "waiting", "collecting", "inserting", "pruning", "ended"}
    /\ batch \in Seq(LogEntries) /\ Len(batch) <= BatchMax
    /\ stopping \in BOOLEAN
    /\ stopper \in {"idle", "waiting", "flushing"}
    /\ tail \in Seq(LogEntries)
    /\ accepted \in Seq(LogEntries)
    /\ table \in Seq(LogEntries)
    /\ droppedEntries \subseteq LogEntries
    /\ recorded \subseteq LogEntries

LogInit ==
    /\ queue = Off /\ handed = {}
    /\ worker = Off /\ batch = <<>> /\ stopping = FALSE
    /\ stopper = "idle" /\ tail = <<>>
    /\ accepted = <<>> /\ table = <<>> /\ droppedEntries = {} /\ recorded = {}

-----------------------------------------------------------------------------
(* Recording: record() and _enqueue(). *)

\* put_nowait: a full queue drops the entry and counts it.
Enqueue(e) ==
    IF Len(queue) < QueueMax
    THEN /\ queue' = Append(queue, e)
         /\ accepted' = Append(accepted, e)
         /\ UNCHANGED droppedEntries
    ELSE /\ droppedEntries' = droppedEntries \union {e}
         /\ UNCHANGED <<queue, accepted>>

Record(e) ==
    /\ e \notin recorded
    /\ recorded' = recorded \union {e}
    /\ IF queue = Off THEN UNCHANGED <<queue, accepted, droppedEntries>> ELSE Enqueue(e)
    /\ UNCHANGED <<handed, worker, batch, stopping, stopper, tail, table>>

\* From a worker thread the entry is handed to the loop that owns the queue.
RecordInThread(e) ==
    /\ e \notin recorded /\ queue # Off
    /\ recorded' = recorded \union {e}
    /\ handed' = handed \union {e}
    /\ UNCHANGED <<queue, worker, batch, stopping, stopper, tail, accepted, table,
                   droppedEntries>>

\* The loop runs the callback, on the queue the thread saw.
RunCallback(e) ==
    /\ e \in handed /\ queue # Off
    /\ handed' = handed \ {e}
    /\ Enqueue(e)
    /\ UNCHANGED <<worker, batch, stopping, stopper, tail, table, recorded>>

-----------------------------------------------------------------------------
(* The writer: one pass of the loop of _drain_queue(). *)

StartWriter ==
    /\ queue' = <<>>
    /\ worker' = "waiting"
    /\ batch' = <<>> /\ stopping' = FALSE

\* The first entry of a batch, or the sentinel with nothing to write.
TakeFirst ==
    /\ worker = "waiting" /\ queue # Off /\ queue # <<>>
    /\ queue' = Tail(queue)
    /\ IF Head(queue) = Shutdown
       THEN worker' = "pruning" /\ stopping' = TRUE /\ UNCHANGED batch
       ELSE worker' = "collecting" /\ batch' = <<Head(queue)>> /\ UNCHANGED stopping
    /\ UNCHANGED <<handed, stopper, tail, accepted, table, droppedEntries, recorded>>

TakeNext ==
    /\ worker = "collecting" /\ queue # Off /\ queue # <<>> /\ Len(batch) < BatchMax
    /\ queue' = Tail(queue)
    /\ IF Head(queue) = Shutdown
       THEN worker' = "inserting" /\ stopping' = TRUE /\ UNCHANGED batch
       ELSE batch' = Append(batch, Head(queue)) /\ UNCHANGED <<worker, stopping>>
    /\ UNCHANGED <<handed, stopper, tail, accepted, table, droppedEntries, recorded>>

\* The batch is full, or nothing more arrived in time.
CloseBatch ==
    /\ worker = "collecting"
    /\ worker' = "inserting"
    /\ UNCHANGED <<queue, handed, batch, stopping, stopper, tail, accepted, table,
                   droppedEntries, recorded>>

\* Mutant: a failed insert ends the writer.
InsertOrEnd ==
    /\ worker = "inserting"
    /\ \/ table' = table \o batch /\ worker' = "pruning"
       \/ UNCHANGED table /\ worker' = "ended"
    /\ batch' = <<>>
    /\ UNCHANGED <<queue, handed, stopping, stopper, tail, accepted, droppedEntries, recorded>>

\* insert_many answers: the rows are in, or the failure is logged and they are gone.
InsertBatch ==
    /\ worker = "inserting"
    /\ table' \in {table \o batch, table}
    /\ batch' = <<>> /\ worker' = "pruning"
    /\ UNCHANGED <<queue, handed, stopping, stopper, tail, accepted, droppedEntries, recorded>>

\* The retention prune, which deletes only rows older than any of these, and
\* the end of the pass.
EndPass ==
    /\ worker = "pruning"
    /\ worker' = IF stopping THEN "ended" ELSE "waiting"
    /\ UNCHANGED <<queue, handed, batch, stopping, stopper, tail, accepted, table,
                   droppedEntries, recorded>>

\* Cancellation, at whatever the writer awaits: the batch in hand is gone, unless
\* its insert had been committed.
CancelWriter ==
    /\ table' \in IF worker = "inserting" THEN {table \o batch, table} ELSE {table}
    /\ batch' = <<>>

-----------------------------------------------------------------------------
(* stop_db_writer(). *)

\* What is on the queue but the sentinel, which is there at most once.
EntriesOf(q) ==
    IF Shutdown \in ToSet(q) THEN RemoveAt(q, CHOOSE k \in DOMAIN q : q[k] = Shutdown) ELSE q

\* The queue is forgotten, with whatever is still on it or handed to the loop.
Forget ==
    /\ queue' = Off /\ handed' = {} /\ tail' = <<>>
    /\ worker' = Off /\ stopping' = FALSE
    /\ stopper' = "idle"

\* Mutant: the final flush reads the queue without emptying it.
FlushCopy ==
    IF EntriesOf(queue) = <<>> THEN Forget
    ELSE /\ UNCHANGED queue /\ tail' = EntriesOf(queue)
         /\ worker' = "ended" /\ stopper' = "flushing"
         /\ UNCHANGED <<handed, stopping>>

\* After the writer: take everything left off the queue and insert it, if there
\* is anything.
Flush ==
    IF EntriesOf(queue) = <<>> THEN Forget
    ELSE /\ queue' = <<>> /\ tail' = EntriesOf(queue)
         /\ worker' = "ended" /\ stopper' = "flushing"
         /\ UNCHANGED <<handed, stopping>>

\* The sentinel goes behind the entries; a jammed queue cancels the writer at once.
BeginStop ==
    /\ stopper = "idle" /\ queue # Off
    /\ \/ /\ Running /\ Len(queue) < QueueMax
          /\ queue' = Append(queue, Shutdown) /\ stopper' = "waiting"
          /\ UNCHANGED <<handed, worker, batch, stopping, table, tail>>
       \/ Running /\ Len(queue) >= QueueMax /\ CancelWriter /\ Flush
       \/ ~Running /\ Flush /\ UNCHANGED <<batch, table>>
    /\ UNCHANGED <<accepted, droppedEntries>>

\* The writer finished; or it did not in _STOP_TIMEOUT_SECONDS, and is cancelled.
WriterEnded ==
    /\ stopper = "waiting" /\ worker = "ended"
    /\ Flush
    /\ UNCHANGED <<batch, accepted, table, droppedEntries, recorded>>

\* Mutant: an insert under way is waited for.
StopTimesOutUnlessInserting ==
    /\ stopper = "waiting" /\ Running /\ worker # "inserting"
    /\ CancelWriter /\ Flush
    /\ UNCHANGED <<accepted, droppedEntries, recorded>>

StopTimesOut ==
    /\ stopper = "waiting" /\ Running
    /\ CancelWriter /\ Flush
    /\ UNCHANGED <<accepted, droppedEntries, recorded>>

\* The final insert answers, which nothing bounds.
EndStop ==
    /\ stopper = "flushing"
    /\ table' \in {table \o tail, table}
    /\ Forget
    /\ UNCHANGED <<batch, accepted, droppedEntries, recorded>>

\* The task that is stopping the writer is cancelled.  During the wait the
\* cancellation reaches the writer and is swallowed: stopping goes on.  During
\* the flush it escapes, and the queue stays, without a writer.
StopCancelledWaiting ==
    /\ stopper = "waiting"
    /\ IF Running THEN CancelWriter ELSE UNCHANGED <<batch, table>>
    /\ Flush
    /\ UNCHANGED <<accepted, droppedEntries, recorded>>

StopCancelledFlushing ==
    /\ stopper = "flushing"
    /\ table' \in {table \o tail, table}
    /\ tail' = <<>> /\ stopper' = "idle"
    /\ UNCHANGED <<queue, handed, worker, batch, stopping, accepted, droppedEntries, recorded>>

-----------------------------------------------------------------------------
\* What the event loop and its timers do, and what the database has to answer.
CollectStep == TakeFirst \/ TakeNext \/ CloseBatch
WaitStep == WriterEnded \/ StopTimesOut
WriterAnswer == InsertBatch \/ EndPass

WriterStep == CollectStep \/ WriterAnswer
StopStep == WaitStep \/ EndStop
RecordStep == \E e \in LogEntries : Record(e) \/ RecordInThread(e) \/ RunCallback(e)

-----------------------------------------------------------------------------
(* What the log promises. *)

\* One entry was queued before another.
QueuedBefore(d, e) == \E k, l \in DOMAIN accepted : k < l /\ accepted[k] = d /\ accepted[l] = e

\* Rows reach the table in the order in which their entries were queued, each at
\* most once, although two tasks take entries off the queue and one of them may be
\* cancelled with a batch in its hands (_drain_queue, stop_db_writer): no entry is
\* queued twice, and of any two on their way the earlier one was queued first.
RowsInOrder ==
    LET rows == table \o batch \o tail
                    \o (IF queue = Off THEN <<>> ELSE EntriesOf(queue))
    IN /\ IsInjective(accepted)
       /\ ToSet(rows) \subseteq ToSet(accepted)
       /\ \A i, j \in DOMAIN rows : i < j => QueuedBefore(rows[i], rows[j])

\* stop_db_writer returns, whether or not the writer does: "take the loss rather than
\* holding up the shutdown" (action_log.py:374-376).
StopReturns == (stopper # "idle") ~> (stopper = "idle")
=============================================================================
