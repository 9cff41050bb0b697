------------------------------ MODULE Lifespan ------------------------------
(***************************************************************************)
(* The application's life (main.py): a start-up task prepares the database *)
(* and publishes every service in one step, retrying the whole preparation *)
(* until it succeeds; shutdown cancels that task and the start-up jobs,    *)
(* stops the scheduler and the action log's writer, and disposes of the    *)
(* engine.  The action log is the module it extends.                       *)
(***************************************************************************)
EXTENDS ActionLog

VARIABLES startup,    \* where the task database_startup stands
          lifespan,   \* where the lifespan function stands
          scheduler,  \* the scheduler is running
          published,  \* the repositories and services are set
          jobs        \* startup_jobs are running

vars == <<queue, handed, worker, batch, stopping, stopper, tail, accepted, table,
          droppedEntries, recorded, startup, lifespan, scheduler, published, jobs>>

lifeVars == <<startup, lifespan, scheduler, published, jobs>>

StartupOver == startup \in {"done", "cancelled"}

TypeOK ==
    /\ LogTypeOK
    /\ startup \in {"preparing", "rolling back", "done", "cancelled"}
    /\ lifespan \in {"serving", "ending startup", "stopping log", "closed"}
    /\ {scheduler, published, jobs} \subseteq BOOLEAN

Init ==
    /\ LogInit
    /\ startup = "preparing" /\ lifespan = "serving"
    /\ scheduler = FALSE /\ published = FALSE /\ jobs = FALSE

-----------------------------------------------------------------------------
(* initialize_with_retry(). *)

\* The probe, the schema and the start-up queries answered: the writer and the
\* scheduler start, and everything is published, without an await in between.
Activate ==
    /\ startup = "preparing"
    /\ StartWriter
    /\ startup' = "done" /\ scheduler' = TRUE /\ published' = TRUE
    /\ jobs' \in BOOLEAN
    /\ UNCHANGED <<handed, stopper, tail, accepted, table, droppedEntries, recorded, lifespan>>

\* The preparation failed or took longer than _DB_INIT_TIMEOUT: there is no
\* writer to stop, and the task sleeps before the next attempt.
PreparationFails ==
    /\ startup = "preparing"
    /\ startup' = "rolling back"
    /\ UNCHANGED <<logVars, lifespan, scheduler, published, jobs>>

\* The writer was started and the scheduler was not: the roll-back stops the
\* writer, which has not run yet.
ActivationFails ==
    /\ startup = "preparing"
    /\ queue' = <<Shutdown>> /\ worker' = "waiting" /\ stopper' = "waiting"
    /\ batch' = <<>> /\ stopping' = FALSE
    /\ startup' = "rolling back"
    /\ UNCHANGED <<handed, tail, accepted, table, droppedEntries, recorded, lifespan,
                   scheduler, published, jobs>>

\* The roll-back is over and the pause has passed.
Retry ==
    /\ startup = "rolling back" /\ stopper = "idle"
    /\ startup' = "preparing"
    /\ UNCHANGED <<logVars, lifespan, scheduler, published, jobs>>

JobsEnd ==
    /\ jobs
    /\ jobs' = FALSE
    /\ UNCHANGED <<logVars, startup, lifespan, scheduler, published>>

-----------------------------------------------------------------------------
(* Shutdown. *)

\* database_startup.cancel(), delivered where that task awaits.
CancelStartup ==
    \/ /\ startup \in {"preparing", "rolling back"} /\ stopper = "idle"
       /\ startup' = "cancelled" /\ UNCHANGED logVars
    \/ startup = "rolling back" /\ StopCancelledWaiting /\ UNCHANGED startup
    \/ startup = "rolling back" /\ StopCancelledFlushing /\ startup' = "cancelled"
    \/ startup = "done" /\ UNCHANGED <<logVars, startup>>

BeginShutdown ==
    /\ lifespan = "serving"
    /\ lifespan' = "ending startup"
    /\ CancelStartup
    /\ UNCHANGED <<scheduler, published, jobs>>

\* Mutant: shutdown cancels the start-up task and does not wait for its end.
StopServicesAtOnce ==
    /\ lifespan = "ending startup"
    /\ jobs' = FALSE /\ scheduler' = FALSE
    /\ lifespan' = "stopping log"
    /\ IF queue = Off THEN UNCHANGED logVars ELSE BeginStop /\ UNCHANGED recorded
    /\ UNCHANGED <<startup, published>>

\* The start-up task is over, and its jobs are cancelled: the scheduler goes and
\* the writer is told to stop.
StopServices ==
    /\ lifespan = "ending startup" /\ StartupOver
    /\ jobs' = FALSE /\ scheduler' = FALSE
    /\ lifespan' = "stopping log"
    /\ IF queue = Off THEN UNCHANGED logVars ELSE BeginStop /\ UNCHANGED recorded
    /\ UNCHANGED <<startup, published>>

Close ==
    /\ lifespan = "stopping log" /\ stopper = "idle"
    /\ lifespan' = "closed" /\ published' = FALSE
    /\ UNCHANGED <<logVars, startup, scheduler, jobs>>

Closed == lifespan = "closed" /\ UNCHANGED vars

-----------------------------------------------------------------------------
LogNext == (RecordStep \/ WriterStep \/ StopStep) /\ UNCHANGED lifeVars

Next ==
    \/ lifespan # "closed" /\ LogNext
    \/ Activate \/ PreparationFails \/ ActivationFails \/ Retry \/ JobsEnd
    \/ BeginShutdown \/ StopServices \/ Close \/ Closed

\* The event loop runs every task that can run, and the timers fire: the wait for the
\* writer ends, and so does a preparation.  Nobody owes a successful preparation, a
\* failed one, a request or a shutdown.
Fairness ==
    /\ WF_vars(CollectStep /\ UNCHANGED lifeVars)
    /\ WF_vars(WaitStep /\ UNCHANGED lifeVars)
    /\ WF_vars(Retry)
    /\ WF_vars(Activate \/ PreparationFails \/ ActivationFails)
    /\ WF_vars(StopServices)
    /\ WF_vars(Close)

\* The database answers, or fails, every call that has no time limit of its own.
DatabaseAnswers ==
    /\ WF_vars(WriterAnswer /\ UNCHANGED lifeVars)
    /\ WF_vars(EndStop /\ UNCHANGED lifeVars)

Spec == Init /\ [][Next]_vars
FairSpec == Spec /\ Fairness
AnsweringSpec == FairSpec /\ DatabaseAnswers

-----------------------------------------------------------------------------
\* Once the engine is disposed of, nothing that uses it is left: no service is
\* published, and neither the start-up task, its jobs, the scheduler nor the
\* writer is running ("so it cannot publish new services after teardown",
\* main.py:426-427).
NothingOutlivesTheEngine ==
    lifespan = "closed" => StartupOver /\ ~published /\ ~scheduler /\ ~jobs /\ ~Running

\* "Stop recovery before disposing the engine" (main.py:426): the start-up task
\* ends once it is cancelled.
RecoveryStops == (lifespan = "ending startup") ~> StartupOver

\* What the writer or the final flush takes off the queue leaves it: while the database
\* answers, every entry gets its turn (_drain_queue, stop_db_writer).
EntriesGetTheirTurn ==
    DatabaseAnswers =>
        \A e \in LogEntries :
            (queue # Off /\ e \in ToSet(queue)) ~> (queue = Off \/ e \notin ToSet(queue))

\* A writer whose database does not answer holds up no shutdown (_STOP_TIMEOUT_SECONDS,
\* the jammed queue): it closes, or is at the last insert of stop_db_writer, the one
\* call that nothing bounds.
OnlyTheFlushHoldsUp ==
    (lifespan = "stopping log") ~> (lifespan = "closed" \/ stopper = "flushing")
=============================================================================
