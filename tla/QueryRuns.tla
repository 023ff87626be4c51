----------------------------- MODULE QueryRuns ------------------------------
(***************************************************************************)
(* A query of Data Explorer, from the QueryLog row that asks for it to the *)
(* table of its results.  Three processes meet in the row:                 *)
(*                                                                         *)
(*   - the celery task _run_querylog_query, which executes the statements  *)
(*     of the query in one transaction of the datasets database and saves  *)
(*     the outcome in the row;                                             *)
(*   - the thread it starts, which polls the row for CANCELLED and then    *)
(*     cancels whatever statement is executing, again and again;           *)
(*   - QueryLogUpdateView, with which the user cancels: it reads the row   *)
(*     and then saves the whole of it.                                     *)
(***************************************************************************)
EXTENDS Naturals, FiniteSets

CONSTANTS
    Query,       \* rows of QueryLog
    MaxCrashes   \* bound on tasks that end with an exception or a dead worker

ASSUME CrashesAssumption == MaxCrashes \in Nat

VARIABLES
    log,       \* QueryLog.state
    rows,      \* whether duration and rows are saved in the row
    task,      \* where _run_querylog_query is
    stmt,      \* the statements it has executed
    table,     \* the output table: in the open transaction, committed
    thread,    \* the polling thread
    update,    \* QueryLogUpdateView: the value of rows that it has read
    timedOut,  \* history: queries that statement_timeout ended
    crashes

vars == <<log, rows, task, stmt, table, thread, update, timedOut, crashes>>

\* the statements describe the columns, create the table, insert the results and count them
Statements == 4
CreateTable == 2
Running == {"ready", "executing"}
NotReading == [reading |-> FALSE, rows |-> FALSE]

TypeOK ==
    /\ log \in [Query -> {"none", "RUNNING", "FAILED", "COMPLETE", "CANCELLED"}]
    /\ rows \in [Query -> BOOLEAN]
    /\ task \in [Query -> Running \cup {"none", "queued", "failing", "left", "joining",
                                        "done", "dead"}]
    /\ stmt \in [Query -> 0..Statements]
    /\ table \in [Query -> {"absent", "open", "committed"}]
    /\ thread \in [Query -> {"none", "polling", "cancelling", "over"}]
    /\ update \in [Query -> [reading : BOOLEAN, rows : BOOLEAN]]
    /\ timedOut \in SUBSET Query
    /\ crashes \in 0..MaxCrashes

Init ==
    /\ log = [q \in Query |-> "none"]
    /\ rows = [q \in Query |-> FALSE]
    /\ task = [q \in Query |-> "none"]
    /\ stmt = [q \in Query |-> 0]
    /\ table = [q \in Query |-> "absent"]
    /\ thread = [q \in Query |-> "none"]
    /\ update = [q \in Query |-> NotReading]
    /\ timedOut = {}
    /\ crashes = 0

-----------------------------------------------------------------------------
(* The web: submit_query_for_execution and QueryLogUpdateView *)

QueryLog_create(q) ==
    /\ log[q] = "none"
    /\ log' = [log EXCEPT ![q] = "RUNNING"]
    /\ UNCHANGED <<rows, task, stmt, table, thread, update, timedOut, crashes>>

run_querylog_query_delay(q) ==
    /\ log[q] # "none"
    /\ task[q] = "none"
    /\ task' = [task EXCEPT ![q] = "queued"]
    /\ UNCHANGED <<log, rows, stmt, table, thread, update, timedOut, crashes>>

QueryLogUpdateView_get_object(q) ==
    /\ log[q] # "none"
    /\ ~update[q].reading
    /\ update' = [update EXCEPT ![q] = [reading |-> TRUE, rows |-> rows[q]]]
    /\ UNCHANGED <<log, rows, task, stmt, table, thread, timedOut, crashes>>

\* form.save(), of every column
QueryLogUpdateView_save(q) ==
    /\ update[q].reading
    /\ log' = [log EXCEPT ![q] = "CANCELLED"]
    /\ rows' = [rows EXCEPT ![q] = update[q].rows]
    /\ update' = [update EXCEPT ![q] = NotReading]
    /\ UNCHANGED <<task, stmt, table, thread, timedOut, crashes>>

-----------------------------------------------------------------------------
(* The task *)

\* the connection, and the thread
run_querylog_query_start(q) ==
    /\ task[q] = "queued"
    /\ task' = [task EXCEPT ![q] = "ready"]
    /\ thread' = [thread EXCEPT ![q] = "polling"]
    /\ UNCHANGED <<log, rows, stmt, table, update, timedOut, crashes>>

\* variant: the statements do not end
execute_again(q) ==
    /\ task[q] = "ready"
    /\ task' = [task EXCEPT ![q] = "executing"]
    /\ UNCHANGED <<log, rows, stmt, table, thread, update, timedOut, crashes>>

execute(q) ==
    /\ task[q] = "ready"
    /\ stmt[q] < Statements
    /\ task' = [task EXCEPT ![q] = "executing"]
    /\ UNCHANGED <<log, rows, stmt, table, thread, update, timedOut, crashes>>

\* Nothing bounds the time a statement takes but its timeout.
executed(q) ==
    /\ task[q] = "executing"
    /\ task' = [task EXCEPT ![q] = "ready"]
    /\ stmt' = [stmt EXCEPT ![q] = @ + 1]
    /\ table' = [table EXCEPT ![q] = IF stmt[q] + 1 = CreateTable THEN "open" ELSE @]
    /\ UNCHANGED <<log, rows, thread, update, timedOut, crashes>>

\* variant: a cancelled statement goes on to be marked COMPLETE
statement_times_out_unnoticed(q) ==
    /\ task[q] = "executing"
    /\ task' = [task EXCEPT ![q] = "ready"]
    /\ stmt' = [stmt EXCEPT ![q] = Statements]
    /\ table' = [table EXCEPT ![q] = "absent"]
    /\ timedOut' = timedOut \cup {q}
    /\ UNCHANGED <<log, rows, thread, update, crashes>>

\* QueryCanceled, which Postgres raises for statement_timeout too: only a return, and the
\* transaction is aborted
statement_times_out(q) ==
    /\ task[q] = "executing"
    /\ task' = [task EXCEPT ![q] = "left"]
    /\ table' = [table EXCEPT ![q] = "absent"]
    /\ timedOut' = timedOut \cup {q}
    /\ UNCHANGED <<log, rows, stmt, thread, update, crashes>>

statement_fails(q) ==
    /\ task[q] = "executing"
    /\ task' = [task EXCEPT ![q] = "failing"]
    /\ table' = [table EXCEPT ![q] = "absent"]
    /\ UNCHANGED <<log, rows, stmt, thread, update, timedOut, crashes>>

\* variant: only the error is saved
mark_query_log_failed_errorOnly(q) ==
    /\ task[q] = "failing"
    /\ task' = [task EXCEPT ![q] = "left"]
    /\ UNCHANGED <<log, rows, stmt, table, thread, update, timedOut, crashes>>

\* save() of the row as it was when the task began, whatever it holds now
mark_query_log_failed(q) ==
    /\ task[q] = "failing"
    /\ log' = [log EXCEPT ![q] = "FAILED"]
    /\ rows' = [rows EXCEPT ![q] = FALSE]
    /\ task' = [task EXCEPT ![q] = "left"]
    /\ UNCHANGED <<stmt, table, thread, update, timedOut, crashes>>

\* variant: the row is not read again
mark_query_log_complete_stale(q) ==
    /\ task[q] = "ready"
    /\ stmt[q] = Statements
    /\ log' = [log EXCEPT ![q] = "COMPLETE"]
    /\ rows' = [rows EXCEPT ![q] = TRUE]
    /\ task' = [task EXCEPT ![q] = "left"]
    /\ UNCHANGED <<stmt, table, thread, update, timedOut, crashes>>

\* select_for_update, and the save under that lock
mark_query_log_complete(q) ==
    /\ task[q] = "ready"
    /\ stmt[q] = Statements
    /\ log' = [log EXCEPT ![q] = IF @ = "RUNNING" THEN "COMPLETE" ELSE @]
    /\ rows' = [rows EXCEPT ![q] = TRUE]
    /\ task' = [task EXCEPT ![q] = "left"]
    /\ UNCHANGED <<stmt, table, thread, update, timedOut, crashes>>

\* continue_polling = False, and join
stop_polling(q) ==
    /\ task[q] = "left"
    /\ task' = [task EXCEPT ![q] = "joining"]
    /\ UNCHANGED <<log, rows, stmt, table, thread, update, timedOut, crashes>>

\* The transaction is committed when the connection's context is left: after the row is
\* marked COMPLETE.
commit(q) ==
    /\ task[q] = "joining"
    /\ thread[q] = "over"
    /\ task' = [task EXCEPT ![q] = "done"]
    /\ table' = [table EXCEPT ![q] = IF @ = "open" THEN "committed" ELSE @]
    /\ UNCHANGED <<log, rows, stmt, thread, update, timedOut, crashes>>

\* No credentials or connection, an exception outside _run_query's try, or the death of
\* the worker: nobody marks the row.
task_dies(q) ==
    /\ task[q] \notin {"none", "done", "dead"}
    /\ crashes < MaxCrashes
    /\ crashes' = crashes + 1
    /\ task' = [task EXCEPT ![q] = "dead"]
    /\ table' = [table EXCEPT ![q] = "absent"]
    /\ thread' = [thread EXCEPT ![q] = "over"]
    /\ UNCHANGED <<log, rows, stmt, update, timedOut>>

-----------------------------------------------------------------------------
(* The thread: poll *)

poll_sees_cancelled(q) ==
    /\ thread[q] = "polling"
    /\ log[q] = "CANCELLED"
    /\ thread' = [thread EXCEPT ![q] = "cancelling"]
    /\ UNCHANGED <<log, rows, task, stmt, table, update, timedOut, crashes>>

\* variant: the statement is cancelled once, and the thread ends
poll_cancels_once(q) ==
    /\ thread[q] = "cancelling"
    /\ thread' = [thread EXCEPT ![q] = "over"]
    /\ IF task[q] = "executing"
       THEN /\ task' = [task EXCEPT ![q] = "left"]
            /\ table' = [table EXCEPT ![q] = "absent"]
       ELSE UNCHANGED <<task, table>>
    /\ UNCHANGED <<log, rows, stmt, update, timedOut, crashes>>

\* conn.cancel(), every second: without effect between two statements, and otherwise a
\* QueryCanceled in the task
poll_cancels(q) ==
    /\ thread[q] = "cancelling"
    /\ task[q] = "executing"
    /\ task' = [task EXCEPT ![q] = "left"]
    /\ table' = [table EXCEPT ![q] = "absent"]
    /\ UNCHANGED <<log, rows, stmt, thread, update, timedOut, crashes>>

\* variant: the loop of cancellations does not look at continue_polling
poll_ends_ifPolling(q) ==
    /\ thread[q] = "polling"
    /\ task[q] = "joining"
    /\ thread' = [thread EXCEPT ![q] = "over"]
    /\ UNCHANGED <<log, rows, task, stmt, table, update, timedOut, crashes>>

\* not continue_polling
poll_ends(q) ==
    /\ thread[q] \in {"polling", "cancelling"}
    /\ task[q] = "joining"
    /\ thread' = [thread EXCEPT ![q] = "over"]
    /\ UNCHANGED <<log, rows, task, stmt, table, update, timedOut, crashes>>

-----------------------------------------------------------------------------
WebNext(q) ==
    \/ QueryLog_create(q) \/ run_querylog_query_delay(q)
    \/ QueryLogUpdateView_get_object(q) \/ QueryLogUpdateView_save(q)

\* the steps of the worker, as opposed to those of the datasets database
WorkerNext(q) ==
    \/ run_querylog_query_start(q) \/ execute(q)
    \/ mark_query_log_failed(q) \/ mark_query_log_complete(q)
    \/ stop_polling(q) \/ commit(q)

PostgresNext(q) == executed(q) \/ statement_times_out(q) \/ statement_fails(q)

PollNext(q) == poll_sees_cancelled(q) \/ poll_cancels(q) \/ poll_ends(q)

Next ==
    \E q \in Query : WebNext(q) \/ WorkerNext(q) \/ PostgresNext(q) \/ PollNext(q) \/ task_dies(q)

Spec == Init /\ [][Next]_vars

\* The worker and its thread go on.  Nothing is assumed of Postgres, which may take for
\* ever over a statement, or of the user.
Fairness == \A q \in Query : WF_vars(WorkerNext(q)) /\ WF_vars(PollNext(q))

FairSpec == Spec /\ Fairness

-----------------------------------------------------------------------------
(* Properties *)

\* What the comment in _run_query says of its lock: no query is marked COMPLETE after it
\* has been marked CANCELLED.
CancelledIsNotCompleted ==
    [][\A run \in Query : log[run] = "CANCELLED" => log'[run] # "COMPLETE"]_vars

\* A query that is COMPLETE has its count and duration, and its results are there or about
\* to be committed, unless the worker died first; whatever the update view has saved
\* over it.
CompleteHasResults ==
    \A q \in Query : log[q] = "COMPLETE" =>
        rows[q] /\ (table[q] \in {"open", "committed"} \/ task[q] = "dead")

\* A run that comes to its end has marked the row, except when statement_timeout ended it:
\* that is taken for a cancellation, and the row stays RUNNING.
EndedRunsAreMarked ==
    \A q \in Query : task[q] = "done" => log[q] # "RUNNING" \/ q \in timedOut

\* A cancelled query stops executing, however long its statement would take.
CancelReachesTheQuery ==
    \A q \in Query : (log[q] = "CANCELLED" /\ task[q] \in Running) ~> task[q] \notin Running

\* The task does not wait for its thread for ever, even when the cancellation comes as the
\* query ends.
RunsEnd == \A q \in Query : task[q] = "left" ~> task[q] \in {"done", "dead"}

=============================================================================
