---------------------------- MODULE ToolQueryLogs ----------------------------
(***************************************************************************)
(* The audit log of what users' tools ask of the datasets database.        *)
(*                                                                         *)
(* Postgres writes a line for each statement.  sync_tool_query_logs, every *)
(* two minutes, reads the lines of a window, from where the last execution *)
(* ended to now, and stores those of users who are known and not deleted.  *)
(* Where it ended is kept in the cache, for five minutes: without it the   *)
(* window begins five minutes ago.                                         *)
(*                                                                         *)
(* Time goes in ticks of two minutes.  A line is named by its statement.   *)
(***************************************************************************)
EXTENDS Naturals, FiniteSets

CONSTANTS
    Statement,
    Execution,    \* executions of the task there may be at a time
    Kept,         \* how long the cache keeps the end of the last window
    MaxTime,      \* bound on the time
    Failure       \* deaths of a worker that there may be

VARIABLES
    now,
    time,         \* when a statement was executed; 0 if it was not yet
    lines,          \* the lines that are written
    dropped,      \* statements whose database user has a deleted_date
    stored,       \* ToolQueryAuditLog
    tables,       \* those with their ToolQueryAuditLogTable rows
    last,         \* query_tool_logs_last_run: at most one, and when it was set
    lockHolder,
    exec,
    excused,      \* history: lines written too late, or whose user was dropped first
    gap,          \* history: lines from before a window that did not meet the last one
    halfStored,   \* history: lines whose execution ended before their tables
    failed

statementVars == <<time, lines, dropped>>
history == <<excused, gap, halfStored>>
vars == <<now, statementVars, stored, tables, last, lockHolder, exec, history, failed>>

\* read: up to where lines were read, by this or an earlier execution
Idle == [pc |-> "idle", from |-> 0, to |-> 0, read |-> 0, todo |-> {}, at |-> {}]

TypeOK ==
    /\ now \in 1..MaxTime
    /\ time \in [Statement -> 0..MaxTime]
    /\ lines \in SUBSET Statement /\ dropped \in SUBSET Statement
    /\ stored \in SUBSET Statement /\ tables \in SUBSET Statement
    /\ last \subseteq [value : 1..MaxTime, set : 1..MaxTime] /\ Cardinality(last) <= 1
    /\ lockHolder \in SUBSET Execution
    /\ exec \in [Execution -> [pc : {"idle", "window", "storing", "created"},
                               from : 0..MaxTime, to : 0..MaxTime, read : 0..MaxTime,
                               todo : SUBSET Statement, at : SUBSET Statement]]
    /\ excused \in SUBSET Statement
    /\ gap \in SUBSET Statement
    /\ halfStored \in SUBSET Statement
    /\ failed \in SUBSET Failure

Init ==
    /\ now = 1
    /\ time = [s \in Statement |-> 0]
    /\ lines = {} /\ dropped = {}
    /\ stored = {} /\ tables = {}
    /\ last = {}
    /\ lockHolder = {}
    /\ exec = [e \in Execution |-> Idle]
    /\ excused = {} /\ gap = {} /\ halfStored = {}
    /\ failed = {}

-----------------------------------------------------------------------------
(* Postgres, its users, and the cache *)

Expired(entry) == now - entry.set >= Kept

tick ==
    /\ now < MaxTime
    /\ now' = now + 1
    /\ UNCHANGED <<statementVars, stored, tables, last, lockHolder, exec, history, failed>>

statement_executed(s) ==
    /\ time[s] = 0
    /\ time' = [time EXCEPT ![s] = now]
    /\ UNCHANGED <<now, lines, dropped, stored, tables, last, lockHolder, exec, history, failed>>

\* a window that contains a statement may have been read before its line is written
line_written(s) ==
    /\ time[s] # 0 /\ s \notin lines
    /\ lines' = lines \cup {s}
    /\ excused' = IF \/ \E entry \in last : time[s] <= entry.value
                     \/ \E e \in Execution : exec[e].pc # "idle" /\ time[s] <= exec[e].read
                  THEN excused \cup {s} ELSE excused
    /\ UNCHANGED <<now, time, dropped, stored, tables, last, lockHolder, exec, gap, halfStored,
                   failed>>

\* delete_unused_datasets_users
user_dropped(s) ==
    /\ time[s] # 0 /\ s \notin dropped
    /\ dropped' = dropped \cup {s}
    /\ excused' = excused \cup ({s} \ stored)
    /\ UNCHANGED <<now, time, lines, stored, tables, last, lockHolder, exec, gap, halfStored, failed>>

last_run_expires ==
    /\ \E entry \in last : Expired(entry)
    /\ last' = {}
    /\ UNCHANGED <<now, statementVars, stored, tables, lockHolder, exec, history, failed>>

-----------------------------------------------------------------------------
(* sync_tool_query_logs *)

\* The window: from the end of the last, or five minutes ago.  What is older and neither
\* stored nor excused is in the gap between two windows.
window_chosen(e) ==
    /\ exec[e].pc = "idle"
    /\ lockHolder = {}
    /\ lockHolder' = {e}
    /\ LET from == IF last = {} THEN IF now > Kept THEN now - Kept ELSE 0
                   ELSE CHOOSE value \in {entry.value : entry \in last} : TRUE
       IN /\ exec' = [exec EXCEPT ![e] = [Idle EXCEPT !.pc = "window", !.from = from, !.to = now,
                                                            !.read = from]]
          /\ gap' = IF last = {} THEN gap \cup {s \in Statement : time[s] \in 1..from} ELSE gap
    /\ UNCHANGED <<now, statementVars, stored, tables, last, excused, halfStored, failed>>

InWindow(e, s) == exec[e].from < time[s] /\ time[s] <= exec[e].to

\* variant: the window is open at both ends
logs_fetchedBefore(e) ==
    /\ exec[e].pc = "window"
    /\ exec' = [exec EXCEPT ![e].pc = "storing", ![e].read = exec[e].to,
                            ![e].todo = {s \in lines : InWindow(e, s) /\ time[s] < exec[e].to}]
    /\ UNCHANGED <<now, statementVars, stored, tables, last, lockHolder, history, failed>>

\* all portions of all files
logs_fetched(e) ==
    /\ exec[e].pc = "window"
    /\ exec' = [exec EXCEPT ![e].pc = "storing", ![e].read = exec[e].to,
                            ![e].todo = {s \in lines : InWindow(e, s)}]
    /\ UNCHANGED <<now, statementVars, stored, tables, last, lockHolder, history, failed>>

\* a user who is not known, or a record that is there: IntegrityError
line_skipped(e, s) ==
    /\ exec[e].pc = "storing"
    /\ s \in exec[e].todo
    /\ s \in dropped \cup stored
    /\ exec' = [exec EXCEPT ![e].todo = @ \ {s}]
    /\ UNCHANGED <<now, statementVars, stored, tables, last, lockHolder, history, failed>>

line_stored(e, s) ==
    /\ exec[e].pc = "storing"
    /\ s \in exec[e].todo
    /\ s \notin dropped \cup stored
    /\ stored' = stored \cup {s}
    /\ exec' = [exec EXCEPT ![e].pc = "created", ![e].at = {s}]
    /\ UNCHANGED <<now, statementVars, tables, last, lockHolder, history, failed>>

\* variant: the tables are not stored
tables_storedNot(e) ==
    /\ exec[e].pc = "created"
    /\ exec' = [exec EXCEPT ![e].pc = "storing", ![e].todo = @ \ exec[e].at, ![e].at = {}]
    /\ UNCHANGED <<now, statementVars, stored, tables, last, lockHolder, history, failed>>

tables_stored(e) ==
    /\ exec[e].pc = "created"
    /\ tables' = tables \cup exec[e].at
    /\ exec' = [exec EXCEPT ![e].pc = "storing", ![e].todo = @ \ exec[e].at, ![e].at = {}]
    /\ UNCHANGED <<now, statementVars, stored, last, lockHolder, history, failed>>

\* variant: where an execution ended is kept beside where others did
execution_endsAdding(e) ==
    /\ exec[e].pc = "storing"
    /\ exec[e].todo = {}
    /\ last' = last \cup {[value |-> exec[e].to, set |-> now]}
    /\ lockHolder' = lockHolder \ {e}
    /\ exec' = [exec EXCEPT ![e] = Idle]
    /\ UNCHANGED <<now, statementVars, stored, tables, history, failed>>

\* cache.set, and the release of the lock if it is still its own
execution_ends(e) ==
    /\ exec[e].pc = "storing"
    /\ exec[e].todo = {}
    /\ last' = {[value |-> exec[e].to, set |-> now]}
    /\ lockHolder' = lockHolder \ {e}
    /\ exec' = [exec EXCEPT ![e] = Idle]
    /\ UNCHANGED <<now, statementVars, stored, tables, history, failed>>

\* timeout=1800
lock_expires ==
    /\ lockHolder # {}
    /\ lockHolder' = {}
    /\ UNCHANGED <<now, statementVars, stored, tables, last, exec, history, failed>>

\* the log or the database cannot be reached, or the worker dies
execution_dies(e, f) ==
    /\ exec[e].pc # "idle"
    /\ f \notin failed
    /\ failed' = failed \cup {f}
    /\ halfStored' = halfStored \cup exec[e].at
    /\ lockHolder' \in {lockHolder, lockHolder \ {e}}
    /\ exec' = [exec EXCEPT ![e] = Idle]
    /\ UNCHANGED <<now, statementVars, stored, tables, last, excused, gap>>

-----------------------------------------------------------------------------
ExecutionNext(e) ==
    \/ window_chosen(e) \/ logs_fetched(e) \/ tables_stored(e) \/ execution_ends(e)
    \/ \E s \in Statement : line_skipped(e, s) \/ line_stored(e, s)

Next ==
    \/ tick \/ last_run_expires \/ lock_expires
    \/ \E s \in Statement : statement_executed(s) \/ line_written(s) \/ user_dropped(s)
    \/ \E e \in Execution : ExecutionNext(e) \/ \E f \in Failure : execution_dies(e, f)

Spec == Init /\ [][Next]_vars

\* Executions go on and are started again and again, and a lock that was left expires.
Fairness == (\A e \in Execution : WF_vars(ExecutionNext(e))) /\ WF_vars(lock_expires)

FairSpec == Spec /\ Fairness

-----------------------------------------------------------------------------
(* Properties *)

\* Up to the end of the last window every statement is stored, unless its line was written
\* after the window was read, its user was dropped first, or a window did not meet the last
\* one because the cache had forgotten it: whatever executions overlap or die.
WindowsLeaveNothing ==
    \A entry \in last, s \in lines :
        time[s] <= entry.value => s \in stored \cup excused \cup gap

\* A stored statement has its tables, or is about to, unless the execution ended between:
\* the next finds the record there, and skips it with its tables.
StoredHaveTables ==
    stored \subseteq tables \cup halfStored \cup UNION {exec[e].at : e \in Execution}

\* A line is stored in the end, with the same exceptions.
LinesAreStored == \A s \in Statement : (s \in lines) ~> (s \in stored \cup excused \cup gap)

=============================================================================
