--------------------------- MODULE Notifications ----------------------------
(***************************************************************************)
(* Emails about changes of one source of data, a table or the query of a   *)
(* data cut, to those who subscribed to its dataset.                       *)
(*                                                                         *)
(*   - Rows of dataflow.metadata describe the source each time it was      *)
(*     found updated; the changelog is made of the rows that differ from   *)
(*     the row before.  For a query it is made of ten rows at most.        *)
(*   - send_notification_emails, every hour, notes the newest change and   *)
(*     who is to be told (a transaction), then lists what is not sent and  *)
(*     deals with each in a transaction that locks its row.  A lock in the *)
(*     cache keeps other executions out, for an hour.                      *)
(*                                                                         *)
(* A row of metadata is represented by what is different in it from the    *)
(* row before, a change by the position of its row, a UserNotification by  *)
(* the change and the user.                                                *)
(***************************************************************************)
EXTENDS Naturals, Sequences, FiniteSets

CONSTANTS
    Subscriber,   \* users with a subscription row, active or not
    Execution,    \* executions of the task there may be at a time
    QueryLimit,   \* rows the changelog of a query is made of: 10 in the code
    MaxRows,      \* bound on the rows of metadata
    Failure       \* failures there may be: of an email, or of a worker

VARIABLES
    source,        \* "table" or "query"
    metadata,      \* the rows of dataflow.metadata of the source
    wants,         \* what the subscription of a user asks for
    notifications, \* the changes with a Notification
    told,          \* the UserNotifications
    saved,         \* those with an email_id
    sent,          \* history: those that GOV.UK Notify has sent an email for
    twice,         \* history: those that it has sent two for
    interrupted,   \* history: those whose email was sent and not saved
    lockHolder,    \* who holds the lock in the cache
    exec,          \* the executions of send_notification_emails
    failed         \* failures that have happened

noteVars == <<notifications, told, saved>>
emailVars == <<sent, twice, interrupted>>
notifyVars == <<source, metadata, wants, noteVars, emailVars, lockHolder, exec, failed>>

Kinds == {"schema", "data", "neither", "same"}
UserNotification == (1..MaxRows) \X Subscriber
Idle == [pc |-> "idle", todo |-> {}, current |-> {}]

NotifyTypeOK ==
    /\ source \in {"table", "query"}
    /\ metadata \in Seq(Kinds) /\ Len(metadata) <= MaxRows
    /\ wants \in [Subscriber -> {"nothing", "columns", "all"}]
    /\ notifications \in SUBSET (1..MaxRows)
    /\ told \in SUBSET UserNotification
    /\ saved \in SUBSET UserNotification
    /\ sent \in SUBSET UserNotification
    /\ twice \in SUBSET UserNotification
    /\ interrupted \in SUBSET UserNotification
    /\ lockHolder \in SUBSET Execution
    /\ exec \in [Execution -> [pc : {"idle", "locked", "noted", "sending", "row", "emailed"},
                               todo : SUBSET UserNotification,
                               current : SUBSET UserNotification]]
    /\ failed \in SUBSET Failure

NotifyInit ==
    /\ source \in {"table", "query"}
    /\ metadata = <<>>
    /\ wants = [u \in Subscriber |-> "nothing"]
    /\ notifications = {} /\ told = {} /\ saved = {}
    /\ sent = {} /\ twice = {} /\ interrupted = {}
    /\ lockHolder = {}
    /\ exec = [e \in Execution |-> Idle]
    /\ failed = {}

-----------------------------------------------------------------------------
(* The source of data and its subscribers *)

\* do_store_custom_dataset_query_metadata, or the pipeline that fills the table: the first
\* row differs from nothing; the JSON of a structure may differ in its text alone
metadata_row_inserted(kind) ==
    /\ Len(metadata) < MaxRows
    /\ metadata = <<>> => kind = "schema"
    /\ metadata' = Append(metadata, kind)
    /\ UNCHANGED <<source, wants, noteVars, emailVars, lockHolder, exec, failed>>

\* DataSetSubscriptionView.form_valid and unsubscribe
subscription_saved(u, choice) ==
    /\ wants[u] # choice
    /\ wants' = [wants EXCEPT ![u] = choice]
    /\ UNCHANGED <<source, metadata, noteVars, emailVars, lockHolder, exec, failed>>

\* the positions of the rows the changelog is made of: for a query, ORDER BY id ASC LIMIT 10
Visible == {c \in 1..Len(metadata) : source = "query" => c <= QueryLimit}
Changelog == {c \in Visible : metadata[c] # "same"}

\* changelog[0]
IsNewest(c, changes) == c \in changes /\ \A other \in changes : other <= c

Recipients(kind) ==
    CASE kind = "schema" -> {u \in Subscriber : wants[u] \in {"columns", "all"}}
      [] kind = "data" -> {u \in Subscriber : wants[u] = "all"}
      [] OTHER -> {}

-----------------------------------------------------------------------------
(* send_notification_emails *)

acquire_lock(e) ==
    /\ exec[e].pc = "idle"
    /\ lockHolder = {}
    /\ lockHolder' = {e}
    /\ exec' = [exec EXCEPT ![e].pc = "locked"]
    /\ UNCHANGED <<source, metadata, wants, noteVars, emailVars, failed>>

\* variant: never given up
lock_expiresNever == FALSE /\ UNCHANGED notifyVars

\* after an hour, whatever its holder does
lock_expires ==
    /\ lockHolder # {}
    /\ lockHolder' = {}
    /\ UNCHANGED <<source, metadata, wants, noteVars, emailVars, exec, failed>>

\* create_notifications: one transaction
create_notifications(e) ==
    /\ exec[e].pc = "locked"
    /\ exec' = [exec EXCEPT ![e].pc = "noted"]
    /\ LET new == {c \in Changelog : IsNewest(c, Changelog)} \ notifications
       IN /\ notifications' = notifications \cup new
          /\ told' = told \cup {n \in UserNotification :
                                  n[1] \in new /\ n[2] \in Recipients(metadata[n[1]])}
    /\ UNCHANGED <<source, metadata, wants, saved, emailVars, lockHolder, failed>>

\* variant: what an earlier execution left is not listed
list_unsentOfNewest(e) ==
    /\ exec[e].pc = "noted"
    /\ exec' = [exec EXCEPT ![e].pc = "sending",
                            ![e].todo = {n \in told \ saved : IsNewest(n[1], Changelog)}]
    /\ UNCHANGED <<source, metadata, wants, noteVars, emailVars, lockHolder, failed>>

list_unsent(e) ==
    /\ exec[e].pc = "noted"
    /\ exec' = [exec EXCEPT ![e].pc = "sending", ![e].todo = told \ saved]
    /\ UNCHANGED <<source, metadata, wants, noteVars, emailVars, lockHolder, failed>>

RowIsFree(n) == \A other \in Execution : exec[other].current # {n}

\* variant: the email_id is not looked at again under the row's lock
select_for_updateOnly(e, n) ==
    /\ exec[e].pc = "sending"
    /\ n \in exec[e].todo
    /\ RowIsFree(n)
    /\ exec' = [exec EXCEPT ![e].pc = "row", ![e].current = {n}]
    /\ UNCHANGED <<source, metadata, wants, noteVars, emailVars, lockHolder, failed>>

\* The row is locked and read: another execution may have sent it since it was listed.
select_for_update(e, n) ==
    /\ exec[e].pc = "sending"
    /\ n \in exec[e].todo
    /\ RowIsFree(n)
    /\ exec' = IF n \in saved
               THEN [exec EXCEPT ![e].todo = @ \ {n}]
               ELSE [exec EXCEPT ![e].pc = "row", ![e].current = {n}]
    /\ UNCHANGED <<source, metadata, wants, noteVars, emailVars, lockHolder, failed>>

send_email(e, n) ==
    /\ exec[e].pc = "row"
    /\ exec[e].current = {n}
    /\ exec' = [exec EXCEPT ![e].pc = "emailed"]
    /\ sent' = sent \cup {n}
    /\ twice' = IF n \in sent THEN twice \cup {n} ELSE twice
    /\ UNCHANGED <<source, metadata, wants, noteVars, interrupted, lockHolder, failed>>

\* An answer without an id is an EmailSendFailureException: it is logged, and the next
\* execution tries again.
send_email_fails(e, n, f) ==
    /\ exec[e].pc = "row"
    /\ exec[e].current = {n}
    /\ f \notin failed
    /\ failed' = failed \cup {f}
    /\ exec' = [exec EXCEPT ![e].pc = "sending", ![e].todo = @ \ {n}, ![e].current = {}]
    /\ UNCHANGED <<source, metadata, wants, noteVars, emailVars, lockHolder>>

\* email_id and the event, and the commit
save_email_id(e, n) ==
    /\ exec[e].pc = "emailed"
    /\ exec[e].current = {n}
    /\ saved' = saved \cup {n}
    /\ exec' = [exec EXCEPT ![e].pc = "sending", ![e].todo = @ \ {n}, ![e].current = {}]
    /\ UNCHANGED <<source, metadata, wants, notifications, told, emailVars, lockHolder, failed>>

\* Any other exception, the HTTPError of a refused email for one, ends the execution and
\* rolls its transaction back; it gives up the lock, unless it is the worker that died.
execution_ends_early(e, f) ==
    /\ exec[e].pc # "idle"
    /\ f \notin failed
    /\ failed' = failed \cup {f}
    /\ interrupted' = IF exec[e].pc = "emailed" THEN interrupted \cup exec[e].current
                      ELSE interrupted
    /\ lockHolder' \in {lockHolder, lockHolder \ {e}}
    /\ exec' = [exec EXCEPT ![e] = Idle]
    /\ UNCHANGED <<source, metadata, wants, noteVars, sent, twice>>

\* the lock may be another's by now: LockNotOwnedError, which is logged
execution_ends(e) ==
    /\ exec[e].pc = "sending"
    /\ exec[e].todo = {}
    /\ lockHolder' = lockHolder \ {e}
    /\ exec' = [exec EXCEPT ![e] = Idle]
    /\ UNCHANGED <<source, metadata, wants, noteVars, emailVars, failed>>

-----------------------------------------------------------------------------
ExecutionNext(e) ==
    \/ acquire_lock(e) \/ create_notifications(e) \/ list_unsent(e) \/ execution_ends(e)
    \/ \E n \in told : select_for_update(e, n) \/ send_email(e, n) \/ save_email_id(e, n)

NotifyNext ==
    \/ \E kind \in Kinds : metadata_row_inserted(kind)
    \/ \E u \in Subscriber, choice \in {"nothing", "columns", "all"} : subscription_saved(u, choice)
    \/ \E e \in Execution :
          \/ ExecutionNext(e)
          \/ \E f \in Failure : \/ \E n \in told : send_email_fails(e, n, f)
                                \/ execution_ends_early(e, f)
    \/ lock_expires

NotifySpec == NotifyInit /\ [][NotifyNext]_notifyVars

\* An execution goes on unless it ends early; the task is started every hour, and the lock
\* given up an hour after it was taken.
NotifyFairness ==
    /\ \A e \in Execution : WF_notifyVars(ExecutionNext(e))
    /\ WF_notifyVars(lock_expires)

NotifyFairSpec == NotifySpec /\ NotifyFairness

-----------------------------------------------------------------------------
(* Properties *)

\* An email is sent once for a UserNotification, however many executions overlap after
\* the lock was given up, unless one ended between sending it and saving its id.
OneEmailEach == twice \subseteq interrupted

\* "there was a schema change, will get an email" (the docstring), for failures that come
\* to an end: whatever was to be told is told, by a later execution if need be.
EveryoneIsTold == \A n \in UserNotification : (n \in told) ~> (n \in saved)

\* A change that stays the newest is noted for those who want to know, as long as the
\* changelog of the source shows it, even if the worker dies with the lock.
IsLatest(c) == IsNewest(c, {d \in 1..Len(metadata) : metadata[d] # "same"})

ChangesAreNoted ==
    \A c \in 1..MaxRows :
        (IsLatest(c) /\ (source = "query" => c <= QueryLimit)) ~>
            (c \in notifications \/ ~IsLatest(c))

=============================================================================
