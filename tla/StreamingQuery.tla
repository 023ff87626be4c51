--------------------------- MODULE StreamingQuery ---------------------------
(***************************************************************************)
(* streaming_query_response: a download of the rows of a query.            *)
(*                                                                         *)
(*   - A greenlet runs the query and puts on a queue the header, batches   *)
(*     of rows, a line with the number of rows and done; then, if they     *)
(*     were asked for, it runs two more queries and puts their metrics.    *)
(*   - The iterator of the response takes from the queue, gives the data   *)
(*     to the client, and after done gives the metrics to a callback.      *)
(*   - If the greenlet fails, a callback, in a greenlet of its own, puts   *)
(*     exception_raised on the queue, for the iterator to raise.           *)
(*                                                                         *)
(* The queue has room for one item, so both sides wait for each other; the *)
(* client may go away, and Postgres ends a transaction that is idle for a  *)
(* minute.                                                                 *)
(***************************************************************************)
EXTENDS Naturals, Sequences

CONSTANT MaxBatches    \* bound on the batches of a download

VARIABLES
    batches,      \* the batches the query has
    wantsMetrics, \* should_run_query_metrics
    q,            \* the queue
    greenlet,     \* where run_queries is
    made,         \* how many items it has put
    transaction,  \* its transaction in the datasets database
    handler,      \* exception_callback
    iterator,     \* where csv_iterator is
    received,     \* the items the client has received
    reported      \* what query_metrics_callback was given

queryVars == <<batches, wantsMetrics>>
producerVars == <<greenlet, made, transaction, handler>>
consumerVars == <<iterator, received, reported>>
streamVars == <<queryVars, q, producerVars, consumerVars>>

MaxSize == 1
Data(n) == <<"data", n>>
Done == <<"done", 0>>
ExceptionRaised == <<"exception_raised", 0>>
Metrics == <<"metrics", 0>>

\* header, batches and the number of rows
Pieces == 1..(batches + 2)
Item(n) == IF n \in Pieces THEN Data(n) ELSE IF n = batches + 3 THEN Done ELSE Metrics
LastItem == batches + (IF wantsMetrics THEN 4 ELSE 3)

AnyItem == ({"data"} \X (1..MaxBatches + 2)) \cup {Done, ExceptionRaised, Metrics}

StreamTypeOK ==
    /\ batches \in 0..MaxBatches
    /\ wantsMetrics \in BOOLEAN
    /\ q \in Seq(AnyItem) /\ Len(q) <= MaxSize
    /\ greenlet \in {"querying", "putting", "ended", "failed"}
    /\ made \in 0..LastItem
    /\ transaction \in {"open", "terminated", "over"}
    /\ handler \in {"none", "putting", "over"}
    /\ iterator \in {"waiting", "yielding", "metrics", "reporting", "finished", "raised", "closed"}
    /\ received \in Seq(AnyItem)
    /\ reported \in {<<>>, <<Metrics>>, <<ExceptionRaised>>}

StreamInit ==
    /\ batches \in 0..MaxBatches
    /\ wantsMetrics \in BOOLEAN
    /\ q = <<>>
    /\ greenlet = "querying"
    /\ made = 0
    /\ transaction = "open"
    /\ handler = "none"
    /\ iterator = "waiting"
    /\ received = <<>>
    /\ reported = <<>>

-----------------------------------------------------------------------------
(* The greenlet *)

\* the query, the next rows, or the queries of the metrics: the greenlet has an item to put
database_answers ==
    /\ greenlet = "querying"
    /\ transaction = "open"
    /\ greenlet' = "putting"
    /\ UNCHANGED <<queryVars, q, made, transaction, handler, consumerVars>>

\* statement_timeout, a lost connection, or a transaction that was terminated
database_fails ==
    /\ greenlet = "querying"
    /\ greenlet' = "failed"
    /\ transaction' = "over"
    /\ UNCHANGED <<queryVars, q, made, handler, consumerVars>>

\* variant: the greenlet is left alone with its transaction
idle_in_transaction_session_timeoutNever == FALSE /\ UNCHANGED streamVars

\* Nothing is asked of Postgres while the greenlet waits for room.
idle_in_transaction_session_timeout ==
    /\ greenlet = "putting"
    /\ transaction = "open"
    /\ transaction' = "terminated"
    /\ UNCHANGED <<queryVars, q, greenlet, made, handler, consumerVars>>

\* Rows are fetched before the header and after each batch; after the last batch come the
\* number of rows and done, put one after the other; then the metrics are queried.  The
\* end of the with block commits, and fails if the transaction was terminated.
put ==
    /\ greenlet = "putting"
    /\ Len(q) < MaxSize
    /\ q' = Append(q, Item(made + 1))
    /\ made' = made + 1
    /\ LET queries == made + 1 \in 2..(batches + 1) \/ (wantsMetrics /\ made + 1 = batches + 3)
       IN greenlet' = CASE made + 1 < LastItem -> IF queries THEN "querying" ELSE "putting"
                        [] made + 1 = LastItem -> IF transaction = "open" THEN "ended" ELSE "failed"
    /\ transaction' = IF made + 1 = LastItem THEN "over" ELSE transaction
    /\ UNCHANGED <<queryVars, handler, consumerVars>>

\* a batch waits query_timeout for room, the other items for ever
put_times_out ==
    /\ greenlet = "putting"
    /\ made + 1 \in 2..(batches + 1)
    /\ Len(q) = MaxSize
    /\ greenlet' = "failed"
    /\ transaction' = "over"
    /\ UNCHANGED <<queryVars, q, made, handler, consumerVars>>

exception_callback ==
    /\ greenlet = "failed"
    /\ handler = "none"
    /\ handler' = "putting"
    /\ UNCHANGED <<queryVars, q, greenlet, made, transaction, consumerVars>>

\* variant: put_nowait, which raises Full when the iterator has an item still to take
exception_callback_putsIfRoom ==
    /\ handler = "putting"
    /\ handler' = "over"
    /\ q' = IF Len(q) < MaxSize THEN Append(q, ExceptionRaised) ELSE q
    /\ UNCHANGED <<queryVars, greenlet, made, transaction, consumerVars>>

\* variant: the iterator is told that there is no more
exception_callback_putsDone ==
    /\ handler = "putting"
    /\ Len(q) < MaxSize
    /\ q' = Append(q, Done)
    /\ handler' = "over"
    /\ UNCHANGED <<queryVars, greenlet, made, transaction, consumerVars>>

exception_callback_puts ==
    /\ handler = "putting"
    /\ Len(q) < MaxSize
    /\ q' = Append(q, ExceptionRaised)
    /\ handler' = "over"
    /\ UNCHANGED <<queryVars, greenlet, made, transaction, consumerVars>>

-----------------------------------------------------------------------------
(* The iterator and its client *)

get ==
    /\ iterator = "waiting"
    /\ q # <<>>
    /\ q' = Tail(q)
    /\ CASE Head(q) = Done -> /\ iterator' = IF wantsMetrics THEN "metrics" ELSE "finished"
                              /\ UNCHANGED received
         [] Head(q) = ExceptionRaised -> iterator' = "raised" /\ UNCHANGED received
         [] OTHER -> iterator' = "yielding" /\ received' = Append(received, Head(q))
    /\ UNCHANGED <<queryVars, producerVars, reported>>

\* the client has taken the data, and the iterator is asked for more
client_reads ==
    /\ iterator = "yielding"
    /\ iterator' = "waiting"
    /\ UNCHANGED <<queryVars, q, producerVars, received, reported>>

\* the first thing after done is taken for the metrics
get_metrics ==
    /\ iterator = "metrics"
    /\ q # <<>>
    /\ q' = Tail(q)
    /\ reported' = <<Head(q)>>
    /\ iterator' = "reporting"
    /\ UNCHANGED <<queryVars, producerVars, received>>

\* write_metrics_to_eventlog, for which only a dict will do
query_metrics_callback ==
    /\ iterator = "reporting"
    /\ iterator' = IF reported = <<Metrics>> THEN "finished" ELSE "raised"
    /\ UNCHANGED <<queryVars, q, producerVars, received, reported>>

\* nothing for query_timeout, which is days
get_times_out ==
    /\ iterator \in {"waiting", "metrics"}
    /\ q = <<>>
    /\ iterator' = "raised"
    /\ UNCHANGED <<queryVars, q, producerVars, received, reported>>

\* The generator is closed at a yield; that is not the greenlet's business.
client_goes_away ==
    /\ iterator = "yielding"
    /\ iterator' = "closed"
    /\ UNCHANGED <<queryVars, q, producerVars, received, reported>>

-----------------------------------------------------------------------------
GreenletNext == \/ database_answers \/ database_fails \/ put
                \/ exception_callback \/ exception_callback_puts
IteratorNext == get \/ get_metrics \/ query_metrics_callback

StreamNext ==
    \/ GreenletNext \/ put_times_out \/ idle_in_transaction_session_timeout
    \/ IteratorNext \/ get_times_out \/ client_reads \/ client_goes_away

StreamSpec == StreamInit /\ [][StreamNext]_streamVars

\* The database answers or fails, and greenlets run.  Nothing is assumed of the timeouts of
\* the queue, which are days, and of the client.
StreamFairness ==
    /\ WF_streamVars(GreenletNext)
    /\ WF_streamVars(idle_in_transaction_session_timeout)
    /\ WF_streamVars(IteratorNext)

StreamFairSpec == StreamSpec /\ StreamFairness

-----------------------------------------------------------------------------
(* Properties *)

\* A response that ends well has the whole of the query, in order: the client cannot take
\* the part before a failure for all of it.
DownloadIsWhole ==
    iterator \in {"metrics", "reporting", "finished"} => received = [n \in Pieces |-> Data(n)]

\* An iterator that waits for the greenlet is not left waiting: it gets what comes next, or
\* exception_raised, which waits for room as it must.
IteratorIsAnswered == (iterator \in {"waiting", "metrics"}) ~> (iterator \notin {"waiting", "metrics"})

\* The transaction comes to an end, also when the client has gone, or stays and does not
\* read, and the greenlet waits for room for ever.
TransactionEnds == <>(transaction # "open")

=============================================================================
