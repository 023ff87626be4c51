---------------------------- MODULE TasksProofs -----------------------------
(***************************************************************************)
(* Proofs about the parts whose work goes on behind a request:             *)
(* Notifications, StreamingQuery, QueryRuns and SsoLogin, each by itself,  *)
(* and then about their composition, PartsSpec, for any constants.         *)
(***************************************************************************)
EXTENDS MCTasks, TLAPS

-----------------------------------------------------------------------------
(***************************************************************************)
(* Proofs about Notifications, for any subscribers, executions, limits and *)
(* failures.                                                               *)
(*                                                                         *)
(* OneEmailEach is kept because a row is locked by one execution at a time *)
(* (RowsAreLocked), and what has been sent is saved, interrupted or still  *)
(* in the hands of the execution that sent it (SentIsKnown): whoever sends *)
(* has read under the lock that it is not saved.                           *)
(***************************************************************************)
NotifyBounded == MaxRows \in Nat

RowsAreLocked ==
    \A e \in Execution :
        /\ exec[e].pc \in {"row", "emailed"} <=> exec[e].current # {}
        /\ exec[e].current \cap saved = {}
        /\ \A other \in Execution \ {e} : exec[e].current \cap exec[other].current = {}
        /\ \A n, m \in exec[e].current : n = m

BeingSaved(n) == \E e \in Execution : exec[e].pc = "emailed" /\ n \in exec[e].current

SentIsKnown == \A n \in sent : n \in saved \/ n \in interrupted \/ BeingSaved(n)

NotifyInv == NotifyTypeOK /\ RowsAreLocked /\ SentIsKnown /\ OneEmailEach

-----------------------------------------------------------------------------
\* An execution is done with its row.
LEMMA RowIsDone ==
    ASSUME NotifyTypeOK, NEW e \in Execution, NEW n,
           exec' = [exec EXCEPT ![e].pc = "sending", ![e].todo = @ \ {n}, ![e].current = {}]
    PROVE  exec' \in [Execution -> [pc : {"idle", "locked", "noted", "sending", "row", "emailed"},
                                    todo : SUBSET UserNotification,
                                    current : SUBSET UserNotification]]
<1> DEFINE R == [pc : {"idle", "locked", "noted", "sending", "row", "emailed"},
                 todo : SUBSET UserNotification, current : SUBSET UserNotification]
<1>1. exec \in [Execution -> R]
  BY DEF NotifyTypeOK
<1>2. exec'[e] = [pc |-> "sending", todo |-> exec[e].todo \ {n}, current |-> {}]
  BY <1>1
<1>3. exec'[e] \in R
  BY <1>1, <1>2
<1>4. \A f \in Execution \ {e} : exec'[f] = exec[f]
  BY <1>1
<1>5. DOMAIN exec' = Execution /\ exec' = [f \in Execution |-> exec'[f]]
  BY <1>1
<1> QED BY <1>1, <1>3, <1>4, <1>5

-----------------------------------------------------------------------------
LEMMA NotifyInitInv == ASSUME NotifyBounded PROVE NotifyInit => NotifyInv
<1> SUFFICES ASSUME NotifyInit PROVE NotifyInv
  OBVIOUS
<1> USE DEF NotifyInit, Idle
<1>1. NotifyTypeOK
  BY DEF NotifyTypeOK, NotifyBounded
<1>2. RowsAreLocked /\ SentIsKnown /\ OneEmailEach
  BY DEF RowsAreLocked, SentIsKnown, OneEmailEach
<1> QED BY <1>1, <1>2 DEF NotifyInv

\* The source, its subscribers and the lock do not touch what is sent.
LEMMA OutsideStep ==
    ASSUME NotifyBounded, NotifyInv,
           \/ \E kind \in Kinds : metadata_row_inserted(kind)
           \/ \E u \in Subscriber, choice \in {"nothing", "columns", "all"} :
                  subscription_saved(u, choice)
           \/ lock_expires
    PROVE  NotifyInv'
<1>1. UNCHANGED <<noteVars, emailVars, exec>>
  BY DEF metadata_row_inserted, subscription_saved, lock_expires
<1>2. (RowsAreLocked /\ SentIsKnown /\ OneEmailEach)'
  BY <1>1 DEF NotifyInv, RowsAreLocked, SentIsKnown, BeingSaved, OneEmailEach, noteVars, emailVars
<1>3. NotifyTypeOK'
  <2> USE DEF NotifyTypeOK, NotifyInv, noteVars, emailVars
  <2>1. ASSUME NEW kind \in Kinds, metadata_row_inserted(kind) PROVE NotifyTypeOK'
    <3>1. metadata' \in Seq(Kinds) /\ Len(metadata') = Len(metadata) + 1
      BY <2>1 DEF metadata_row_inserted
    <3> QED BY <1>1, <2>1, <3>1 DEF metadata_row_inserted, NotifyBounded
  <2>2. ASSUME NEW u \in Subscriber, NEW choice \in {"nothing", "columns", "all"},
               subscription_saved(u, choice)
        PROVE  NotifyTypeOK'
    BY <1>1, <2>2 DEF subscription_saved
  <2>3. CASE lock_expires
    BY <1>1, <2>3 DEF lock_expires
  <2> QED BY <2>1, <2>2, <2>3
<1> QED BY <1>2, <1>3 DEF NotifyInv

\* An execution has no row before it sends, and none after.
LEMMA NoRowStep ==
    ASSUME NotifyBounded, NotifyInv, NEW e \in Execution,
           acquire_lock(e) \/ create_notifications(e) \/ list_unsent(e) \/ execution_ends(e)
    PROVE  NotifyInv'
<1> USE DEF NotifyInv
<1>1. NotifyTypeOK'
  <2> USE DEF NotifyTypeOK, noteVars, emailVars
  <2>1. CASE acquire_lock(e)
    BY <2>1 DEF acquire_lock
  <2>2. CASE create_notifications(e)
    <3>1. Changelog \subseteq 1..MaxRows
      BY DEF Changelog, Visible, NotifyBounded
    <3>2. notifications' \in SUBSET (1..MaxRows) /\ told' \in SUBSET UserNotification
      BY <2>2, <3>1 DEF create_notifications
    <3> QED BY <2>2, <3>2 DEF create_notifications
  <2>3. CASE list_unsent(e)
    BY <2>3 DEF list_unsent
  <2>4. CASE execution_ends(e)
    BY <2>4 DEF execution_ends, Idle
  <2> QED BY <2>1, <2>2, <2>3, <2>4
<1>2. \A f \in Execution : exec'[f].current = exec[f].current
  <2>1. exec[e].current = {}
    BY DEF RowsAreLocked, acquire_lock, create_notifications, list_unsent, execution_ends
  <2>2. exec \in [Execution -> [pc : {"idle", "locked", "noted", "sending", "row", "emailed"},
                               todo : SUBSET UserNotification,
                               current : SUBSET UserNotification]]
    BY DEF NotifyTypeOK
  <2> HIDE DEF NotifyInv
  <2>3. CASE acquire_lock(e) \/ create_notifications(e)
    BY <2>2, <2>3 DEF acquire_lock, create_notifications
  <2>4. CASE list_unsent(e)
    BY <2>2, <2>4 DEF list_unsent
  <2>5. CASE execution_ends(e)
    BY <2>1, <2>2, <2>5 DEF execution_ends, Idle
  <2> QED BY <2>3, <2>4, <2>5
<1>3. \A f \in Execution : f # e => exec'[f].pc = exec[f].pc
  BY DEF NotifyTypeOK, acquire_lock, create_notifications, list_unsent, execution_ends, Idle
<1>4. exec[e].pc \notin {"row", "emailed"} /\ exec'[e].pc \notin {"row", "emailed"}
  BY DEF NotifyTypeOK, acquire_lock, create_notifications, list_unsent, execution_ends, Idle
<1>5. UNCHANGED <<saved, sent, twice, interrupted>>
  BY DEF acquire_lock, create_notifications, list_unsent, execution_ends, noteVars, emailVars
<1>6. RowsAreLocked'
  BY <1>2, <1>3, <1>4, <1>5 DEF RowsAreLocked
<1>7. (SentIsKnown /\ OneEmailEach)'
  BY <1>2, <1>3, <1>4, <1>5 DEF SentIsKnown, BeingSaved, OneEmailEach
<1> QED BY <1>1, <1>6, <1>7

\* A row is locked, its email sent, its id saved; or the execution ends before that.
LEMMA RowStep ==
    ASSUME NotifyBounded, NotifyInv, NEW e \in Execution, NEW n \in told,
           \/ select_for_update(e, n) \/ send_email(e, n) \/ save_email_id(e, n)
           \/ \E f \in Failure : send_email_fails(e, n, f)
    PROVE  NotifyInv'
<1> USE DEF NotifyInv, NotifyTypeOK, noteVars, emailVars
<1>1. CASE select_for_update(e, n)
  <2>1. NotifyTypeOK'
    BY <1>1 DEF select_for_update
  <2>2. exec[e].current = {}
    BY <1>1 DEF select_for_update, RowsAreLocked
  <2>3. RowsAreLocked'
    BY <1>1, <2>2 DEF select_for_update, RowsAreLocked, RowIsFree
  <2>4. (SentIsKnown /\ OneEmailEach)'
    BY <1>1, <2>2 DEF select_for_update, SentIsKnown, BeingSaved, OneEmailEach
  <2> QED BY <2>1, <2>3, <2>4
<1>2. CASE send_email(e, n)
  <2>1. NotifyTypeOK'
    BY <1>2 DEF send_email
  <2>2. RowsAreLocked'
    BY <1>2 DEF send_email, RowsAreLocked
  <2>3. n \in sent => n \in interrupted
    BY <1>2 DEF send_email, RowsAreLocked, SentIsKnown, BeingSaved
  <2>4. SentIsKnown'
    BY <1>2 DEF send_email, SentIsKnown, BeingSaved
  <2>5. OneEmailEach'
    BY <1>2, <2>3 DEF send_email, OneEmailEach
  <2> QED BY <2>1, <2>2, <2>4, <2>5
<1>3. CASE save_email_id(e, n)
  <2>1. NotifyTypeOK'
    BY <1>3, RowIsDone DEF save_email_id
  <2>2. RowsAreLocked'
    BY <1>3 DEF save_email_id, RowsAreLocked
  <2>3. (SentIsKnown /\ OneEmailEach)'
    BY <1>3 DEF save_email_id, SentIsKnown, BeingSaved, OneEmailEach
  <2> QED BY <2>1, <2>2, <2>3
<1>4. ASSUME NEW f \in Failure, send_email_fails(e, n, f) PROVE NotifyInv'
  <2>1. NotifyTypeOK'
    BY <1>4, RowIsDone DEF send_email_fails
  <2>2. RowsAreLocked'
    BY <1>4 DEF send_email_fails, RowsAreLocked
  <2>3. (SentIsKnown /\ OneEmailEach)'
    BY <1>4 DEF send_email_fails, SentIsKnown, BeingSaved, OneEmailEach
  <2> QED BY <2>1, <2>2, <2>3
<1> QED BY <1>1, <1>2, <1>3, <1>4

LEMMA EndsEarlyStep ==
    ASSUME NotifyBounded, NotifyInv, NEW e \in Execution, NEW f \in Failure, execution_ends_early(e, f)
    PROVE  NotifyInv'
<1> USE DEF NotifyInv, NotifyTypeOK, noteVars, emailVars, execution_ends_early, Idle
<1>1. NotifyTypeOK'
  OBVIOUS
<1>2. RowsAreLocked'
  BY DEF RowsAreLocked
<1>3. SentIsKnown'
  BY DEF SentIsKnown, BeingSaved
<1>4. OneEmailEach'
  BY DEF OneEmailEach
<1> QED BY <1>1, <1>2, <1>3, <1>4

LEMMA NotifyInvStep == ASSUME NotifyBounded PROVE NotifyInv /\ [NotifyNext]_notifyVars => NotifyInv'
<1> SUFFICES ASSUME NotifyInv, [NotifyNext]_notifyVars PROVE NotifyInv'
  OBVIOUS
<1>1. CASE UNCHANGED notifyVars
  BY <1>1 DEF notifyVars, noteVars, emailVars, NotifyInv, NotifyTypeOK, RowsAreLocked, SentIsKnown, BeingSaved,
              OneEmailEach
<1> QED BY <1>1, OutsideStep, NoRowStep, RowStep, EndsEarlyStep DEF NotifyNext, ExecutionNext

\* The inductive invariant holds of every behaviour of Notifications.
THEOREM NotifyInvCorrect == ASSUME NotifyBounded PROVE NotifySpec => []NotifyInv
<1>1. NotifyInit => NotifyInv
  BY NotifyInitInv
<1>2. NotifyInv /\ [NotifyNext]_notifyVars => NotifyInv'
  BY NotifyInvStep
<1> QED BY <1>1, <1>2, PTL DEF NotifySpec

\* The variables keep their types.
THEOREM NotifyTypeCorrect == ASSUME NotifyBounded PROVE NotifySpec => []NotifyTypeOK
<1>1. NotifySpec => []NotifyInv
  BY NotifyInvCorrect
<1> QED BY <1>1, PTL DEF NotifyInv

\* No second email for a notification, unless the execution that sent the first one ended
\* before it saved its id.
THEOREM OneEmailEachCorrect == ASSUME NotifyBounded PROVE NotifySpec => []OneEmailEach
<1>1. NotifySpec => []NotifyInv
  BY NotifyInvCorrect
<1> QED BY <1>1, PTL DEF NotifyInv

-----------------------------------------------------------------------------
(***************************************************************************)
(* Proofs about StreamingQuery, for downloads of any number of batches.    *)
(*                                                                         *)
(* DownloadIsWhole is kept because, until the iterator has taken done or   *)
(* exception_raised, what it has received and what is on the queue are     *)
(* together what the greenlet has put (NothingIsLost).                     *)
(***************************************************************************)
StreamBounded == MaxBatches \in Nat

Receiving == {"waiting", "yielding"}
Ended == {"metrics", "reporting", "finished"}

\* the client has the first pieces, in their order
InOrder ==
    /\ Len(received) <= batches + 2
    /\ \A n \in 1..Len(received) : received[n] = Data(n)

NothingIsLost ==
    iterator \in Receiving =>
        \/ q = <<>> /\ made = Len(received)
        \/ q = <<Item(made)>> /\ made = Len(received) + 1
        \/ q = <<ExceptionRaised>>

AllReceived == iterator \in Ended => Len(received) = batches + 2

\* what follows done
OnlyMetrics ==
    iterator = "metrics" => /\ made >= batches + 3
                            /\ q \in {<<>>, <<Metrics>>, <<ExceptionRaised>>}

ToPut == greenlet \in {"querying", "putting"} => made < LastItem

StreamInv == StreamTypeOK /\ ToPut /\ InOrder /\ NothingIsLost /\ AllReceived /\ OnlyMetrics

-----------------------------------------------------------------------------
LEMMA Items ==
    ASSUME StreamBounded, batches \in 0..MaxBatches, NEW n \in 1..(batches + 4)
    PROVE  /\ Item(n) \in AnyItem \ {ExceptionRaised}
           /\ n <= batches + 2 => Item(n) = Data(n) /\ Data(n) # Done
           /\ n = batches + 3 => Item(n) = Done
           /\ n = batches + 4 => Item(n) = Metrics
BY DEF StreamBounded, Item, AnyItem, Pieces, Data, Done, Metrics, ExceptionRaised

LEMMA StreamInitInv == ASSUME StreamBounded PROVE StreamInit => StreamInv
<1> SUFFICES ASSUME StreamInit PROVE StreamInv
  OBVIOUS
<1> USE DEF StreamInit, StreamBounded
<1>1. StreamTypeOK /\ ToPut
  BY DEF StreamTypeOK, LastItem, MaxSize, ToPut
<1>2. InOrder /\ NothingIsLost /\ AllReceived /\ OnlyMetrics
  BY DEF InOrder, NothingIsLost, AllReceived, OnlyMetrics, Receiving, Ended
<1> QED BY <1>1, <1>2 DEF StreamInv

\* An item on an empty queue.
LEMMA Put ==
    ASSUME StreamBounded, StreamTypeOK, Len(q) < MaxSize, NEW item
    PROVE  q = <<>> /\ Append(q, item) = <<item>>
<1>1. q = <<>>
  BY DEF StreamTypeOK, MaxSize
<1> QED BY <1>1

LEMMA PutStep == ASSUME StreamBounded, StreamInv, put PROVE StreamInv'
<1> USE DEF StreamInv, put, StreamBounded
<1>1. batches \in 0..MaxBatches /\ made \in 0..(LastItem - 1) /\ wantsMetrics \in BOOLEAN
      /\ LastItem \in {batches + 3, batches + 4}
  BY DEF StreamTypeOK, ToPut, LastItem
<1>2. q = <<>> /\ q' = <<Item(made + 1)>>
  BY Put
<1>3. made + 1 \in 1..(batches + 4) /\ made' = made + 1 /\ made' <= LastItem
  BY <1>1
<1>4. Item(made + 1) \in AnyItem
  BY <1>1, <1>3, Items
<1>5. \/ made' < LastItem /\ greenlet' \in {"querying", "putting"} /\ transaction' = transaction
      \/ made' = LastItem /\ greenlet' \in {"ended", "failed"} /\ transaction' = "over"
  BY <1>1, <1>3
<1>6. UNCHANGED <<batches, wantsMetrics, handler, iterator, received, reported>> /\ LastItem' = LastItem
  BY DEF queryVars, consumerVars, LastItem
<1>7. Item(made)' = Item(made + 1)
  BY <1>3, <1>6 DEF Item, Pieces
<1>8. StreamTypeOK'
  <2>1. q' \in Seq(AnyItem) /\ Len(q') <= MaxSize
    BY <1>2, <1>4 DEF MaxSize
  <2>2. made' \in 0..LastItem'
    BY <1>1, <1>3, <1>6
  <2> QED BY <1>5, <1>6, <2>1, <2>2 DEF StreamTypeOK, AnyItem
<1>9. ToPut'
  BY <1>5, <1>6 DEF ToPut
<1>10. InOrder' /\ AllReceived'
  BY <1>6 DEF InOrder, AllReceived
<1>11. NothingIsLost'
  <2>1. iterator \in Receiving => made = Len(received)
    BY <1>2 DEF NothingIsLost
  <2>2. iterator' \in Receiving => made' = Len(received') + 1
    BY <1>3, <1>6, <2>1
  <2> QED BY <1>2, <1>7, <2>2 DEF NothingIsLost
<1>12. OnlyMetrics'
  <2>1. iterator = "metrics" => made + 1 = batches + 4
    BY <1>1, <1>3 DEF OnlyMetrics
  <2>2. iterator = "metrics" => Item(made + 1) = Metrics
    BY <1>1, <1>3, <2>1, Items
  <2> QED BY <1>1, <1>2, <1>3, <1>6, <2>1, <2>2 DEF OnlyMetrics, Metrics
<1> QED BY <1>8, <1>9, <1>10, <1>11, <1>12

\* The other steps of the greenlet, and those of Postgres and of the callback.
LEMMA ProducerStep ==
    ASSUME StreamBounded, StreamInv,
           \/ database_answers \/ database_fails \/ put_times_out \/ exception_callback
           \/ exception_callback_puts \/ idle_in_transaction_session_timeout
    PROVE  StreamInv'
<1> USE DEF StreamInv, queryVars, consumerVars
<1>1. UNCHANGED <<batches, wantsMetrics, made, iterator, received, reported>>
      /\ LastItem' = LastItem /\ Item(made)' = Item(made)
  BY DEF database_answers, database_fails, put_times_out, exception_callback,
         exception_callback_puts, idle_in_transaction_session_timeout, LastItem, Item, Pieces
<1>2. \/ q' = q
      \/ q = <<>> /\ q' = <<ExceptionRaised>>
  BY Put DEF database_answers, database_fails, put_times_out, exception_callback,
             exception_callback_puts, idle_in_transaction_session_timeout
<1>3. StreamTypeOK'
  <2>1. ExceptionRaised \in AnyItem /\ UNCHANGED AnyItem
    BY DEF AnyItem
  <2>2. q' \in Seq(AnyItem) /\ Len(q') <= MaxSize
    <3>1. CASE q' = q
      BY <3>1 DEF StreamTypeOK
    <3>2. CASE q' = <<ExceptionRaised>>
      BY <2>1, <3>2 DEF MaxSize
    <3> QED BY <1>2, <3>1, <3>2
  <2> QED BY <1>1, <2>2 DEF StreamTypeOK, AnyItem, database_answers, database_fails, put_times_out,
             exception_callback, exception_callback_puts, idle_in_transaction_session_timeout
<1>4. ToPut'
  BY <1>1 DEF ToPut, database_answers, database_fails, put_times_out, exception_callback,
              exception_callback_puts, idle_in_transaction_session_timeout
<1>5. (InOrder /\ AllReceived)'
  BY <1>1 DEF InOrder, AllReceived
<1>6. NothingIsLost'
  BY <1>1, <1>2 DEF NothingIsLost, Receiving
<1>7. OnlyMetrics'
  BY <1>1, <1>2 DEF OnlyMetrics
<1> QED BY <1>3, <1>4, <1>5, <1>6, <1>7

LEMMA GetStep == ASSUME StreamBounded, StreamInv, get PROVE StreamInv'
<1> USE DEF StreamInv, get, StreamBounded
<1>1. UNCHANGED <<batches, wantsMetrics, greenlet, made, transaction, handler, reported>>
      /\ LastItem' = LastItem
  BY DEF queryVars, producerVars, LastItem
<1>2. batches \in 0..MaxBatches /\ made \in Nat /\ wantsMetrics \in BOOLEAN
      /\ received \in Seq(AnyItem) /\ Len(received) \in 0..(batches + 2)
  BY DEF StreamTypeOK, InOrder, LastItem
<1>3. q' = <<>>
  BY DEF StreamTypeOK, NothingIsLost, Receiving
<1>4. CASE q = <<ExceptionRaised>>
  <2>1. iterator' = "raised" /\ received' = received
    BY <1>4 DEF ExceptionRaised, Done
  <2> QED BY <1>1, <1>2, <1>3, <2>1 DEF StreamTypeOK, ToPut, InOrder, NothingIsLost, AllReceived,
             OnlyMetrics, Receiving, Ended, MaxSize
<1>5. CASE q = <<Item(made)>> /\ made = Len(received) + 1
  <2>1. made \in 1..(batches + 3)
    BY <1>2, <1>5
  <2>2. CASE made = batches + 3
    <3>1. iterator' = (IF wantsMetrics THEN "metrics" ELSE "finished") /\ received' = received
      BY <1>2, <1>5, <2>1, <2>2, Items
    <3> QED BY <1>1, <1>2, <1>3, <1>5, <2>2, <3>1 DEF StreamTypeOK, ToPut, InOrder, NothingIsLost,
               AllReceived, OnlyMetrics, Receiving, Ended, MaxSize
  <2>3. CASE made \in 1..(batches + 2)
    <3>1. Head(q) = Data(made) /\ Data(made) \in AnyItem /\ Data(made) # Done
          /\ Data(made) # ExceptionRaised
      BY <1>2, <1>5, <2>1, <2>3, Items
    <3>2. iterator' = "yielding" /\ received' = Append(received, Data(made))
      BY <3>1
    <3>3. received' \in Seq(AnyItem) /\ Len(received') = made
          /\ \A n \in 1..made : received'[n] = Data(n)
      BY <1>2, <1>5, <3>1, <3>2 DEF InOrder
    <3> QED BY <1>1, <1>2, <1>3, <1>5, <2>3, <3>2, <3>3 DEF StreamTypeOK, ToPut, InOrder,
               NothingIsLost, AllReceived, OnlyMetrics, Receiving, Ended, MaxSize
  <2> QED BY <1>2, <2>1, <2>2, <2>3
<1> QED BY <1>4, <1>5 DEF NothingIsLost, Receiving

\* The other steps of the iterator and its client.
LEMMA ConsumerStep ==
    ASSUME StreamBounded, StreamInv,
           \/ get_metrics \/ query_metrics_callback \/ get_times_out \/ client_reads
           \/ client_goes_away
    PROVE  StreamInv'
<1> USE DEF StreamInv, queryVars, producerVars
<1>1. UNCHANGED <<batches, wantsMetrics, greenlet, made, transaction, handler, received>>
      /\ LastItem' = LastItem /\ Item(made)' = Item(made)
  BY DEF get_metrics, query_metrics_callback, get_times_out, client_reads, client_goes_away,
         LastItem, Item, Pieces
<1>2. StreamTypeOK'
  <2>1. CASE get_metrics
    <3>1. q' = <<>> /\ reported' \in {<<Metrics>>, <<ExceptionRaised>>}
      <4>1. q = <<Metrics>> \/ q = <<ExceptionRaised>>
        BY <2>1 DEF get_metrics, OnlyMetrics
      <4>2. q' = Tail(q) /\ reported' = <<Head(q)>>
        BY <2>1 DEF get_metrics
      <4> HIDE DEF StreamInv
      <4>3. ASSUME NEW item, q = <<item>> PROVE q' = <<>> /\ reported' = <<item>>
        BY <4>2, <4>3
      <4> QED BY <4>1, <4>3
    <3> QED BY <1>1, <2>1, <3>1 DEF StreamTypeOK, get_metrics, MaxSize
  <2>2. CASE query_metrics_callback \/ get_times_out \/ client_reads \/ client_goes_away
    BY <1>1, <2>2 DEF StreamTypeOK, query_metrics_callback, get_times_out, client_reads,
                      client_goes_away
  <2> QED BY <2>1, <2>2
<1>3. (ToPut /\ InOrder)'
  BY <1>1 DEF ToPut, InOrder
<1>4. NothingIsLost'
  BY <1>1 DEF NothingIsLost, Receiving, get_metrics, query_metrics_callback, get_times_out,
              client_reads, client_goes_away
<1>5. AllReceived'
  BY <1>1 DEF AllReceived, Ended, get_metrics, query_metrics_callback, get_times_out,
              client_reads, client_goes_away
<1>6. OnlyMetrics'
  BY <1>1 DEF OnlyMetrics, get_metrics, query_metrics_callback, get_times_out, client_reads,
              client_goes_away
<1> QED BY <1>2, <1>3, <1>4, <1>5, <1>6

LEMMA StreamInvStep == ASSUME StreamBounded PROVE StreamInv /\ [StreamNext]_streamVars => StreamInv'
<1> SUFFICES ASSUME StreamInv, [StreamNext]_streamVars PROVE StreamInv'
  OBVIOUS
<1>1. CASE UNCHANGED streamVars
  BY <1>1 DEF streamVars, queryVars, producerVars, consumerVars, StreamInv, StreamTypeOK, ToPut, InOrder,
              NothingIsLost, AllReceived, OnlyMetrics, LastItem, Item, Pieces
<1> QED BY <1>1, PutStep, ProducerStep, GetStep, ConsumerStep
       DEF StreamNext, GreenletNext, IteratorNext

\* The inductive invariant holds of every behaviour of StreamingQuery.
THEOREM StreamInvCorrect == ASSUME StreamBounded PROVE StreamSpec => []StreamInv
<1>1. StreamInit => StreamInv
  BY StreamInitInv
<1>2. StreamInv /\ [StreamNext]_streamVars => StreamInv'
  BY StreamInvStep
<1> QED BY <1>1, <1>2, PTL DEF StreamSpec

\* The variables keep their types.
THEOREM StreamTypeCorrect == ASSUME StreamBounded PROVE StreamSpec => []StreamTypeOK
<1>1. StreamSpec => []StreamInv
  BY StreamInvCorrect
<1> QED BY <1>1, PTL DEF StreamInv

\* A response that ends well has all pieces of the query, in their order.
THEOREM DownloadIsWholeCorrect == ASSUME StreamBounded PROVE StreamSpec => []DownloadIsWhole
<1>1. StreamInv => DownloadIsWhole
  <2> SUFFICES ASSUME StreamInv, iterator \in Ended PROVE received = [n \in Pieces |-> Data(n)]
    BY DEF DownloadIsWhole, Ended
  <2>1. Len(received) = batches + 2 /\ received \in Seq(AnyItem)
    BY DEF StreamInv, AllReceived, StreamTypeOK
  <2>2. DOMAIN received = Pieces /\ received = [n \in DOMAIN received |-> received[n]]
    BY <2>1 DEF Pieces
  <2>3. \A n \in Pieces : received[n] = Data(n)
    BY <2>1 DEF StreamInv, InOrder, Pieces
  <2> QED BY <2>2, <2>3
<1>2. StreamSpec => []StreamInv
  BY StreamInvCorrect
<1> QED BY <1>1, <1>2, PTL

-----------------------------------------------------------------------------
(***************************************************************************)
(* Proofs about QueryRuns, for any number of queries and crashes.          *)
(***************************************************************************)
USE CrashesAssumption

\* where the task is, against the row, the table and the thread
Runs ==
    \A run \in Query :
        /\ log[run] = "none" => task[run] = "none"
        /\ task[run] \in {"none", "queued"} => stmt[run] = 0 /\ thread[run] = "none"
        /\ task[run] = "executing" => stmt[run] < 4
        /\ task[run] \in Running /\ stmt[run] >= 2 => table[run] = "open"

\* a row is COMPLETE only when its task has left the statements behind, and before that
\* the thread cancels them only for a row that is no longer RUNNING
Outcomes ==
    \A run \in Query :
        /\ log[run] = "COMPLETE" => task[run] \in {"left", "joining", "done", "dead"}
        /\ thread[run] = "cancelling" => log[run] # "RUNNING"
        /\ task[run] \in {"left", "joining", "done"} => log[run] # "RUNNING" \/ run \in timedOut

RunsInv == TypeOK /\ Runs /\ Outcomes /\ CompleteHasResults

LEMMA RunsInitInv == Init => RunsInv
BY DEF Init, RunsInv, TypeOK, NotReading, Running, Statements, Runs, Outcomes, CompleteHasResults

LEMMA WebStep == ASSUME RunsInv, NEW run \in Query, WebNext(run) PROVE RunsInv'
<1> USE DEF Statements, CreateTable, RunsInv, TypeOK, Running, Runs, Outcomes, CompleteHasResults
<1>1. CASE QueryLog_create(run)
  BY <1>1 DEF QueryLog_create
<1>2. CASE run_querylog_query_delay(run)
  BY <1>2 DEF run_querylog_query_delay
<1>3. CASE QueryLogUpdateView_get_object(run)
  BY <1>3 DEF QueryLogUpdateView_get_object
<1>4. CASE QueryLogUpdateView_save(run)
  BY <1>4 DEF QueryLogUpdateView_save, NotReading
<1> QED BY <1>1, <1>2, <1>3, <1>4 DEF WebNext

LEMMA WorkerStep == ASSUME RunsInv, NEW run \in Query, WorkerNext(run) PROVE RunsInv'
<1> USE DEF Statements, CreateTable, RunsInv, TypeOK, Running, Runs, Outcomes, CompleteHasResults
<1>1. CASE run_querylog_query_start(run)
  BY <1>1 DEF run_querylog_query_start
<1>2. CASE execute(run)
  BY <1>2 DEF execute
<1>3. CASE mark_query_log_failed(run)
  BY <1>3 DEF mark_query_log_failed
<1>4. CASE mark_query_log_complete(run)
  BY <1>4 DEF mark_query_log_complete
<1>5. CASE stop_polling(run)
  BY <1>5 DEF stop_polling
<1>6. CASE commit(run)
  BY <1>6 DEF commit
<1> QED BY <1>1, <1>2, <1>3, <1>4, <1>5, <1>6 DEF WorkerNext

LEMMA PostgresStep == ASSUME RunsInv, NEW run \in Query, PostgresNext(run) PROVE RunsInv'
<1> USE DEF Statements, CreateTable, RunsInv, TypeOK, Running, Runs, Outcomes, CompleteHasResults
<1>1. CASE executed(run)
  <2>1. stmt[run] \in 0..3 /\ stmt[run] + 1 \in 1..4
    BY <1>1 DEF executed
  <2>2. stmt[run] + 1 >= 2 => table[run] = "open" \/ stmt[run] + 1 = CreateTable
    BY <1>1, <2>1 DEF executed
  <2> QED BY <1>1, <2>1, <2>2 DEF executed
<1>2. CASE statement_times_out(run)
  BY <1>2 DEF statement_times_out
<1>3. CASE statement_fails(run)
  BY <1>3 DEF statement_fails
<1> QED BY <1>1, <1>2, <1>3 DEF PostgresNext

LEMMA PollStep == ASSUME RunsInv, NEW run \in Query, PollNext(run) \/ task_dies(run) PROVE RunsInv'
<1> USE DEF Statements, CreateTable, RunsInv, TypeOK, Running, Runs, Outcomes, CompleteHasResults
<1>1. CASE poll_sees_cancelled(run)
  BY <1>1 DEF poll_sees_cancelled
<1>2. CASE poll_cancels(run)
  BY <1>2 DEF poll_cancels
<1>3. CASE poll_ends(run)
  BY <1>3 DEF poll_ends
<1>4. CASE task_dies(run)
  BY <1>4 DEF task_dies
<1> QED BY <1>1, <1>2, <1>3, <1>4 DEF PollNext

LEMMA RunsInvStep == RunsInv /\ [Next]_vars => RunsInv'
<1> SUFFICES ASSUME RunsInv, [Next]_vars PROVE RunsInv'
  OBVIOUS
<1>1. CASE UNCHANGED vars
  BY <1>1 DEF vars, RunsInv, TypeOK, Running, Runs, Outcomes, CompleteHasResults
<1> QED BY <1>1, WebStep, WorkerStep, PostgresStep, PollStep DEF Next

\* The inductive invariant holds of every behaviour of QueryRuns.
THEOREM RunsInvCorrect == Spec => []RunsInv
BY RunsInitInv, RunsInvStep, PTL DEF Spec

\* The variables keep their types.
THEOREM RunsTypeCorrect == Spec => []TypeOK
BY RunsInvCorrect, PTL DEF RunsInv

\* A COMPLETE query has its results, or is about to have them committed.
THEOREM CompleteHasResultsCorrect == Spec => []CompleteHasResults
BY RunsInvCorrect, PTL DEF RunsInv

\* A run that ends has marked its row, unless statement_timeout ended it.
THEOREM EndedRunsAreMarkedCorrect == Spec => []EndedRunsAreMarked
<1>1. RunsInv => EndedRunsAreMarked
  BY DEF RunsInv, Outcomes, EndedRunsAreMarked
<1> QED BY <1>1, RunsInvCorrect, PTL

-----------------------------------------------------------------------------
(* CANCELLED is never followed by COMPLETE: only mark_query_log_complete writes *)
(* COMPLETE, over RUNNING.                                                      *)

LEMMA CancelledStep ==
    ASSUME TypeOK, [Next]_vars, NEW run \in Query, log[run] = "CANCELLED"
    PROVE  log'[run] # "COMPLETE"
<1> USE DEF TypeOK
<1>1. ASSUME NEW r \in Query, mark_query_log_complete(r) PROVE log'[run] # "COMPLETE"
  BY <1>1 DEF mark_query_log_complete
<1>2. ASSUME NEW r \in Query, \/ log' = [log EXCEPT ![r] = "RUNNING"]
                              \/ log' = [log EXCEPT ![r] = "CANCELLED"]
                              \/ log' = [log EXCEPT ![r] = "FAILED"]
      PROVE  log'[run] # "COMPLETE"
  BY <1>2
<1>3. CASE log' = log
  BY <1>3
<1>4. ASSUME NEW r \in Query,
             WebNext(r) \/ WorkerNext(r) \/ PostgresNext(r) \/ PollNext(r) \/ task_dies(r)
      PROVE  log'[run] # "COMPLETE"
  BY <1>1, <1>2, <1>3, <1>4
     DEF WebNext, QueryLog_create, run_querylog_query_delay, QueryLogUpdateView_get_object,
         QueryLogUpdateView_save, WorkerNext, run_querylog_query_start, execute,
         mark_query_log_failed, stop_polling, commit, PostgresNext, executed,
         statement_times_out, statement_fails, PollNext, poll_sees_cancelled, poll_cancels,
         poll_ends, task_dies
<1> QED BY <1>3, <1>4 DEF Next, vars

\* No query is marked COMPLETE after it has been marked CANCELLED.
THEOREM CancelledIsNotCompletedCorrect == Spec => CancelledIsNotCompleted
<1>1. TypeOK /\ [Next]_vars =>
        [\A run \in Query : log[run] = "CANCELLED" => log'[run] # "COMPLETE"]_vars
  BY CancelledStep
<1> QED BY <1>1, RunsTypeCorrect, PTL DEF Spec, CancelledIsNotCompleted

-----------------------------------------------------------------------------
(***************************************************************************)
(* Proofs about SsoLogin, for any tabs, logouts and sessions that are      *)
(* lost: its types, which say that a flow and a token are never taken for  *)
(* one another, and that what SSO answered is about a token.               *)
(***************************************************************************)

LoginBounded == Tab \cap {Login!NoSession, Login!OldFlow, Login!Token, Login!Revoked} = {}

Tokens == {Login!NoSession, Login!Token, Login!Revoked}
TabPc == {"idle", "request", "profile", "answered", "page", "redirected", "sso", "callback",
          "token", "logged_in", "served", "error"}
AnyState == [pc : TabPc, sent : Login!Session, token : Tokens]
TabState == {s \in AnyState : s.pc = "answered" => s.token # Login!NoSession}

LoginInv ==
    /\ cookie \in Login!Session /\ tab \in [Tab -> TabState]
    /\ cached \subseteq {Login!Token, Login!Revoked}
    /\ logouts \subseteq Logout /\ lost \subseteq Lost

LEMMA LoginTypes == LoginInv => Login!LoginTypeOK
  BY DEF LoginInv, Login!LoginTypeOK, TabState, AnyState, TabPc, Tokens

LEMMA GivenTo ==
    ASSUME NEW pc \in TabPc \ {"answered"}, NEW s \in Login!Session, NEW t
    PROVE  Login!Gives(t, pc, s) \in TabState
  BY DEF Login!Gives, TabState, AnyState, Tokens

LEMMA GoesOn ==
    ASSUME tab \in [Tab -> TabState], NEW t \in Tab, NEW pc \in TabPc,
           pc = "answered" => tab[t].token # Login!NoSession
    PROVE  Login!At(t, pc) \in [Tab -> TabState]
<1>1. /\ [tab[t] EXCEPT !.pc = pc] \in AnyState
      /\ [tab[t] EXCEPT !.pc = pc].pc = pc
      /\ [tab[t] EXCEPT !.pc = pc].token = tab[t].token
  BY DEF TabState, AnyState
<1>2. [tab[t] EXCEPT !.pc = pc] \in TabState
  BY <1>1 DEF TabState
<1> QED
  BY <1>2 DEF Login!At

\* A tab whose session, and token, become others.
LEMMA RenamedIn ==
    ASSUME NEW s \in TabState, NEW session \in Login!Session, NEW token \in Tokens,
           token = Login!NoSession => s.token = Login!NoSession
    PROVE  [s EXCEPT !.sent = session, !.token = token] \in TabState
<1>1. [s EXCEPT !.sent = session] \in AnyState
  BY DEF TabState, AnyState
<1>2. [s EXCEPT !.sent = session, !.token = token] \in AnyState
  BY <1>1 DEF AnyState
<1>3. /\ [s EXCEPT !.sent = session, !.token = token].pc = s.pc
      /\ [s EXCEPT !.sent = session, !.token = token].token = token
  BY DEF TabState, AnyState
<1> QED
  BY <1>2, <1>3 DEF TabState

\* A flow that is begun anew is an old one wherever else it is.
LEMMA BegunAnew ==
    ASSUME LoginBounded, LoginInv, NEW t \in Tab, Login!Redirected(t)
    PROVE  cookie' \in Login!Session /\ tab' \in [Tab -> TabState] /\ cached' = cached
<1> DEFINE other(s) == IF s = t THEN Login!OldFlow ELSE s
           renamed == [u \in Tab |-> [tab[u] EXCEPT !.sent = other(tab[u].sent),
                                                    !.token = other(tab[u].token)]]
<1>1. /\ tab' = [renamed EXCEPT ![t] = Login!Gives(t, "redirected", t)]
      /\ cookie' = other(cookie) /\ cached' = cached
  BY DEF Login!Redirected, Login!Renamed
<1>2. \A s \in Login!Session : other(s) \in Login!Session
  BY DEF Login!Session
<1>3. \A s \in Tokens : other(s) = s
  BY DEF Tokens, LoginBounded
<1> HIDE DEF other
<1>4. ASSUME NEW u \in Tab
      PROVE  [tab[u] EXCEPT !.sent = other(tab[u].sent), !.token = other(tab[u].token)] \in TabState
  <2>1. tab[u] \in TabState /\ tab[u].sent \in Login!Session /\ tab[u].token \in Tokens
    BY DEF LoginInv, TabState, AnyState
  <2> QED
    BY <1>2, <1>3, <2>1, RenamedIn
<1>5. renamed \in [Tab -> TabState]
  BY <1>4
<1> HIDE DEF renamed
<1>6. t \in Login!Session /\ "redirected" \in TabPc
  BY DEF Login!Session, TabPc
<1>7. tab' \in [Tab -> TabState]
  BY <1>1, <1>5, <1>6, GivenTo
<1>8. cookie' \in Login!Session
  BY <1>1, <1>2 DEF LoginInv
<1> QED
  BY <1>1, <1>7, <1>8

\* The tokens from before a logout are Revoked wherever they are.
LEMMA LogOutStep ==
    ASSUME LoginInv, NEW l \in Logout, Login!log_out(l)
    PROVE  LoginInv'
<1> DEFINE other(s) == IF s = Login!Token THEN Login!Revoked ELSE s
           renamed == [u \in Tab |-> [tab[u] EXCEPT !.sent = other(tab[u].sent),
                                                    !.token = other(tab[u].token)]]
<1>1. /\ tab' = renamed /\ cookie' = other(cookie) /\ cached' = {other(s) : s \in cached}
      /\ logouts' = logouts \cup {l} /\ lost' = lost
  BY DEF Login!log_out, Login!Renamed
<1>2. /\ \A s \in Login!Session : other(s) \in Login!Session
      /\ \A s \in Tokens : /\ other(s) \in Tokens
                           /\ other(s) = Login!NoSession => s = Login!NoSession
  BY DEF Login!Session, Tokens, Login!NoSession, Login!Revoked
<1>3. cached' \subseteq {Login!Token, Login!Revoked}
  BY <1>1 DEF LoginInv
<1> HIDE DEF other
<1>4. ASSUME NEW u \in Tab
      PROVE  [tab[u] EXCEPT !.sent = other(tab[u].sent), !.token = other(tab[u].token)] \in TabState
  <2>1. tab[u] \in TabState /\ tab[u].sent \in Login!Session /\ tab[u].token \in Tokens
    BY DEF LoginInv, TabState, AnyState
  <2> QED
    BY <1>2, <2>1, RenamedIn
<1>5. renamed \in [Tab -> TabState]
  BY <1>4
<1> HIDE DEF renamed
<1> QED
  BY <1>1, <1>2, <1>3, <1>5 DEF LoginInv

LEMMA SessionLostStep ==
    ASSUME LoginInv, NEW s \in Login!Session \ {Login!NoSession}, NEW l \in Lost,
           Login!session_lost(s, l)
    PROVE  LoginInv'
<1>1. ASSUME NEW u \in Tab
      PROVE  [tab[u] EXCEPT !.sent = Login!NoSession] \in TabState
  <2>1. tab[u] \in TabState
    BY DEF LoginInv
  <2>2. [tab[u] EXCEPT !.sent = Login!NoSession] \in AnyState
    BY <2>1 DEF TabState, AnyState, Login!Session
  <2>3. /\ [tab[u] EXCEPT !.sent = Login!NoSession].pc = tab[u].pc
        /\ [tab[u] EXCEPT !.sent = Login!NoSession].token = tab[u].token
    BY <2>1 DEF TabState, AnyState
  <2> QED
    BY <2>1, <2>2, <2>3 DEF TabState
<1>2. tab' \in [Tab -> TabState]
  BY <1>1 DEF Login!session_lost, LoginInv
<1>3. cookie' \in Login!Session
  BY DEF Login!session_lost, LoginInv, Login!Session
<1> QED
  BY <1>2, <1>3 DEF Login!session_lost, LoginInv

LEMMA TabStep ==
    ASSUME LoginBounded, LoginInv, NEW t \in Tab,
           Login!open(t) \/ Login!TabNext(t) \/ \E l \in Lost : Login!sso_fails(t, l)
    PROVE  LoginInv'
<1>1. /\ cookie \in Login!Session /\ tab \in [Tab -> TabState] /\ tab[t] \in TabState
      /\ cached \subseteq {Login!Token, Login!Revoked}
  BY DEF LoginInv
<1>2. /\ tab[t].sent \in Login!Session /\ tab[t].token \in Tokens
      /\ tab[t].pc = "answered" => tab[t].token # Login!NoSession
  BY <1>1 DEF TabState, AnyState
<1>3. /\ Login!NoSession \in Login!Session /\ Login!Token \in Login!Session
      /\ {"request", "sso", "callback", "served", "page", "answered", "token", "logged_in",
          "error"} \subseteq TabPc
      /\ Login!Token # Login!NoSession
  BY DEF Login!Session, TabPc, Login!Token, Login!NoSession
<1>4. logouts' = logouts /\ lost' \subseteq lost \cup Lost
  BY DEF Login!open, Login!TabNext, Login!follow_redirect, Login!sso_redirects,
         Login!follow_login, Login!page_arrives, Login!no_token, Login!has_token,
         Login!profile_cached, Login!sso_knows, Login!sso_does_not_know, Login!profile_saved,
         Login!flow_overtaken, Login!flow_found, Login!token_set, Login!sso_fails, Login!losses
<1> SUFFICES /\ cookie' \in Login!Session /\ tab' \in [Tab -> TabState]
             /\ cached' \subseteq {Login!Token, Login!Revoked}
  BY <1>4 DEF LoginInv
<1>5. CASE Login!Redirected(t)
  BY <1>1, <1>5, BegunAnew
<1>6. CASE Login!no_token(t) \/ Login!sso_does_not_know(t) \/ Login!flow_overtaken(t)
  BY <1>5, <1>6 DEF Login!no_token, Login!sso_does_not_know, Login!flow_overtaken
<1>7. CASE \/ Login!profile_cached(t) \/ Login!sso_knows(t) \/ Login!flow_found(t)
           \/ Login!follow_redirect(t)
  BY <1>1, <1>2, <1>3, <1>7, GoesOn
     DEF Login!profile_cached, Login!sso_knows, Login!flow_found, Login!follow_redirect
<1>8. CASE Login!profile_saved(t)
  <2>1. tab' \in [Tab -> TabState]
    BY <1>1, <1>3, <1>8, GoesOn DEF Login!profile_saved
  <2> QED
    BY <1>1, <1>2, <1>8, <2>1 DEF Login!profile_saved, Tokens
<1>9. CASE \/ Login!open(t) \/ Login!sso_redirects(t) \/ Login!follow_login(t)
           \/ Login!page_arrives(t) \/ Login!token_set(t)
  BY <1>1, <1>2, <1>3, <1>9, GivenTo
     DEF Login!open, Login!sso_redirects, Login!follow_login, Login!page_arrives,
         Login!token_set
<1>10. CASE Login!has_token(t)
  <2>1. /\ tab' = [tab EXCEPT ![t] = [tab[t] EXCEPT !.pc = "profile", !.token = tab[t].sent]]
        /\ tab[t].sent \in Tokens
    BY <1>10 DEF Login!has_token, Tokens
  <2>2. [tab[t] EXCEPT !.pc = "profile"] \in AnyState
    BY <1>1 DEF TabState, AnyState, TabPc
  <2>3. /\ [tab[t] EXCEPT !.pc = "profile", !.token = tab[t].sent] \in AnyState
        /\ [tab[t] EXCEPT !.pc = "profile", !.token = tab[t].sent].pc = "profile"
    BY <1>1, <2>1, <2>2 DEF TabState, AnyState
  <2>4. [tab[t] EXCEPT !.pc = "profile", !.token = tab[t].sent] \in TabState
    BY <2>3 DEF TabState
  <2> QED
    BY <1>1, <1>10, <2>1, <2>4 DEF Login!has_token
<1>11. ASSUME NEW l \in Lost, Login!sso_fails(t, l)
       PROVE  /\ cookie' \in Login!Session /\ tab' \in [Tab -> TabState]
              /\ cached' \subseteq {Login!Token, Login!Revoked}
  BY <1>1, <1>3, <1>5, <1>11, GivenTo DEF Login!sso_fails
<1> QED
  BY <1>6, <1>7, <1>8, <1>9, <1>10, <1>11 DEF Login!TabNext

LEMMA LoginInvInit == Login!LoginInit => LoginInv
<1> SUFFICES ASSUME Login!LoginInit PROVE LoginInv
  OBVIOUS
<1>1. Login!NoRequest \in TabState
  BY DEF Login!NoRequest, TabState, AnyState, TabPc, Tokens, Login!Session
<1> QED
  BY <1>1 DEF Login!LoginInit, LoginInv, Login!Session

LEMMA LoginInvStep ==
    ASSUME LoginBounded PROVE LoginInv /\ [Login!LoginNext]_loginVars => LoginInv'
<1> SUFFICES ASSUME LoginInv, [Login!LoginNext]_loginVars PROVE LoginInv'
  OBVIOUS
<1>1. CASE UNCHANGED loginVars
  BY <1>1 DEF loginVars, LoginInv
<1>2. CASE Login!profile_expires
  BY <1>2 DEF Login!profile_expires, Login!losses, LoginInv
<1> QED
  BY <1>1, <1>2, TabStep, LogOutStep, SessionLostStep DEF Login!LoginNext

-----------------------------------------------------------------------------
(* All the parts *)

PartsBounded == NotifyBounded /\ StreamBounded /\ LoginBounded
PartsInv == RunsInv /\ NotifyInv /\ StreamInv /\ LoginInv

\* The invariants of the parts hold of their composition: no step of one disturbs another.
THEOREM PartsInvCorrect == ASSUME PartsBounded PROVE PartsSpec => []PartsInv
<1>1. PartsInit => PartsInv
  BY RunsInitInv, NotifyInitInv, StreamInitInv, LoginInvInit
     DEF PartsBounded, PartsInit, PartsInv
<1>2. PartsInv /\ [PartsNext]_<<part, runVars, notifyVars, streamVars, loginVars>> => PartsInv'
  <2> SUFFICES ASSUME PartsInv,
                      [PartsNext]_<<part, runVars, notifyVars, streamVars, loginVars>>
               PROVE  PartsInv'
    OBVIOUS
  <2>1. /\ [Next]_vars /\ [NotifyNext]_notifyVars /\ [StreamNext]_streamVars
        /\ [Login!LoginNext]_loginVars
    BY DEF PartsNext, runVars
  <2> QED
    BY <2>1, RunsInvStep, NotifyInvStep, StreamInvStep, LoginInvStep DEF PartsBounded, PartsInv
<1> QED
  BY <1>1, <1>2, PTL DEF PartsSpec

\* Every variable of the parts keeps its type, whichever takes its steps.
THEOREM PartsTypeCorrect == ASSUME PartsBounded PROVE PartsSpec => []PartsTypeOK
<1>1. PartsInv => PartsTypeOK
  BY LoginTypes DEF PartsInv, RunsInv, NotifyInv, StreamInv, PartsTypeOK
<1> QED
  BY <1>1, PartsInvCorrect, PTL
=============================================================================
