-------------------------- MODULE ToolQueryLogsProofs --------------------------
(***************************************************************************)
(* Whatever executions overlap or die, the end of a window leaves nothing  *)
(* behind, and a stored statement has its tables.                          *)
(*                                                                         *)
(* The first holds because an execution that ends writes where it read     *)
(* up to, and it has dealt with everything up to there: with what is older *)
(* than its window before it began (the end of the last window was left    *)
(* with the same promise, or there is a gap), and with what is in it one   *)
(* by one.  The invariant says so of every execution that is under way:    *)
(* two of them, after a lock that expired, keep the promise independently. *)
(***************************************************************************)
EXTENDS ToolQueryLogs, FiniteSetTheorems, TLAPS

Bounded == MaxTime \in Nat \ {0} /\ Kept \in Nat

\* what needs no execution to deal with it any more
Settled == stored \cup excused \cup gap

\* a line is of a statement that was executed, and whoever is dropped is excused
LinesAreExecuted ==
    /\ \A s \in lines : time[s] # 0
    /\ dropped \subseteq stored \cup excused

\* where each step finds its execution
Stages ==
    \A e \in Execution :
        /\ exec[e].pc # "idle" => exec[e].to # 0
        /\ exec[e].pc = "window" => exec[e].read = exec[e].from /\ exec[e].todo = {}
        /\ exec[e].pc \in {"storing", "created"} => exec[e].read = exec[e].to
        /\ exec[e].pc # "created" => exec[e].at = {}
        /\ exec[e].at \subseteq stored

\* an execution has yet to deal only with what is on its list, up to where it read
ListsAreWhole ==
    \A e \in Execution, s \in lines :
        exec[e].pc # "idle" /\ time[s] <= exec[e].read => s \in Settled \cup exec[e].todo

IInv ==
    /\ TypeOK /\ LinesAreExecuted /\ Stages /\ ListsAreWhole
    /\ WindowsLeaveNothing /\ StoredHaveTables

Call == [pc : {"idle", "window", "storing", "created"},
         from : 0..MaxTime, to : 0..MaxTime, read : 0..MaxTime,
         todo : SUBSET Statement, at : SUBSET Statement]

-----------------------------------------------------------------------------
LEMMA InitInv == ASSUME Bounded PROVE Init => IInv
<1> SUFFICES ASSUME Init PROVE IInv
  OBVIOUS
<1>1. Cardinality({}) = 0
  BY FS_EmptySet
<1> QED
  BY <1>1 DEF Bounded, Init, Idle, IInv, TypeOK, LinesAreExecuted, Stages, ListsAreWhole,
              WindowsLeaveNothing, StoredHaveTables

\* The steps of Postgres, of its users and of the cache.
LEMMA OutsideStep ==
    ASSUME Bounded, IInv,
           \/ tick \/ last_run_expires \/ lock_expires
           \/ \E s \in Statement : statement_executed(s) \/ line_written(s) \/ user_dropped(s)
    PROVE  IInv'
<1>1. CASE tick \/ lock_expires
  BY <1>1 DEF Bounded, tick, lock_expires, statementVars, history, IInv, TypeOK, LinesAreExecuted,
              Stages, ListsAreWhole, WindowsLeaveNothing, StoredHaveTables, Settled
<1>2. CASE last_run_expires
  <2>1. Cardinality({}) = 0
    BY FS_EmptySet
  <2> QED
    BY <1>2, <2>1 DEF last_run_expires, statementVars, history, IInv, TypeOK, LinesAreExecuted,
                Stages, ListsAreWhole, WindowsLeaveNothing, StoredHaveTables, Settled
<1>3. CASE \E s \in Statement : statement_executed(s)
  <2> PICK s \in Statement : statement_executed(s)
    BY <1>3
  <2>1. s \notin lines
    BY DEF statement_executed, IInv, LinesAreExecuted
  <2>2. TypeOK'
    BY DEF statement_executed, history, Bounded, IInv, TypeOK
  <2>3. \A other \in lines : time'[other] = time[other]
    BY <2>1 DEF statement_executed, IInv, TypeOK
  <2> QED
    BY <2>2, <2>3 DEF statement_executed, history, IInv, LinesAreExecuted,
                      Stages, ListsAreWhole, WindowsLeaveNothing, StoredHaveTables, Settled
<1>4. CASE \E s \in Statement : line_written(s)
  <2> PICK s \in Statement : line_written(s)
    BY <1>4
  <2>1. TypeOK' /\ excused \subseteq excused' /\ lines' = lines \cup {s}
    BY DEF line_written, IInv, TypeOK
  <2>2. \A entry \in last : time[s] <= entry.value => s \in excused'
    BY DEF line_written
  <2>3. \A e \in Execution : exec[e].pc # "idle" /\ time[s] <= exec[e].read => s \in excused'
    BY DEF line_written
  <2> QED
    BY <2>1, <2>2, <2>3 DEF line_written, IInv, LinesAreExecuted,
                      Stages, ListsAreWhole, WindowsLeaveNothing, StoredHaveTables, Settled
<1>5. CASE \E s \in Statement : user_dropped(s)
  BY <1>5 DEF user_dropped, IInv, TypeOK, LinesAreExecuted,
              Stages, ListsAreWhole, WindowsLeaveNothing, StoredHaveTables, Settled
<1> QED
  BY <1>1, <1>2, <1>3, <1>4, <1>5

\* A window begins where everything is settled.
LEMMA WindowStep ==
    ASSUME Bounded, IInv, NEW e \in Execution, window_chosen(e)
    PROVE  IInv'
<1> DEFINE from == IF last = {} THEN IF now > Kept THEN now - Kept ELSE 0
                   ELSE CHOOSE value \in {entry.value : entry \in last} : TRUE
           new == [Idle EXCEPT !.pc = "window", !.from = from, !.to = now, !.read = from]
<1>1. /\ exec' = [exec EXCEPT ![e] = new]
      /\ gap' = IF last = {} THEN gap \cup {s \in Statement : time[s] \in 1..from} ELSE gap
      /\ lockHolder' = {e} /\ exec[e].pc = "idle"
      /\ UNCHANGED <<now, statementVars, stored, tables, last, excused, halfStored, failed>>
  BY DEF window_chosen
<1>2. last # {} => \E entry \in last : from = entry.value
  <2> SUFFICES ASSUME last # {} PROVE \E entry \in last : from = entry.value
    OBVIOUS
  <2>1. {entry.value : entry \in last} # {}
    OBVIOUS
  <2>2. from \in {entry.value : entry \in last}
    BY <2>1
  <2> QED
    BY <2>2
<1>3. from \in 0..MaxTime
  <2>1. CASE last = {}
    BY <2>1 DEF Bounded, IInv, TypeOK
  <2>2. CASE last # {}
    BY <2>2, <1>2 DEF Bounded, IInv, TypeOK
  <2> QED
    BY <2>1, <2>2
<1> HIDE DEF from
<1>4. /\ new.pc = "window" /\ new.from = from /\ new.read = from /\ new.to = now /\ now # 0
      /\ new.todo = {} /\ new.at = {}
  BY DEF Idle, IInv, TypeOK, Bounded
<1>5. new \in Call
  <2>1. Idle \in Call
    BY DEF Idle, Call, Bounded
  <2>2. now \in 0..MaxTime
    BY DEF IInv, TypeOK, Bounded
  <2>3. [Idle EXCEPT !.pc = "window"] \in Call
    BY <2>1 DEF Call
  <2>4. [Idle EXCEPT !.pc = "window", !.from = from] \in Call
    BY <1>3, <2>3 DEF Call
  <2>5. [Idle EXCEPT !.pc = "window", !.from = from, !.to = now] \in Call
    BY <2>2, <2>4 DEF Call
  <2> QED
    BY <1>3, <2>5 DEF Call
<1> HIDE DEF new
<1>6. exec'[e] = new /\ \A other \in Execution \ {e} : exec'[other] = exec[other]
  BY <1>1 DEF IInv, TypeOK
<1>7. TypeOK'
  BY <1>1, <1>5, <1>6 DEF IInv, TypeOK, Call, statementVars
<1>8. \A s \in lines : time[s] <= from => s \in Settled'
  <2> SUFFICES ASSUME NEW s \in lines, time[s] <= from PROVE s \in Settled'
    OBVIOUS
  <2>1. CASE last = {}
    <3>1. time[s] \in 1..from
      BY <1>3 DEF IInv, LinesAreExecuted, TypeOK, Bounded
    <3> QED
      BY <2>1, <3>1, <1>1 DEF Settled, IInv, TypeOK
  <2>2. CASE last # {}
    BY <2>2, <1>1, <1>2 DEF IInv, WindowsLeaveNothing, Settled
  <2> QED
    BY <2>1, <2>2
<1>9. Settled \subseteq Settled'
  BY <1>1 DEF Settled
<1>10. Stages' /\ ListsAreWhole'
  BY <1>1, <1>4, <1>6, <1>8, <1>9 DEF IInv, Stages, ListsAreWhole, statementVars
<1>11. WindowsLeaveNothing'
  BY <1>1, <1>9 DEF IInv, WindowsLeaveNothing, Settled, statementVars
<1>12. exec[e].at = {}
  BY <1>1 DEF IInv, Stages
<1>13. StoredHaveTables'
  BY <1>1, <1>4, <1>6, <1>12 DEF IInv, StoredHaveTables
<1>14. LinesAreExecuted'
  BY <1>1 DEF IInv, LinesAreExecuted, statementVars
<1> QED
  BY <1>7, <1>10, <1>11, <1>13, <1>14 DEF IInv

\* The lines of the window are put on the list, and those before it were settled.
LEMMA FetchStep ==
    ASSUME Bounded, IInv, NEW e \in Execution, logs_fetched(e)
    PROVE  IInv'
<1>1. TypeOK'
  <2>1. {s \in lines : InWindow(e, s)} \subseteq Statement
    BY DEF IInv, TypeOK
  <2>2. [exec[e] EXCEPT !.pc = "storing", !.read = exec[e].to,
                       !.todo = {s \in lines : InWindow(e, s)}] \in Call
    <3>1. exec[e] \in Call
      BY DEF IInv, TypeOK, Call
    <3>2. [exec[e] EXCEPT !.pc = "storing", !.read = exec[e].to] \in Call
      BY <3>1 DEF Call
    <3> QED
      BY <2>1, <3>2 DEF Call
  <2>3. exec' = [exec EXCEPT ![e] = [exec[e] EXCEPT !.pc = "storing", !.read = exec[e].to,
                                        !.todo = {s \in lines : InWindow(e, s)}]]
    BY DEF logs_fetched
  <2>4. exec' \in [Execution -> Call]
    BY <2>2, <2>3 DEF IInv, TypeOK, Call
  <2> QED
    BY <2>4 DEF logs_fetched, statementVars, history, IInv, TypeOK, Call
<1>2. \A other \in Execution \ {e} : exec'[other] = exec[other]
  BY DEF logs_fetched, IInv, TypeOK
<1>3. /\ exec'[e].pc = "storing" /\ exec'[e].read = exec[e].to
      /\ exec'[e].from = exec[e].from /\ exec'[e].to = exec[e].to /\ exec'[e].at = exec[e].at
      /\ exec'[e].todo = {s \in lines : InWindow(e, s)}
  BY DEF logs_fetched, IInv, TypeOK
<1>4. exec[e].pc = "window" /\ exec[e].read = exec[e].from /\ exec[e].todo = {}
  BY DEF logs_fetched, IInv, Stages
<1>5. UNCHANGED <<lines, time, dropped, stored, tables, last, excused, gap, halfStored>>
  BY DEF logs_fetched, statementVars, history
<1>6. Stages'
  BY <1>2, <1>3, <1>4, <1>5 DEF IInv, Stages
<1>7. \A s \in lines : time[s] <= exec[e].to => s \in Settled \cup exec'[e].todo
  <2> SUFFICES ASSUME NEW s \in lines, time[s] <= exec[e].to
               PROVE  s \in Settled \cup exec'[e].todo
    OBVIOUS
  <2>1. CASE time[s] <= exec[e].from
    BY <2>1, <1>4 DEF IInv, ListsAreWhole
  <2>2. CASE exec[e].from < time[s]
    BY <2>2, <1>3 DEF InWindow
  <2> QED
    BY <2>1, <2>2 DEF IInv, TypeOK, Bounded
<1>8. ListsAreWhole'
  BY <1>2, <1>3, <1>5, <1>7 DEF IInv, ListsAreWhole, Settled
<1> QED
  BY <1>1, <1>2, <1>3, <1>5, <1>6, <1>8
     DEF IInv, LinesAreExecuted, WindowsLeaveNothing, StoredHaveTables

\* A line that is stored, or skipped, is settled; its tables come next.
LEMMA LineStep ==
    ASSUME Bounded, IInv, NEW e \in Execution,
           tables_stored(e) \/ \E s \in Statement : line_skipped(e, s) \/ line_stored(e, s)
    PROVE  IInv'
<1>1. TypeOK'
  BY DEF line_skipped, line_stored, tables_stored, statementVars, history, IInv, TypeOK
<1>2. /\ \A other \in Execution \ {e} : exec'[other] = exec[other]
      /\ exec'[e].read = exec[e].read /\ exec'[e].from = exec[e].from
      /\ exec'[e].to = exec[e].to
      /\ exec[e].pc \in {"storing", "created"} /\ exec'[e].pc \in {"storing", "created"}
  BY DEF line_skipped, line_stored, tables_stored, IInv, TypeOK
<1>3. UNCHANGED <<lines, time, dropped, last, excused, gap, halfStored>> /\ stored \subseteq stored'
  BY DEF line_skipped, line_stored, tables_stored, statementVars, history
<1>4. Settled \subseteq Settled' /\ exec[e].todo \ exec'[e].todo \subseteq Settled'
  BY <1>2, <1>3 DEF line_skipped, line_stored, tables_stored, IInv, LinesAreExecuted, Stages,
                    TypeOK, Settled
<1>5. Stages'
  BY <1>2, <1>3 DEF line_skipped, line_stored, tables_stored, IInv, Stages, TypeOK
<1>6. ListsAreWhole'
  BY <1>2, <1>3, <1>4 DEF IInv, ListsAreWhole
<1>7. stored' \ stored \subseteq exec'[e].at
  BY DEF line_skipped, line_stored, tables_stored, statementVars, IInv, TypeOK
<1>8. exec[e].at \subseteq tables' \cup exec'[e].at /\ tables \subseteq tables'
  BY <1>2 DEF line_skipped, line_stored, tables_stored, IInv, Stages, TypeOK
<1>9. StoredHaveTables'
  BY <1>2, <1>3, <1>7, <1>8 DEF IInv, StoredHaveTables
<1> QED
  BY <1>1, <1>3, <1>4, <1>5, <1>6, <1>9 DEF IInv, LinesAreExecuted, WindowsLeaveNothing, Settled

\* An execution that has dealt with all it read leaves where it read up to; one that dies
\* leaves what it was about to add tables to.
LEMMA EndStep ==
    ASSUME Bounded, IInv, NEW e \in Execution,
           execution_ends(e) \/ \E f \in Failure : execution_dies(e, f)
    PROVE  IInv'
<1>1. exec' = [exec EXCEPT ![e] = Idle] /\ exec[e].pc # "idle"
  BY DEF execution_ends, execution_dies
<1>2. exec'[e] = Idle /\ \A other \in Execution \ {e} : exec'[other] = exec[other]
  BY <1>1 DEF IInv, TypeOK
<1>3. /\ UNCHANGED <<now, lines, time, dropped, stored, tables, excused, gap>>
      /\ halfStored \subseteq halfStored'
      /\ exec[e].at \subseteq halfStored'
  BY DEF execution_ends, execution_dies, statementVars, history, IInv, Stages, TypeOK
<1>4. last' = last \/ last' = {[value |-> exec[e].to, set |-> now]}
  BY DEF execution_ends, execution_dies
<1>5. TypeOK'
  <2>1. Idle \in Call
    BY DEF Idle, Call, Bounded
  <2>2. exec' \in [Execution -> Call]
    BY <1>1, <2>1 DEF IInv, TypeOK, Call
  <2>3. Cardinality(last') <= 1
    <3>1. Cardinality({[value |-> exec[e].to, set |-> now]}) = 1
      BY FS_Singleton
    <3>2. CASE last' = last
      BY <3>2 DEF IInv, TypeOK
    <3>3. CASE last' = {[value |-> exec[e].to, set |-> now]}
      BY <3>1, <3>3
    <3> QED
      BY <1>4, <3>2, <3>3
  <2>4. last' \subseteq [value : 1..MaxTime, set : 1..MaxTime]
    <3>1. CASE execution_ends(e)
      <4>1. last' = {[value |-> exec[e].to, set |-> now]}
        BY <3>1 DEF execution_ends
      <4>2. exec[e].to \in 1..MaxTime
        BY <1>1 DEF IInv, TypeOK, Stages, Bounded
      <4> QED
        BY <4>1, <4>2 DEF IInv, TypeOK, Bounded
    <3>2. CASE \E f \in Failure : execution_dies(e, f)
      BY <3>2 DEF execution_dies, IInv, TypeOK
    <3> QED
      BY <3>1, <3>2
  <2>5. halfStored' \subseteq Statement /\ lockHolder' \subseteq Execution /\ failed' \subseteq Failure
    BY DEF execution_ends, execution_dies, history, IInv, TypeOK
  <2> QED
    BY <1>3, <2>2, <2>3, <2>4, <2>5 DEF IInv, TypeOK, Call
<1>6. WindowsLeaveNothing'
  <2>1. CASE execution_ends(e)
    <3>1. last' = {[value |-> exec[e].to, set |-> now]} /\ exec[e].todo = {}
          /\ exec[e].read = exec[e].to
      BY <2>1 DEF execution_ends, IInv, Stages
    <3> QED
      BY <3>1, <1>1, <1>3 DEF IInv, ListsAreWhole, WindowsLeaveNothing, Settled
  <2>2. CASE \E f \in Failure : execution_dies(e, f)
    BY <2>2, <1>3 DEF execution_dies, IInv, WindowsLeaveNothing
  <2> QED
    BY <2>1, <2>2
<1>7. Stages' /\ ListsAreWhole'
  BY <1>2, <1>3 DEF Idle, IInv, Stages, ListsAreWhole, Settled
<1>8. StoredHaveTables'
  BY <1>2, <1>3 DEF IInv, StoredHaveTables
<1> QED
  BY <1>3, <1>5, <1>6, <1>7, <1>8 DEF IInv, LinesAreExecuted

LEMMA InvStep == ASSUME Bounded PROVE IInv /\ [Next]_vars => IInv'
<1> SUFFICES ASSUME IInv, [Next]_vars PROVE IInv'
  OBVIOUS
<1>1. CASE UNCHANGED vars
  BY <1>1 DEF vars, statementVars, history, IInv, TypeOK, LinesAreExecuted, Stages, ListsAreWhole,
              WindowsLeaveNothing, StoredHaveTables, Settled
<1>2. CASE Next
  BY <1>2, OutsideStep, WindowStep, FetchStep, LineStep, EndStep DEF Next, ExecutionNext
<1> QED
  BY <1>1, <1>2

\* The inductive invariant holds of every behaviour.
THEOREM InvCorrect == ASSUME Bounded PROVE Spec => []IInv
<1>1. Init => IInv
  BY InitInv
<1>2. IInv /\ [Next]_vars => IInv'
  BY InvStep
<1> QED
  BY <1>1, <1>2, PTL DEF Spec

\* Every variable of ToolQueryLogs keeps its type.
THEOREM TypeCorrect == ASSUME Bounded PROVE Spec => []TypeOK
<1>1. IInv => TypeOK
  BY DEF IInv
<1> QED
  BY <1>1, InvCorrect, PTL

\* What sync_tool_query_logs leaves in the cache as the end of its window is never ahead of
\* what it stored: no line up to there is left out, but for the exceptions of the property.
THEOREM WindowsLeaveNothingCorrect == ASSUME Bounded PROVE Spec => []WindowsLeaveNothing
<1>1. IInv => WindowsLeaveNothing
  BY DEF IInv
<1> QED
  BY <1>1, InvCorrect, PTL

\* A ToolQueryAuditLog is without its tables only while the execution that made it goes on,
\* or after that has died between the two.
THEOREM StoredHaveTablesCorrect == ASSUME Bounded PROVE Spec => []StoredHaveTables
<1>1. IInv => StoredHaveTables
  BY DEF IInv
<1> QED
  BY <1>1, InvCorrect, PTL

=============================================================================
