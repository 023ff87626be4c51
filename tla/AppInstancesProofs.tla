------------------------ MODULE AppInstancesProofs -------------------------
(***************************************************************************)
(* Proofs about AppInstances, for any number of hosts, instances, requests *)
(* and addresses, with any of the periodic tasks, ECS errors and crashes.  *)
(***************************************************************************)
EXTENDS AppInstances, TLAPS

USE HostOfAssumption, DistinctAssumption, SwitchAssumption

-----------------------------------------------------------------------------
(* Types *)

LEMMA RequestTypes ==
    /\ IdleRequest \in Request
    /\ \A h \in Host \cup {NoHost}, pc \in {"absent", "delete", "connect", "patch"} :
         /\ OnHost(pc, h) \in Request
         /\ \A a \in Ip \cup {NoIp} : [OnHost(pc, h) EXCEPT !.url = a] \in Request
    /\ \A i \in Id, pc \in {"delay", "deleting", "patching"} :
         OnRow(pc, i) \in Request
BY DEF IdleRequest, OnHost, OnRow, Request, AtRow, Live

LEMMA RowRead ==
    ASSUME TypeOK, NEW i \in Id, state[i] \in Live, NEW h \in Host \cup {NoHost},
           NEW m \in BOOLEAN
    PROVE  [pc |-> "got", host |-> h, id |-> i, state |-> state[i], url |-> proxy_url[i],
            arn |-> arn[i], modify |-> m] \in Request
BY DEF TypeOK, Request, AtRow, Live

\* the part of TypeOK about the table and the history variable
TableTypes ==
    /\ state \in [Id -> Live \cup {"none", "STOPPED"}]
    /\ integrity \in [Id -> Host \cup Id \cup {NoKey}]
    /\ proxy_url \in [Id -> Ip \cup {NoIp}]
    /\ arn \in [Id -> {"unset", "null", "set"}]
    /\ old \in SUBSET Id
    /\ barred \in SUBSET Host
    /\ resurrected \in SUBSET Id

LEMMA TableWrites ==
    ASSUME TypeOK, NEW i \in Id \cup {NoId},
           \/ set_application_stopped(i)
           \/ i \in Id /\ CreateRow(i)
           \/ UNCHANGED <<table, resurrected>>
    PROVE  TableTypes'
<1>1. TableTypes
  BY DEF TypeOK, TableTypes
<1>2. CASE set_application_stopped(i)
  BY <1>1, <1>2 DEF set_application_stopped, TableTypes
<1>3. CASE i \in Id /\ CreateRow(i)
  <2>1. HostOf[i] \in Host
    BY <1>3
  <2>2. integrity' \in [Id -> Host \cup Id \cup {NoKey}]
    BY <1>1, <1>3, <2>1 DEF CreateRow, TableTypes
  <2>3. state' \in [Id -> Live \cup {"none", "STOPPED"}]
    BY <1>1, <1>3 DEF CreateRow, TableTypes, Live
  <2> QED BY <1>1, <1>3, <2>2, <2>3 DEF CreateRow, TableTypes
<1>4. CASE UNCHANGED <<table, resurrected>>
  BY <1>1, <1>4 DEF table, TableTypes
<1> QED BY <1>2, <1>3, <1>4

LEMMA TypeInit == Init => TypeOK
BY RequestTypes DEF Init, TypeOK, IdleStopper, StopRequest, Live

LEMMA TypeProxy == ASSUME TypeOK, NEW p \in Proxy, ProxyNext(p) PROVE TypeOK'
<1> DEFINE R == request[p]
<1>0. R \in Request /\ R.host \in Host \cup {NoHost} /\ R.url \in Ip \cup {NoIp}
      /\ (R.pc \in AtRow => R.id \in Id)
  BY DEF TypeOK, Request
<1>f. ASSUME NEW r \in Request, request' = [request EXCEPT ![p] = r]
      PROVE  request' \in [Proxy -> Request]
  BY <1>f DEF TypeOK
<1>g. ASSUME request' \in [Proxy -> Request],
             UNCHANGED <<table, ecs, celery, periodic, crashes, stopper, resurrected>>
      PROVE  TypeOK'
  BY <1>g DEF TypeOK, table, ecs, celery, periodic
<1>1. ASSUME NEW h \in Host, NEW m \in BOOLEAN, application_api_GET(p, h, m) PROVE TypeOK'
  <2>1. ASSUME NEW i \in Id, ApiVisible(h) = {i}
        PROVE  state[i] \in Live
    BY <2>1 DEF ApiVisible
  <2>2. request' \in [Proxy -> Request]
    BY <1>1, <2>1, <1>f, RowRead, RequestTypes DEF application_api_GET, TypeOK
  <2> QED BY <2>2, <1>1, <1>g DEF application_api_GET
<1>2. CASE handle_application(p)
  <2>1. request' \in [Proxy -> Request]
    BY <1>2, <1>0, <1>f, RequestTypes DEF handle_application
  <2> QED BY <2>1, <1>2, <1>g DEF handle_application
<1>3. CASE application_api_PUT_lookup(p)
  <2>1. ASSUME R.pc = "absent" PROVE [R EXCEPT !.pc = "create"] \in Request
    BY <1>0, <2>1 DEF Request, AtRow
  <2> QED BY <2>1, <1>3, <1>f, <1>g, RequestTypes DEF application_api_PUT_lookup
<1>4. CASE application_api_PUT_create(p)
  <2>1. PICK i \in Id : CreateRow(i) /\ request' = [request EXCEPT ![p] = OnRow("delay", i)]
    BY <1>4 DEF application_api_PUT_create
  <2>2. TableTypes'
    BY <2>1, TableWrites
  <2>3. request' \in [Proxy -> Request]
    BY <2>1, <1>f, RequestTypes
  <2> QED BY <1>4, <2>2, <2>3 DEF application_api_PUT_create, TypeOK, TableTypes, ecs, celery,
            periodic
<1>5. CASE application_api_PUT_integrity_error(p)
  <2>1. ASSUME NEW i \in Id, ApiVisible(R.host) = {i}
        PROVE  state[i] \in Live
    BY <2>1 DEF ApiVisible
  <2>2. request' \in [Proxy -> Request]
    BY <1>5, <1>0, <2>1, <1>f, RowRead, RequestTypes DEF application_api_PUT_integrity_error
  <2> QED BY <2>2, <1>5, <1>g DEF application_api_PUT_integrity_error
<1>6. CASE application_api_PUT_delay(p)
  BY <1>6, <1>0, RequestTypes DEF application_api_PUT_delay, AtRow, TypeOK, table, ecs, periodic
<1>7. CASE application_api_DELETE_lookup(p)
  BY <1>7, <1>0, <1>f, <1>g, RequestTypes DEF application_api_DELETE_lookup,
       application_api_lookup
<1>8. CASE application_api_DELETE_save(p)
  <2>1. TableTypes'
    BY <1>8, <1>0, TableWrites DEF application_api_DELETE_save, AtRow
  <2> QED BY <1>8, <2>1, <1>f, RequestTypes DEF application_api_DELETE_save, TypeOK, TableTypes,
            ecs, celery, periodic
<1>9. CASE handle_application_http_spawning(p)
  BY <1>9, <1>0, <1>f, <1>g, RequestTypes DEF handle_application_http_spawning
<1>10. CASE application_api_PATCH_lookup(p)
  BY <1>10, <1>0, <1>f, <1>g, RequestTypes DEF application_api_PATCH_lookup,
       application_api_lookup
<1>11. CASE application_api_PATCH_save(p)
  BY <1>11, <1>0, RequestTypes DEF application_api_PATCH_save, TypeOK, AtRow, ecs, celery, periodic,
       Live
<1>12. CASE request_dies(p)
  BY <1>12, <1>f, <1>g, RequestTypes DEF request_dies
<1>13. QED
  BY <1>1, <1>2, <1>3, <1>4, <1>5, <1>6, <1>7, <1>8, <1>9, <1>10, <1>11, <1>12
     DEF ProxyNext

LEMMA TypeStopView == ASSUME TypeOK, NEW s \in Stopper, StopViewNext(s) PROVE TypeOK'
<1>0. stopper[s] \in StopRequest /\ (stopper[s].pc \in {"enqueue", "save"} => stopper[s].id \in Id)
  BY DEF TypeOK, StopRequest
<1> USE DEF IdleStopper, StopRequest
<1>1. ASSUME NEW h \in Host, StopViewLookup(s, h) PROVE TypeOK'
  BY <1>1 DEF StopViewLookup, TypeOK, table, ecs, celery, periodic
<1>2. CASE StopViewEnqueue(s)
  <2>1. stopQueued' \in SUBSET Id
    BY <1>2, <1>0 DEF StopViewEnqueue, TypeOK
  <2> QED BY <1>2, <1>0, <2>1 DEF StopViewEnqueue, TypeOK, table, ecs, periodic
<1>3. CASE StopViewSave(s)
  <2>1. TableTypes'
    BY <1>3, <1>0, TableWrites DEF StopViewSave
  <2> QED BY <1>3, <2>1 DEF StopViewSave, TypeOK, TableTypes, ecs, celery, periodic
<1>4. CASE stopper_dies(s)
  BY <1>4 DEF stopper_dies, TypeOK, table, ecs, celery, periodic
<1> QED BY <1>1, <1>2, <1>3, <1>4 DEF StopViewNext

LEMMA TypePeriodic ==
    ASSUME TypeOK, \/ KillIdleNext \/ kill_idle_fargate_crashes
                   \/ OrphansNext \/ orphaned_tools_monitor_crashes
    PROVE  TypeOK'
<1> USE DEF TypeOK, ecs, celery, web
<1>1. CASE kill_idle_fargate_list
  BY <1>1 DEF kill_idle_fargate_list, table, Live
<1>2. ASSUME NEW i \in Id, kill_idle_fargate_enqueue(i) PROVE TypeOK'
  BY <1>2 DEF kill_idle_fargate_enqueue, table
<1>3. ASSUME NEW i \in Id, kill_idle_fargate_save(i) PROVE TypeOK'
  BY <1>3, TableWrites DEF kill_idle_fargate_save, TableTypes
<1>4. ASSUME NEW i \in Id, kill_idle_fargate_skip(i) PROVE TypeOK'
  BY <1>4 DEF kill_idle_fargate_skip, table
<1>5. CASE orphaned_tools_monitor_list
  BY <1>5 DEF orphaned_tools_monitor_list, table
<1>6. ASSUME NEW i \in Id, orphaned_tools_monitor_mark(i) PROVE TypeOK'
  BY <1>6, TableWrites DEF orphaned_tools_monitor_mark, TableTypes
<1>7. ASSUME NEW i \in Id, orphaned_tools_monitor_stop_task(i) PROVE TypeOK'
  BY <1>7 DEF orphaned_tools_monitor_stop_task, StopTask, table
<1>8. ASSUME NEW i \in Id, orphaned_tools_monitor_skip(i) PROVE TypeOK'
  BY <1>8 DEF orphaned_tools_monitor_skip, table
<1>9. CASE kill_idle_fargate_crashes \/ orphaned_tools_monitor_crashes
  BY <1>9 DEF kill_idle_fargate_crashes, orphaned_tools_monitor_crashes, table
<1> QED BY <1>1, <1>2, <1>3, <1>4, <1>5, <1>6, <1>7, <1>8, <1>9 DEF KillIdleNext, OrphansNext

LEMMA TypeStop == ASSUME TypeOK, NEW i \in Id, StopNext(i) \/ stop_crashes(i) PROVE TypeOK'
<1> USE DEF TypeOK, ecs, periodic, web
<1>1. CASE stop_read(i)
  BY <1>1 DEF stop_read, table
<1>2. CASE stop_mark(i)
  BY <1>2, TableWrites DEF stop_mark, TableTypes
<1>3. CASE stop_call(i)
  BY <1>3 DEF stop_call, StopTask, table
<1>4. CASE stop_crashes(i)
  BY <1>4 DEF stop_crashes, table
<1> QED BY <1>1, <1>2, <1>3, <1>4 DEF StopNext

LEMMA TypeSpawn == ASSUME TypeOK, NEW i \in Id, SpawnNext(i) \/ spawn_crashes(i) PROVE TypeOK'
<1> USE DEF TypeOK, SpawnStep, periodic, web, Live
<1>1. CASE spawn_start(i)
  BY <1>1 DEF spawn_start, table, ecs
<1>2. CASE spawn_pipeline(i)
  BY <1>2 DEF spawn_pipeline, ecs
<1>3. CASE spawn_fails_early(i)
  BY <1>3 DEF spawn_fails_early, table, ecs
<1>4. CASE spawn_run_task(i)
  BY <1>4 DEF spawn_run_task, table, FreeIps
<1>5. CASE spawn_save_arn(i)
  BY <1>5 DEF spawn_save_arn, ecs
<1>6. CASE spawn_refresh(i)
  BY <1>6 DEF spawn_refresh, table, ecs
<1>7. CASE spawn_find_ip(i)
  BY <1>7 DEF spawn_find_ip, table, ecs
<1>8. CASE spawn_stop_conflict(i)
  BY <1>8 DEF spawn_stop_conflict, ecs
<1>9. CASE spawn_save_proxy_url(i)
  BY <1>9 DEF spawn_save_proxy_url, ecs
<1>10. CASE spawn_times_out(i)
  BY <1>10 DEF spawn_times_out, table, ecs
<1>11. CASE spawn_cleanup(i)
  BY <1>11 DEF spawn_cleanup, StopTask, table, ecs
<1>12. CASE spawn_crashes(i)
  BY <1>12 DEF spawn_crashes, table, ecs
<1> QED BY <1>1, <1>2, <1>3, <1>4, <1>5, <1>6, <1>7, <1>8, <1>9, <1>10, <1>11, <1>12
        DEF SpawnNext

LEMMA TypeEnvironment ==
    ASSUME TypeOK,
           \/ \E i \in Id : TaskExits(i) \/ TaskForgotten(i) \/ TwoHoursPass(i)
           \/ \E h \in Host : OwnerLosesAccess(h)
           \/ UNCHANGED vars
    PROVE  TypeOK'
<1> USE DEF TypeOK, ecs, celery, periodic, web, table
<1>1. ASSUME NEW i \in Id, TaskExits(i) \/ TaskForgotten(i) PROVE TypeOK'
  BY <1>1 DEF TaskExits, TaskForgotten
<1>2. ASSUME NEW i \in Id, TwoHoursPass(i) PROVE TypeOK'
  BY <1>2 DEF TwoHoursPass
<1>3. ASSUME NEW h \in Host, OwnerLosesAccess(h) PROVE TypeOK'
  BY <1>3 DEF OwnerLosesAccess
<1>4. CASE UNCHANGED vars
  BY <1>4 DEF vars
<1> QED BY <1>1, <1>2, <1>3, <1>4

LEMMA TypeStep == TypeOK /\ [Next]_vars => TypeOK'
BY TypeProxy, TypeStopView, TypePeriodic, TypeStop, TypeSpawn, TypeEnvironment DEF Next

\* The types of all variables, in every state of every instance of the model.
THEOREM TypeCorrect == Spec => []TypeOK
BY TypeInit, TypeStep, PTL DEF Spec

-----------------------------------------------------------------------------
(* One live instance per host.  A live row holds the key of its host, except  *)
(* that a row whose state a PATCH has overwritten has lost it: that needs     *)
(* every id remembered anywhere to be the id of a row, for otherwise a        *)
(* delayed save could write a key into a row that does not exist.             *)

Created == {i \in Id : state[i] # "none"}

\* every reference to a row that a later step writes through
Refs ==
    /\ \A p \in Proxy : request[p].pc \in AtRow => request[p].id \in Created
    /\ \A s \in Stopper : stopper[s].pc # "idle" => stopper[s].id \in Created
    /\ stopQueued \subseteq Created
    /\ \A i \in Id :
         /\ conflicts[i] \subseteq Created
         /\ stopping[i] # "none" \/ idle[i] # "no" \/ orphans[i] # "no" => i \in Created

\* what the unique column holds
Keys ==
    /\ \A i \in Id : integrity[i] \in {NoKey, HostOf[i], i}
    /\ \A i \in Id : state[i] = "none" <=> integrity[i] = NoKey
    /\ \A i, j \in Id : integrity[i] = integrity[j] /\ integrity[i] \in Host => i = j

\* a live row holds the key of its host
LiveHolds ==
    \A i \in Id : /\ state[i] = "SPAWNING" => integrity[i] = HostOf[i]
                  /\ state[i] = "RUNNING" => integrity[i] = HostOf[i] \/ i \in resurrected

IInv == TypeOK /\ Refs /\ Keys /\ LiveHolds

\* the ways a step may change the rows
Resurrects(i) ==
    /\ state' = [state EXCEPT ![i] = "RUNNING"]
    /\ integrity' = integrity
    /\ resurrected' = IF state[i] = "STOPPED" THEN resurrected \cup {i} ELSE resurrected
StopsWithoutKey(i) ==
    /\ state' = [state EXCEPT ![i] = "STOPPED"]
    /\ UNCHANGED <<integrity, resurrected>>
RowStep ==
    \/ UNCHANGED <<state, integrity, resurrected>>
    \/ \E i \in Id : CreateRow(i)
    \/ \E i \in Created : \/ set_application_stopped(i)
                          \/ Resurrects(i)
                          \/ StopsWithoutKey(i)

LEMMA InitInv == Init => IInv
BY TypeInit DEF Init, IInv, Refs, Keys, LiveHolds, IdleRequest, IdleStopper, AtRow

LEMMA RowSteps == ASSUME TypeOK, Refs, [Next]_vars PROVE RowStep
<1> USE DEF RowStep
<1>1. ASSUME NEW p \in Proxy, ProxyNext(p) PROVE RowStep
  <2>1. request[p].pc \in AtRow => request[p].id \in Created
    BY DEF Refs
  <2>2. CASE application_api_PUT_create(p)
    BY <2>2 DEF application_api_PUT_create
  <2>3. CASE application_api_DELETE_save(p)
    BY <2>1, <2>3 DEF application_api_DELETE_save, AtRow
  <2>4. CASE application_api_PATCH_save(p)
    BY <2>1, <2>4 DEF application_api_PATCH_save, AtRow, Resurrects
  <2>5. CASE UNCHANGED <<table, resurrected>>
    BY <2>5 DEF table
  <2> QED
    BY <1>1, <2>2, <2>3, <2>4, <2>5 DEF ProxyNext, application_api_GET, handle_application,
       application_api_PUT_lookup, application_api_PUT_integrity_error,
       application_api_PUT_delay, application_api_DELETE_lookup, application_api_PATCH_lookup,
       application_api_lookup, handle_application_http_spawning, request_dies
<1>2. ASSUME NEW s \in Stopper, StopViewNext(s) PROVE RowStep
  <2>1. CASE StopViewSave(s)
    BY <2>1 DEF StopViewSave, Refs
  <2>2. CASE UNCHANGED <<table, resurrected>>
    BY <2>2 DEF table
  <2> QED
    BY <1>2, <2>1, <2>2 DEF StopViewNext, StopViewLookup, StopViewEnqueue, stopper_dies
<1>3. CASE KillIdleNext \/ kill_idle_fargate_crashes
  BY <1>3 DEF KillIdleNext, kill_idle_fargate_list, kill_idle_fargate_enqueue,
       kill_idle_fargate_save, kill_idle_fargate_skip, kill_idle_fargate_crashes, Refs, table
<1>4. CASE OrphansNext \/ orphaned_tools_monitor_crashes
  BY <1>4 DEF OrphansNext, orphaned_tools_monitor_list, orphaned_tools_monitor_mark,
       orphaned_tools_monitor_stop_task, orphaned_tools_monitor_skip,
       orphaned_tools_monitor_crashes, Refs, table
<1>5. ASSUME NEW i \in Id, StopNext(i) \/ stop_crashes(i) PROVE RowStep
  BY <1>5 DEF StopNext, stop_read, stop_mark, stop_call, stop_crashes, Refs, table
<1>6. ASSUME NEW i \in Id, SpawnNext(i) \/ spawn_crashes(i) PROVE RowStep
  <2>1. CASE spawn_stop_conflict(i)
    BY <2>1 DEF spawn_stop_conflict, StopsWithoutKey, Refs
  <2> QED
    BY <1>6, <2>1 DEF SpawnNext, spawn_start, spawn_pipeline, spawn_fails_early, spawn_run_task,
       spawn_save_arn, spawn_refresh, spawn_find_ip, spawn_save_proxy_url, spawn_times_out,
       spawn_cleanup, spawn_crashes, table
<1>7. ASSUME NEW i \in Id, TaskExits(i) \/ TaskForgotten(i) \/ TwoHoursPass(i) PROVE RowStep
  BY <1>7 DEF TaskExits, TaskForgotten, TwoHoursPass, table
<1>8. ASSUME NEW h \in Host, OwnerLosesAccess(h) PROVE RowStep
  BY <1>8 DEF OwnerLosesAccess
<1>9. CASE UNCHANGED vars
  BY <1>9 DEF vars, table
<1> QED BY <1>1, <1>2, <1>3, <1>4, <1>5, <1>6, <1>7, <1>8, <1>9 DEF Next

\* no step deletes a row
LEMMA RowsStay == ASSUME TypeOK, RowStep PROVE Created \subseteq Created'
BY DEF TypeOK, RowStep, Created, CreateRow, set_application_stopped, Resurrects, StopsWithoutKey

LEMMA KeysStep ==
    ASSUME TypeOK, Keys, LiveHolds, RowStep
    PROVE  Keys' /\ LiveHolds'
<1> USE DEF TypeOK, Keys, LiveHolds, Live, Created
<1>1. CASE UNCHANGED <<state, integrity, resurrected>>
  BY <1>1
<1>2. ASSUME NEW i \in Id, CreateRow(i) PROVE Keys' /\ LiveHolds'
  <2>1. HostOf[i] \in Host /\ HostOf[i] # NoKey
    OBVIOUS
  <2> QED BY <1>2, <2>1 DEF CreateRow
<1>3. ASSUME NEW i \in Created, set_application_stopped(i) PROVE Keys' /\ LiveHolds'
  <2>1. i \notin Host /\ i # NoKey
    OBVIOUS
  <2> QED BY <1>3, <2>1 DEF set_application_stopped
<1>4. ASSUME NEW i \in Created, Resurrects(i) PROVE Keys' /\ LiveHolds'
  BY <1>4 DEF Resurrects
<1>5. ASSUME NEW i \in Created, StopsWithoutKey(i) PROVE Keys' /\ LiveHolds'
  BY <1>5 DEF StopsWithoutKey
<1> QED BY <1>1, <1>2, <1>3, <1>4, <1>5 DEF RowStep

\* a row that a lookup finds
LEMMA VisibleIsCreated ==
    \A h \in Host \cup {NoHost}, i \in Id : ApiVisible(h) = {i} => i \in Created
BY DEF ApiVisible, Created, Live

LEMMA RefsProxy ==
    ASSUME TypeOK, Refs, RowStep, NEW p \in Proxy, ProxyNext(p) PROVE Refs'
<1>0. Created \subseteq Created'
  BY RowsStay
<1>1. ASSUME NEW r \in Request, request' = [request EXCEPT ![p] = r],
             r.pc \in AtRow => r.id \in Created',
             UNCHANGED <<stopper, stopQueued, conflicts, stopping, periodic>>
      PROVE  Refs'
  BY <1>0, <1>1 DEF Refs, TypeOK, periodic
<1> DEFINE R == request[p]
<1>2. R \in Request /\ R.host \in Host \cup {NoHost} /\ R.url \in Ip \cup {NoIp}
      /\ (R.pc \in AtRow => R.id \in Created)
  BY DEF TypeOK, Request, Refs
<1>i. \A pc, h : IdleRequest.pc \notin AtRow /\ OnHost("absent", h).pc \notin AtRow
        /\ OnHost("delete", h).pc \notin AtRow /\ OnHost("connect", h).pc \notin AtRow
        /\ OnHost("patch", h).pc \notin AtRow
  BY DEF IdleRequest, OnHost, AtRow
<1>3. ASSUME NEW h \in Host, NEW m \in BOOLEAN, application_api_GET(p, h, m) PROVE Refs'
  <2>1. CASE UNCHANGED request
    BY <1>0, <1>3, <2>1 DEF application_api_GET, Refs, TypeOK, celery, periodic
  <2>2. CASE request' = [request EXCEPT ![p] = OnHost("absent", h)]
    BY <1>1, <1>3, <1>i, <2>2, RequestTypes DEF application_api_GET, celery
  <2>3. ASSUME NEW i \in Id, ApiVisible(h) = {i},
               request' = [request EXCEPT ![p] =
                             [pc |-> "got", host |-> h, id |-> i, state |-> state[i],
                              url |-> proxy_url[i], arn |-> arn[i], modify |-> m]]
        PROVE  Refs'
    <3>1. state[i] \in Live /\ i \in Created
      BY <2>3 DEF ApiVisible, Created, Live
    <3> QED BY <1>0, <1>1, <1>3, <2>3, <3>1, RowRead DEF application_api_GET, celery
  <2> QED BY <1>3, <2>1, <2>2, <2>3 DEF application_api_GET
<1>4. CASE handle_application(p)
  <2>1. PICK r \in Request : r.pc \notin AtRow /\ request' = [request EXCEPT ![p] = r]
    <3>1. [OnHost("connect", R.host) EXCEPT !.url = R.url].pc \notin AtRow
      BY DEF OnHost, IdleRequest, AtRow
    <3> QED BY <1>2, <1>4, <1>i, <3>1, RequestTypes DEF handle_application
  <2> QED BY <1>1, <1>4, <2>1 DEF handle_application, celery
<1>5. CASE application_api_PUT_lookup(p)
  <2>1. ASSUME R.pc = "absent"
        PROVE  /\ [R EXCEPT !.pc = "create"] \in Request
               /\ [R EXCEPT !.pc = "create"].pc \notin AtRow
    BY <1>2, <2>1 DEF Request, AtRow
  <2> QED BY <1>1, <1>5, <1>i, <2>1, RequestTypes DEF application_api_PUT_lookup, celery
<1>6. CASE application_api_PUT_create(p)
  <2>1. PICK i \in Id : CreateRow(i) /\ request' = [request EXCEPT ![p] = OnRow("delay", i)]
    BY <1>6 DEF application_api_PUT_create
  <2>2. i \in Created'
    BY <2>1 DEF CreateRow, Created, TypeOK
  <2>3. OnRow("delay", i) \in Request /\ OnRow("delay", i).id = i
    BY RequestTypes DEF OnRow, IdleRequest
  <2> QED BY <1>1, <1>6, <2>1, <2>2, <2>3 DEF application_api_PUT_create, celery
<1>7. CASE application_api_PUT_integrity_error(p)
  <2>1. CASE request' = [request EXCEPT ![p] = IdleRequest]
    BY <1>1, <1>7, <1>i, <2>1, RequestTypes DEF application_api_PUT_integrity_error, celery
  <2>2. ASSUME NEW i \in Id, ApiVisible(R.host) = {i},
               request' = [request EXCEPT ![p] =
                             [pc |-> "got", host |-> R.host, id |-> i, state |-> state[i],
                              url |-> proxy_url[i], arn |-> arn[i], modify |-> FALSE]]
        PROVE  Refs'
    <3>1. state[i] \in Live /\ i \in Created
      BY <2>2 DEF ApiVisible, Created, Live
    <3> QED BY <1>0, <1>1, <1>2, <1>7, <2>2, <3>1, RowRead
            DEF application_api_PUT_integrity_error, celery
  <2> QED BY <1>2, <1>7, <2>1, <2>2 DEF application_api_PUT_integrity_error, TypeOK
<1>8. CASE application_api_PUT_delay(p)
  BY <1>1, <1>8, <1>i, RequestTypes DEF application_api_PUT_delay
<1>9. ASSUME NEW from, NEW to \in {"deleting", "patching"}, application_api_lookup(p, from, to)
      PROVE  Refs'
  <2>1. CASE request' = [request EXCEPT ![p] = IdleRequest]
    BY <1>1, <1>9, <1>i, <2>1, RequestTypes DEF application_api_lookup, celery
  <2>2. ASSUME NEW i \in Id, ApiVisible(R.host) = {i},
               request' = [request EXCEPT ![p] = OnRow(to, i)]
        PROVE  Refs'
    <3>1. OnRow(to, i) \in Request /\ OnRow(to, i).id = i /\ i \in Created
      BY <1>2, <2>2, RequestTypes, VisibleIsCreated DEF OnRow, IdleRequest
    <3> QED BY <1>0, <1>1, <1>9, <2>2, <3>1 DEF application_api_lookup, celery
  <2> QED BY <1>9, <2>1, <2>2 DEF application_api_lookup
<1>10. CASE application_api_DELETE_save(p)
  BY <1>1, <1>10, <1>i, RequestTypes DEF application_api_DELETE_save, celery
<1>11. CASE handle_application_http_spawning(p)
  BY <1>1, <1>2, <1>11, <1>i, RequestTypes DEF handle_application_http_spawning, celery
<1>12. CASE application_api_PATCH_save(p)
  BY <1>1, <1>12, <1>i, RequestTypes DEF application_api_PATCH_save, celery
<1>13. CASE request_dies(p)
  BY <1>1, <1>13, <1>i, RequestTypes DEF request_dies, celery
<1> QED
  BY <1>3, <1>4, <1>5, <1>6, <1>7, <1>8, <1>9, <1>10, <1>11, <1>12, <1>13
     DEF ProxyNext, application_api_DELETE_lookup, application_api_PATCH_lookup

LEMMA RefsStep == ASSUME TypeOK, Refs, RowStep, [Next]_vars PROVE Refs'
<1>0. Created \subseteq Created'
  BY RowsStay
<1>1. ASSUME NEW s \in Stopper, StopViewNext(s) PROVE Refs'
  <2> USE DEF Refs, TypeOK, StopRequest, IdleStopper, celery, periodic
  <2>1. ASSUME NEW h \in Host, StopViewLookup(s, h) PROVE Refs'
    <3>1. PICK i \in Id : i \in Created /\ stopper' = [stopper EXCEPT ![s] = [pc |-> "enqueue", id |-> i]]
      BY <2>1, VisibleIsCreated DEF StopViewLookup
    <3> QED BY <1>0, <2>1, <3>1 DEF StopViewLookup
  <2>2. CASE StopViewEnqueue(s)
    BY <1>0, <2>2 DEF StopViewEnqueue
  <2>3. CASE StopViewSave(s)
    BY <1>0, <2>3 DEF StopViewSave
  <2>4. CASE stopper_dies(s)
    BY <1>0, <2>4 DEF stopper_dies
  <2> QED BY <1>1, <2>1, <2>2, <2>3, <2>4 DEF StopViewNext
<1> USE DEF Refs, TypeOK, web, celery, periodic
<1>2. CASE KillIdleNext \/ kill_idle_fargate_crashes
  <2>1. CASE kill_idle_fargate_list
    BY <1>0, <2>1 DEF kill_idle_fargate_list, Created, table
  <2>2. CASE kill_idle_fargate_crashes
    BY <1>0, <2>2 DEF kill_idle_fargate_crashes
  <2> QED BY <1>0, <1>2, <2>1, <2>2 DEF KillIdleNext, kill_idle_fargate_enqueue, kill_idle_fargate_save,
             kill_idle_fargate_skip, Live
<1>3. CASE OrphansNext \/ orphaned_tools_monitor_crashes
  <2>1. CASE orphaned_tools_monitor_list
    BY <1>0, <2>1 DEF orphaned_tools_monitor_list, Created, table
  <2>2. CASE orphaned_tools_monitor_crashes
    BY <1>0, <2>2 DEF orphaned_tools_monitor_crashes
  <2> QED BY <1>0, <1>3, <2>1, <2>2 DEF OrphansNext, orphaned_tools_monitor_mark,
             orphaned_tools_monitor_stop_task, orphaned_tools_monitor_skip
<1>4. ASSUME NEW i \in Id, StopNext(i) \/ stop_crashes(i) PROVE Refs'
  BY <1>0, <1>4 DEF StopNext, stop_read, stop_mark, stop_call, stop_crashes
<1>5. ASSUME NEW i \in Id, SpawnNext(i) \/ spawn_crashes(i) PROVE Refs'
  <2>1. CASE spawn_find_ip(i)
    BY <1>0, <2>1 DEF spawn_find_ip, SpawnStep, Created
  <2>2. CASE spawn_stop_conflict(i)
    BY <1>0, <2>2 DEF spawn_stop_conflict, SpawnStep
  <2> QED BY <1>0, <1>5, <2>1, <2>2 DEF SpawnNext, SpawnStep, spawn_start, spawn_pipeline,
             spawn_fails_early, spawn_run_task, spawn_save_arn, spawn_refresh,
             spawn_save_proxy_url, spawn_times_out, spawn_cleanup, spawn_crashes
<1>6. ASSUME NEW i \in Id, TaskExits(i) \/ TaskForgotten(i) \/ TwoHoursPass(i) PROVE Refs'
  BY <1>0, <1>6 DEF TaskExits, TaskForgotten, TwoHoursPass
<1>7. ASSUME NEW h \in Host, OwnerLosesAccess(h) PROVE Refs'
  BY <1>0, <1>7 DEF OwnerLosesAccess
<1>8. ASSUME NEW p \in Proxy, ProxyNext(p) PROVE Refs'
  BY <1>8, RefsProxy
<1>9. CASE UNCHANGED vars
  BY <1>0, <1>9 DEF vars
<1> QED BY <1>1, <1>2, <1>3, <1>4, <1>5, <1>6, <1>7, <1>8, <1>9 DEF Next

\* The invariant is inductive.
LEMMA InvStep == IInv /\ [Next]_vars => IInv'
<1> SUFFICES ASSUME IInv, [Next]_vars PROVE IInv'
  OBVIOUS
<1>1. RowStep
  BY RowSteps DEF IInv
<1>2. TypeOK'
  BY TypeStep DEF IInv
<1>3. Refs'
  BY <1>1, RefsStep DEF IInv
<1>4. Keys' /\ LiveHolds'
  BY <1>1, KeysStep DEF IInv
<1> QED BY <1>2, <1>3, <1>4 DEF IInv

\* Every remembered id is the id of a row, the unique column holds a host at most once,
\* and every live row holds the key of its host unless a PATCH overwrote its state.
THEOREM KeysCorrect == Spec => []IInv
BY InitInv, InvStep, PTL DEF Spec

\* Two rows of one host, both SPAWNING or RUNNING, never exist without a PATCH having
\* brought a stopped row back: for any number of simultaneous PUT, DELETE and PATCH
\* requests, views, periodic tasks and spawners.
THEOREM OneLivePerHostCorrect == Spec => []OneLivePerHost
<1>1. IInv => OneLivePerHost
  BY DEF IInv, TypeOK, Keys, LiveHolds, OneLivePerHost, Live
<1> QED BY <1>1, KeysCorrect, PTL

-----------------------------------------------------------------------------
(* The unique column implements the slots of HostSlot. *)

LEMMA SlotInit == Init => Slot!Init
BY DEF Init, Slot!Init

LEMMA SlotStep ==
    ASSUME IInv, RowStep
    PROVE  [Slot!Next]_<<[h \in Host |-> {i \in Id : integrity[i] = h}],
                         {i \in Id : integrity[i] = i}>>
<1> DEFINE owner == [h \in Host |-> {i \in Id : integrity[i] = h}]
           retired == {i \in Id : integrity[i] = i}
<1> USE DEF IInv, TypeOK, Keys
<1>1. CASE integrity' = integrity
  BY <1>1
<1>2. ASSUME NEW i \in Id, CreateRow(i) PROVE Slot!Claim(HostOf[i], i)
  <2> DEFINE h == HostOf[i]
  <2>1. h \in Host /\ i \notin Host /\ integrity[i] = NoKey /\ NoKey \notin Host \cup Id
    BY <1>2 DEF CreateRow
  <2>2. integrity' = [integrity EXCEPT ![i] = h]
    BY <1>2 DEF CreateRow
  <2>3. owner[h] = {} /\ i \notin retired /\ \A g \in Host : i \notin owner[g]
    BY <1>2, <2>1 DEF CreateRow
  <2>4. owner' = [owner EXCEPT ![h] = {i}]
    <3>1. {j \in Id : integrity'[j] = h} = {i}
      BY <2>1, <2>2, <2>3
    <3>2. \A g \in Host \ {h} :
            {j \in Id : integrity'[j] = g} = {j \in Id : integrity[j] = g}
      BY <2>1, <2>2
    <3>3. \A g \in Host : owner'[g] = IF g = h THEN {i} ELSE owner[g]
      BY <3>1, <3>2
    <3>4. owner = [g \in Host |-> owner[g]] /\ owner' = [g \in Host |-> owner'[g]]
      OBVIOUS
    <3> HIDE DEF owner
    <3> QED BY <2>1, <3>3, <3>4
  <2>5. retired' = retired
    BY <2>1, <2>2
  <2> QED BY <2>3, <2>4, <2>5 DEF Slot!Claim
<1>3. ASSUME NEW i \in Created, set_application_stopped(i)
      PROVE  Slot!Release(HostOf[i], i) \/ integrity' = integrity
  <2> DEFINE h == HostOf[i]
  <2>1. h \in Host /\ i \notin Host /\ i \in Id /\ integrity[i] \in {h, i}
    BY <1>3 DEF Created
  <2>2. integrity' = [integrity EXCEPT ![i] = i]
    BY <1>3 DEF set_application_stopped
  <2>3. CASE integrity[i] = i
    BY <2>1, <2>2, <2>3
  <2>4. CASE integrity[i] = h
    <3>1. owner[h] = {i}
      BY <2>1, <2>4
    <3>2. owner' = [owner EXCEPT ![h] = {}]
      <4>1. {j \in Id : integrity'[j] = h} = {}
        BY <2>1, <2>2, <3>1
      <4>2. \A g \in Host \ {h} :
              {j \in Id : integrity'[j] = g} = {j \in Id : integrity[j] = g}
        BY <2>1, <2>2, <2>4
      <4>3. \A g \in Host : owner'[g] = IF g = h THEN {} ELSE owner[g]
        BY <4>1, <4>2
      <4>4. owner = [g \in Host |-> owner[g]] /\ owner' = [g \in Host |-> owner'[g]]
        OBVIOUS
      <4> HIDE DEF owner
      <4> QED BY <2>1, <4>3, <4>4
    <3>3. retired' = retired \cup {i}
      BY <2>1, <2>2
    <3> QED BY <3>1, <3>2, <3>3 DEF Slot!Release
  <2> QED BY <2>1, <2>3, <2>4
<1>4. ASSUME NEW i \in Created, Resurrects(i) \/ StopsWithoutKey(i) PROVE integrity' = integrity
  BY <1>4 DEF Resurrects, StopsWithoutKey
<1> QED BY <1>1, <1>2, <1>3, <1>4 DEF RowStep, Slot!Next, Created

\* Every step of the table claims the slot of a host, releases it for good, or leaves the
\* slots alone.
THEOREM ImplementsHostSlot == Spec => SlotSpec
<1>1. IInv /\ [Next]_vars =>
        [Slot!Next]_<<[h \in Host |-> {i \in Id : integrity[i] = h}],
                      {i \in Id : integrity[i] = i}>>
  BY SlotStep, RowSteps DEF IInv
<1> QED BY <1>1, SlotInit, KeysCorrect, PTL DEF Spec, SlotSpec, Slot!Spec

-----------------------------------------------------------------------------
(* The life of a row *)

\* Every step of the table creates a row, stops one, makes one RUNNING, or leaves the
\* states alone.
THEOREM ImplementsInstanceLife == Spec => LifeSpec
<1>1. Init => Life!Init
  BY DEF Init, Life!Init
<1>2. IInv /\ [Next]_vars => [Life!Next]_state
  <2> SUFFICES ASSUME IInv, RowStep PROVE Life!Next \/ UNCHANGED state
    BY RowSteps DEF IInv
  <2>1. ASSUME NEW i \in Id, CreateRow(i) PROVE Life!Next
    BY <2>1 DEF CreateRow, Life!Next, Life!Create
  <2>2. ASSUME NEW i \in Created, Resurrects(i) PROVE Life!Next
    BY <2>2 DEF Resurrects, Created, Life!Next, Life!Run
  <2>3. ASSUME NEW i \in Created, set_application_stopped(i) \/ StopsWithoutKey(i)
        PROVE  Life!Next
    BY <2>3 DEF set_application_stopped, StopsWithoutKey, Created, Life!Next, Life!Stop
  <2> QED BY <2>1, <2>2, <2>3 DEF RowStep
<1> QED BY <1>1, <1>2, KeysCorrect, PTL DEF Spec, LifeSpec, Life!Spec

=============================================================================
