---------------------------- MODULE AppInstances ----------------------------
(***************************************************************************)
(* The life of an application instance (a tool or a visualisation): the    *)
(* rows of app_applicationinstance and everybody who writes them.          *)
(*                                                                         *)
(*   - the proxy's handle_application and the /api/v1/application handlers *)
(*     it calls (GET, PUT, PATCH, DELETE), each handler's read of the row  *)
(*     and its save apart, because no handler opens a transaction or locks *)
(*     the row;                                                            *)
(*   - the celery tasks spawn and stop, with the ECS task they control;    *)
(*   - the views that stop an instance (the tools page, the release of a   *)
(*     visualisation) and the periodic tasks kill_idle_fargate and         *)
(*     orphaned_tools_monitor, which work from a list read earlier;        *)
(*   - ECS, which gives a task an address and may stop it at any time.     *)
(*                                                                         *)
(* A host is a public_host and an id the primary key of a row; HostOf says *)
(* in advance for which host an id will be used, which loses nothing since *)
(* ids are random and never reused.  An ECS task has the id of the         *)
(* instance it was run for, because a spawn runs at most one.              *)
(***************************************************************************)
EXTENDS Naturals, FiniteSets

CONSTANTS
    Host,        \* public hosts
    Id,          \* ids of application instances
    HostOf,      \* the public_host a row with this id is created for
    Ip,          \* private addresses ECS hands out
    NoIp, NoId, NoHost, NoKey,   \* "not yet" for an address, an id, a host, a key
    Proxy,       \* requests the proxy may be handling at a time
    Stopper,     \* requests that stop an instance (tools page, release)
    Periodic,    \* the periodic tasks that are switched on
    EcsErrors,   \* whether ECS may fail to say how a task is or to stop it for spawn
    MaxCrashes   \* bound on how often the worker of a task dies or a stop is given up

ASSUME HostOfAssumption == HostOf \in [Id -> Host]
ASSUME DistinctAssumption ==
    /\ Host \cap Id = {}
    /\ NoIp \notin Ip /\ NoId \notin Id /\ NoHost \notin Host
    /\ NoKey \notin Host \cup Id
ASSUME SwitchAssumption ==
    /\ Periodic \subseteq {"kill_idle_fargate", "orphaned_tools_monitor"}
    /\ EcsErrors \in BOOLEAN
    /\ MaxCrashes \in Nat

VARIABLES
    \* the table: the fields of a row that decide anything
    state,        \* "none" until the row is created
    integrity,    \* single_running_or_spawning_integrity, a UNIQUE column
    proxy_url,    \* the address in proxy_url
    arn,          \* task_arn in spawner_application_instance_id
    old,          \* rows created over two hours ago
    barred,       \* hosts whose owner may no longer start tools
    \* ECS
    task, ip,
    \* celery
    spawning,     \* where the spawn task of an instance is
    conflicts,    \* instances it found on the address of its own task
    stopQueued, stopping,   \* the stop task of an instance
    idle,         \* kill_idle_fargate: what it read of each row it listed
    orphans,      \* orphaned_tools_monitor: likewise
    crashes,
    \* web
    request,      \* a request in the proxy, and the API call it is waiting for
    stopper,      \* a request in a view that stops an instance
    \* history: rows whose state went from STOPPED back to RUNNING
    resurrected

table == <<state, integrity, proxy_url, arn, old, barred>>
ecs == <<task, ip>>
celery == <<spawning, conflicts, stopQueued, stopping>>
periodic == <<idle, orphans>>
web == <<request, stopper>>
vars == <<table, ecs, celery, periodic, crashes, web, resurrected>>

Live == {"SPAWNING", "RUNNING"}
IdleRequest == [pc |-> "idle", host |-> NoHost, id |-> NoId, state |-> "none",
                url |-> NoIp, arn |-> "unset", modify |-> FALSE]
\* a request that goes on with host h, or with the row i, as all it remembers
OnHost(pc, h) == [IdleRequest EXCEPT !.pc = pc, !.host = h]
\* variant: the row that was read is dropped
OnRowDropped(pc, i) == [IdleRequest EXCEPT !.pc = pc]
OnRow(pc, i) == [IdleRequest EXCEPT !.pc = pc, !.id = i]
IdleStopper == [pc |-> "idle", id |-> NoId]

\* the steps at which a request remembers a row
AtRow == {"got", "delay", "deleting", "patching"}
Request ==
    {r \in [pc : AtRow \cup {"idle", "absent", "create", "delete", "connect", "patch"},
            host : Host \cup {NoHost}, id : Id \cup {NoId}, state : Live \cup {"none"},
            url : Ip \cup {NoIp}, arn : {"unset", "null", "set"}, modify : BOOLEAN] :
       r.pc \in AtRow => r.id \in Id}
StopRequest == [pc : {"idle"}, id : {NoId}] \cup [pc : {"enqueue", "save"}, id : Id]

TypeOK ==
    /\ state \in [Id -> Live \cup {"none", "STOPPED"}]
    /\ integrity \in [Id -> Host \cup Id \cup {NoKey}]
    /\ proxy_url \in [Id -> Ip \cup {NoIp}]
    /\ arn \in [Id -> {"unset", "null", "set"}]
    /\ old \in SUBSET Id
    /\ barred \in SUBSET Host
    /\ task \in [Id -> {"absent", "running", "stopped", "gone"}]
    /\ ip \in [Id -> Ip \cup {NoIp}]
    /\ spawning \in [Id -> {"none", "queued", "started", "pipeline", "ran", "saved",
                            "polling", "conflicts", "failing", "done", "failed", "crashed"}]
    /\ conflicts \in [Id -> SUBSET Id]
    /\ stopQueued \in SUBSET Id
    /\ stopping \in [Id -> {"none", "mark", "call"}]
    /\ idle \in [Id -> Live \cup {"no", "enqueued"}]
    /\ orphans \in [Id -> {"no", "unset", "null", "set"}]
    /\ crashes \in 0..MaxCrashes
    /\ request \in [Proxy -> Request]
    /\ stopper \in [Stopper -> StopRequest]
    /\ resurrected \in SUBSET Id

Init ==
    /\ state = [i \in Id |-> "none"]
    /\ integrity = [i \in Id |-> NoKey]
    /\ proxy_url = [i \in Id |-> NoIp]
    /\ arn = [i \in Id |-> "unset"]
    /\ old = {}
    /\ barred = {}
    /\ task = [i \in Id |-> "absent"]
    /\ ip = [i \in Id |-> NoIp]
    /\ spawning = [i \in Id |-> "none"]
    /\ conflicts = [i \in Id |-> {}]
    /\ stopQueued = {}
    /\ stopping = [i \in Id |-> "none"]
    /\ idle = [i \in Id |-> "no"]
    /\ orphans = [i \in Id |-> "no"]
    /\ crashes = 0
    /\ request = [p \in Proxy |-> IdleRequest]
    /\ stopper = [s \in Stopper |-> IdleStopper]
    /\ resurrected = {}

-----------------------------------------------------------------------------
(* The table *)

\* get_api_visible_application_instance_by_public_host: the rows the lookup matches;
\* objects.get raises unless there is exactly one.
ApiVisible(h) == {i \in Id : HostOf[i] = h /\ state[i] \in Live}

\* set_application_stopped, and the same two assignments made elsewhere: the row was
\* read earlier, and only these two columns are saved.
set_application_stopped(i) ==
    /\ state' = [state EXCEPT ![i] = "STOPPED"]
    /\ integrity' = [integrity EXCEPT ![i] = i]
    /\ UNCHANGED <<proxy_url, arn, old, barred, resurrected>>

\* variant: the column is not unique
CreateRowNotUnique(i) ==
    /\ state[i] = "none"
    /\ state' = [state EXCEPT ![i] = "SPAWNING"]
    /\ integrity' = [integrity EXCEPT ![i] = HostOf[i]]
    /\ UNCHANGED <<proxy_url, arn, old, barred, resurrected>>

\* ApplicationInstance.objects.create, where the unique column allows it
CreateRow(i) ==
    /\ state[i] = "none"
    /\ ~\E j \in Id : integrity[j] = HostOf[i]
    /\ state' = [state EXCEPT ![i] = "SPAWNING"]
    /\ integrity' = [integrity EXCEPT ![i] = HostOf[i]]
    /\ UNCHANGED <<proxy_url, arn, old, barred, resurrected>>

\* created_date__lt=two_hours_ago starts to hold of a row; only the periodic tasks ask
TwoHoursPass(i) ==
    /\ Periodic # {}
    /\ state[i] # "none"
    /\ i \notin old
    /\ old' = old \cup {i}
    /\ UNCHANGED <<state, integrity, proxy_url, arn, barred, ecs, celery, periodic, crashes,
                   web, resurrected>>

\* The host is a tool of a user who loses start_all_applications.
OwnerLosesAccess(h) ==
    /\ "orphaned_tools_monitor" \in Periodic
    /\ h \notin barred
    /\ barred' = barred \cup {h}
    /\ UNCHANGED <<state, integrity, proxy_url, arn, old, ecs, celery, periodic, crashes,
                   web, resurrected>>

-----------------------------------------------------------------------------
(* ECS *)

\* FargateSpawner.state, given the task_arn in the row that was read.  Without a task
\* (or with one ECS does not know yet) it answers RUNNING for some minutes after the
\* creation of the row or the end of the pipeline, and STOPPED later; a failing call
\* answers RUNNING if it was throttled and STOPPED otherwise.
SpawnerStates(i, a) ==
    CASE EcsErrors                           -> {"RUNNING", "STOPPED"}
      [] a = "set" /\ task[i] = "running"    -> {"RUNNING"}
      [] a = "set" /\ task[i] = "stopped"    -> {"STOPPED"}
      [] OTHER                               -> {"RUNNING", "STOPPED"}

FreeIps == {a \in Ip : ~\E j \in Id : task[j] = "running" /\ ip[j] = a}

\* The container exits, or ECS retires the task.
TaskExits(i) ==
    /\ task[i] = "running"
    /\ task' = [task EXCEPT ![i] = "stopped"]
    /\ UNCHANGED <<table, ip, celery, periodic, crashes, web, resurrected>>

\* ECS describes a stopped task for about an hour only.
TaskForgotten(i) ==
    /\ task[i] = "stopped"
    /\ task' = [task EXCEPT ![i] = "gone"]
    /\ UNCHANGED <<table, ip, celery, periodic, crashes, web, resurrected>>

\* _fargate_task_stop, when ECS answers: an unknown task is not an error.
StopTask(i) ==
    /\ task' = [task EXCEPT ![i] = IF @ = "running" THEN "stopped" ELSE @]
    /\ UNCHANGED ip

-----------------------------------------------------------------------------
(* The proxy and the API *)

\* application_api_is_allowed, before every handler: the user of a tool may still start
\* tools.  Anything else it checks does not change here.
application_api_is_allowed(h) == h \notin barred

\* application_api_GET as far as the row: handle_application for a request to host h.
\* modify is FALSE for a request with the no-modify header (the spawning page polls with
\* it).  With several live rows objects.get raises, and the answer is an error page.
application_api_GET(p, h, modify) ==
    /\ request[p].pc = "idle"
    /\ application_api_is_allowed(h)
    /\ \/ \E i \in Id :
            /\ ApiVisible(h) = {i}
            /\ request' = [request EXCEPT ![p] =
                             [pc |-> "got", host |-> h, id |-> i, state |-> state[i],
                              url |-> proxy_url[i], arn |-> arn[i], modify |-> modify]]
       \/ /\ ApiVisible(h) = {}
          /\ modify
          /\ request' = [request EXCEPT ![p] = OnHost("absent", h)]
       \/ /\ ApiVisible(h) = {}
          /\ ~modify
          /\ UNCHANGED request
       \/ /\ Cardinality(ApiVisible(h)) > 1
          /\ UNCHANGED request
    /\ UNCHANGED <<table, ecs, celery, periodic, crashes, stopper, resurrected>>

\* api_application_dict's call of the spawner, and what handle_application does with
\* the answer: DELETE what the spawner says is stopped, show the spawning page as long
\* as there is no address, try to connect while SPAWNING, forward once RUNNING.
handle_application(p) ==
    /\ request[p].pc = "got"
    /\ \E s \in SpawnerStates(request[p].id, request[p].arn) :
         request' = [request EXCEPT ![p] =
           IF s = "STOPPED"
             THEN IF @.modify THEN OnHost("delete", @.host) ELSE IdleRequest
             ELSE IF @.url # NoIp /\ @.state = "SPAWNING"
                    THEN [OnHost("connect", @.host) EXCEPT !.url = request[p].url]
                    ELSE IdleRequest]
    /\ UNCHANGED <<table, ecs, celery, periodic, crashes, stopper, resurrected>>

\* application_api_PUT, the lookup: 409 if there is an instance by now.
application_api_PUT_lookup(p) ==
    /\ request[p].pc = "absent"
    /\ request' = [request EXCEPT ![p] =
                     IF application_api_is_allowed(@.host) /\ ApiVisible(@.host) = {}
                       THEN [@ EXCEPT !.pc = "create"]
                       ELSE IdleRequest]
    /\ UNCHANGED <<table, ecs, celery, periodic, crashes, stopper, resurrected>>

\* application_api_PUT, the insert.
application_api_PUT_create(p) ==
    /\ request[p].pc = "create"
    /\ \E i \in Id :
         /\ HostOf[i] = request[p].host
         /\ CreateRow(i)
         /\ request' = [request EXCEPT ![p] = OnRow("delay", i)]
    /\ UNCHANGED <<ecs, celery, periodic, crashes, stopper>>

\* application_api_PUT, the insert that violates the unique column: the lookup again,
\* which raises DoesNotExist if the holder of the key is not live; otherwise the rest is
\* as after a GET, but nothing is deleted.
application_api_PUT_integrity_error(p) ==
    /\ request[p].pc = "create"
    /\ \E j \in Id : integrity[j] = request[p].host
    /\ \/ \E i \in Id :
            /\ ApiVisible(request[p].host) = {i}
            /\ request' = [request EXCEPT ![p] =
                             [pc |-> "got", host |-> @.host, id |-> i, state |-> state[i],
                              url |-> proxy_url[i], arn |-> arn[i], modify |-> FALSE]]
       \/ /\ ~\E i \in Id : ApiVisible(request[p].host) = {i}
          /\ request' = [request EXCEPT ![p] = IdleRequest]
    /\ UNCHANGED <<table, ecs, celery, periodic, crashes, stopper, resurrected>>

\* application_api_PUT, spawn.delay.  The answer has no address yet: the spawning page.
application_api_PUT_delay(p) ==
    /\ request[p].pc = "delay"
    /\ spawning' = [spawning EXCEPT ![request[p].id] = "queued"]
    /\ request' = [request EXCEPT ![p] = IdleRequest]
    /\ UNCHANGED <<table, ecs, conflicts, stopQueued, stopping, periodic, crashes, stopper,
                   resurrected>>

\* application_api_DELETE and application_api_PATCH find the row by its host, whatever
\* row the proxy was told about.
application_api_lookup(p, from, to) ==
    /\ request[p].pc = from
    /\ \/ \E i \in Id :
            /\ application_api_is_allowed(request[p].host)
            /\ ApiVisible(request[p].host) = {i}
            /\ request' = [request EXCEPT ![p] = OnRow(to, i)]
       \/ /\ \/ ~application_api_is_allowed(request[p].host)
             \/ ~\E i \in Id : ApiVisible(request[p].host) = {i}
          /\ request' = [request EXCEPT ![p] = IdleRequest]
    /\ UNCHANGED <<table, ecs, celery, periodic, crashes, stopper, resurrected>>

application_api_DELETE_lookup(p) == application_api_lookup(p, "delete", "deleting")
application_api_PATCH_lookup(p) == application_api_lookup(p, "patch", "patching")

application_api_DELETE_save(p) ==
    /\ request[p].pc = "deleting"
    /\ set_application_stopped(request[p].id)
    /\ request' = [request EXCEPT ![p] = IdleRequest]
    /\ UNCHANGED <<ecs, celery, periodic, crashes, stopper>>

\* handle_application_http_spawning: whatever listens on the address may answer, and
\* then set_application_running is started.
handle_application_http_spawning(p) ==
    /\ request[p].pc = "connect"
    /\ \/ /\ \E j \in Id : task[j] = "running" /\ ip[j] = request[p].url
          /\ request' = [request EXCEPT ![p] = OnHost("patch", @.host)]
       \/ request' = [request EXCEPT ![p] = IdleRequest]
    /\ UNCHANGED <<table, ecs, celery, periodic, crashes, stopper, resurrected>>

\* variant: the key of the host is written too
application_api_PATCH_saveWithKey(p) ==
    LET i == request[p].id IN
    /\ request[p].pc = "patching"
    /\ ~\E j \in Id \ {i} : integrity[j] = HostOf[i]
    /\ state' = [state EXCEPT ![i] = "RUNNING"]
    /\ integrity' = [integrity EXCEPT ![i] = HostOf[i]]
    /\ request' = [request EXCEPT ![p] = IdleRequest]
    /\ UNCHANGED <<proxy_url, arn, old, barred, ecs, celery, periodic, crashes, stopper,
                   resurrected>>

\* application_api_PATCH, the save of the column "state" of the row read before.
application_api_PATCH_save(p) ==
    LET i == request[p].id IN
    /\ request[p].pc = "patching"
    /\ state' = [state EXCEPT ![i] = "RUNNING"]
    /\ resurrected' = IF state[i] = "STOPPED" THEN resurrected \cup {i} ELSE resurrected
    /\ request' = [request EXCEPT ![p] = IdleRequest]
    /\ UNCHANGED <<integrity, proxy_url, arn, old, barred, ecs, celery, periodic, crashes, stopper>>

\* The web worker that handles the request is killed.
request_dies(p) ==
    /\ request[p].pc # "idle"
    /\ request' = [request EXCEPT ![p] = IdleRequest]
    /\ UNCHANGED <<table, ecs, celery, periodic, crashes, stopper, resurrected>>

-----------------------------------------------------------------------------
(* Stopping an instance *)

\* tools_html_POST and visualisation_branch_html_POST: the lookup
StopViewLookup(s, h) ==
    /\ stopper[s].pc = "idle"
    /\ \E i \in Id :
         /\ ApiVisible(h) = {i}
         /\ stopper' = [stopper EXCEPT ![s] = [pc |-> "enqueue", id |-> i]]
    /\ UNCHANGED <<table, ecs, celery, periodic, crashes, request, resurrected>>

\* stop_spawner_and_application: stop.delay ...
StopViewEnqueue(s) ==
    /\ stopper[s].pc = "enqueue"
    /\ stopQueued' = stopQueued \cup {stopper[s].id}
    /\ stopper' = [stopper EXCEPT ![s].pc = "save"]
    /\ UNCHANGED <<table, ecs, spawning, conflicts, stopping, periodic, crashes, request,
                   resurrected>>

\* ... then set_application_stopped
StopViewSave(s) ==
    /\ stopper[s].pc = "save"
    /\ set_application_stopped(stopper[s].id)
    /\ stopper' = [stopper EXCEPT ![s] = IdleStopper]
    /\ UNCHANGED <<ecs, celery, periodic, crashes, request>>

stopper_dies(s) ==
    /\ stopper[s].pc # "idle"
    /\ stopper' = [stopper EXCEPT ![s] = IdleStopper]
    /\ UNCHANGED <<table, ecs, celery, periodic, crashes, request, resurrected>>

\* variant: only RUNNING rows are listed
kill_idle_fargate_listRunning ==
    /\ "kill_idle_fargate" \in Periodic
    /\ \A i \in Id : idle[i] = "no"
    /\ idle' = [i \in Id |-> IF i \in old /\ state[i] = "RUNNING" /\ proxy_url[i] # NoIp
                             THEN state[i] ELSE "no"]
    /\ UNCHANGED <<table, ecs, celery, orphans, crashes, web, resurrected>>

\* do_kill_idle_fargate: the query.  A RUNNING row without an address has no metrics, and
\* is passed over.
kill_idle_fargate_list ==
    /\ "kill_idle_fargate" \in Periodic
    /\ \A i \in Id : idle[i] = "no"
    /\ idle' = [i \in Id |-> IF /\ i \in old
                                /\ \/ state[i] = "SPAWNING"
                                   \/ state[i] = "RUNNING" /\ proxy_url[i] # NoIp
                             THEN state[i] ELSE "no"]
    /\ UNCHANGED <<table, ecs, celery, orphans, crashes, web, resurrected>>

\* do_kill_idle_fargate: an instance that was SPAWNING, or RUNNING with little CPU use, is
\* stopped: stop.delay ...
kill_idle_fargate_enqueue(i) ==
    /\ idle[i] \in Live
    /\ stopQueued' = stopQueued \cup {i}
    /\ idle' = [idle EXCEPT ![i] = "enqueued"]
    /\ UNCHANGED <<table, ecs, spawning, conflicts, stopping, orphans, crashes, web,
                   resurrected>>

\* ... then set_application_stopped
kill_idle_fargate_save(i) ==
    /\ idle[i] = "enqueued"
    /\ set_application_stopped(i)
    /\ idle' = [idle EXCEPT ![i] = "no"]
    /\ UNCHANGED <<ecs, celery, orphans, crashes, web>>

\* do_kill_idle_fargate: an instance that was RUNNING and is used, or has no metrics
kill_idle_fargate_skip(i) ==
    /\ idle[i] = "RUNNING"
    /\ idle' = [idle EXCEPT ![i] = "no"]
    /\ UNCHANGED <<table, ecs, celery, orphans, crashes, web, resurrected>>

\* _run_orphaned_tools_monitor: the query
orphaned_tools_monitor_list ==
    /\ "orphaned_tools_monitor" \in Periodic
    /\ \A i \in Id : orphans[i] = "no"
    /\ orphans' = [i \in Id |-> IF i \in old /\ state[i] = "RUNNING" THEN arn[i] ELSE "no"]
    /\ UNCHANGED <<table, ecs, celery, idle, crashes, web, resurrected>>

\* variant: only a row without a task
orphaned_tools_monitor_markUnset(i) ==
    /\ orphans[i] \in {"unset", "null"}
    /\ set_application_stopped(i)
    /\ orphans' = [orphans EXCEPT ![i] = "no"]
    /\ UNCHANGED <<ecs, celery, idle, crashes, web>>

\* _run_orphaned_tools_monitor: a row without a task, or whose task ECS does not know
orphaned_tools_monitor_mark(i) ==
    /\ \/ orphans[i] \in {"unset", "null"}
       \/ orphans[i] = "set" /\ HostOf[i] \notin barred
          /\ task[i] \in {"absent", "gone"}
    /\ set_application_stopped(i)
    /\ orphans' = [orphans EXCEPT ![i] = "no"]
    /\ UNCHANGED <<ecs, celery, idle, crashes, web>>

\* _run_orphaned_tools_monitor: the owner may no longer use tools: only the task is
\* stopped; the row waits for the task to be gone
orphaned_tools_monitor_stop_task(i) ==
    /\ orphans[i] = "set"
    /\ HostOf[i] \in barred
    /\ StopTask(i)
    /\ orphans' = [orphans EXCEPT ![i] = "no"]
    /\ UNCHANGED <<table, celery, idle, crashes, web, resurrected>>

\* _run_orphaned_tools_monitor: nothing wrong, or ECS could not be asked
orphaned_tools_monitor_skip(i) ==
    /\ orphans[i] = "set"
    /\ EcsErrors \/ (HostOf[i] \notin barred /\ task[i] \in {"running", "stopped"})
    /\ orphans' = [orphans EXCEPT ![i] = "no"]
    /\ UNCHANGED <<table, ecs, celery, idle, crashes, web, resurrected>>

\* variant: nothing is done for a row that is marked stopped
stop_readUnlessStopped(i) ==
    /\ i \in stopQueued
    /\ stopping[i] = "none"
    /\ stopping' = [stopping EXCEPT ![i] = CASE state[i] = "STOPPED" -> @
                                             [] arn[i] = "unset" -> "mark"
                                             [] arn[i] = "null"  -> @
                                             [] arn[i] = "set"   -> "call"]
    /\ stopQueued' = stopQueued \ {i}
    /\ UNCHANGED <<table, ecs, spawning, conflicts, periodic, crashes, web, resurrected>>

\* FargateSpawner.stop: read the row.  Without the key task_arn the row is marked
\* stopped; a null task_arn makes stop_task fail, and the task is retried (which changes
\* nothing) until it is given up.
stop_read(i) ==
    /\ i \in stopQueued
    /\ stopping[i] = "none"
    /\ \/ /\ arn[i] = "unset"
          /\ stopping' = [stopping EXCEPT ![i] = IF state[i] # "STOPPED" THEN "mark" ELSE @]
       \/ /\ arn[i] = "null"
          /\ UNCHANGED stopping
       \/ /\ arn[i] = "set"
          /\ stopping' = [stopping EXCEPT ![i] = "call"]
    /\ stopQueued' = stopQueued \ {i}
    /\ UNCHANGED <<table, ecs, spawning, conflicts, periodic, crashes, web, resurrected>>

stop_mark(i) ==
    /\ stopping[i] = "mark"
    /\ set_application_stopped(i)
    /\ stopping' = [stopping EXCEPT ![i] = "none"]
    /\ UNCHANGED <<ecs, spawning, conflicts, stopQueued, periodic, crashes, web>>

stop_call(i) ==
    /\ stopping[i] = "call"
    /\ StopTask(i)
    /\ stopping' = [stopping EXCEPT ![i] = "none"]
    /\ UNCHANGED <<table, spawning, conflicts, stopQueued, periodic, crashes, web, resurrected>>

-----------------------------------------------------------------------------
(* FargateSpawner.spawn *)

SpawnStep(i, from, to) ==
    /\ spawning[i] \in from
    /\ spawning' = [spawning EXCEPT ![i] = to]
    /\ UNCHANGED <<stopQueued, stopping, periodic, crashes, web>>

\* the spawn task is received, and makes credentials and the IAM role
spawn_start(i) ==
    /\ SpawnStep(i, {"queued"}, "started")
    /\ UNCHANGED <<table, ecs, conflicts, resurrected>>

\* the image of this commit does not exist: a pipeline is started, and its id saved with
\* a null task_arn
spawn_pipeline(i) ==
    /\ SpawnStep(i, {"started"}, "pipeline")
    /\ arn' = [arn EXCEPT ![i] = "null"]
    /\ UNCHANGED <<state, integrity, proxy_url, old, barred, ecs, conflicts, resurrected>>

\* an exception before the task exists: nothing to stop
spawn_fails_early(i) ==
    /\ SpawnStep(i, {"started", "pipeline"}, "failed")
    /\ UNCHANGED <<table, ecs, conflicts, resurrected>>

spawn_run_task(i) ==
    /\ SpawnStep(i, {"started", "pipeline"}, "ran")
    /\ \E a \in FreeIps : ip' = [ip EXCEPT ![i] = a]
    /\ task' = [task EXCEPT ![i] = "running"]
    /\ UNCHANGED <<table, conflicts, resurrected>>

\* variant: save() of the whole row, as spawn has read it
spawn_save_arnWholeRow(i) ==
    /\ SpawnStep(i, {"ran"}, "saved")
    /\ arn' = [arn EXCEPT ![i] = "set"]
    /\ state' = [state EXCEPT ![i] = "SPAWNING"]
    /\ UNCHANGED <<integrity, proxy_url, old, barred, ecs, conflicts, resurrected>>

spawn_save_arn(i) ==
    /\ SpawnStep(i, {"ran"}, "saved")
    /\ arn' = [arn EXCEPT ![i] = "set"]
    /\ UNCHANGED <<state, integrity, proxy_url, old, barred, ecs, conflicts, resurrected>>

\* variant: the row is not read again
spawn_refreshOmitted(i) ==
    /\ SpawnStep(i, {"saved"}, "polling")
    /\ UNCHANGED <<table, ecs, conflicts, resurrected>>

\* refresh_from_db: the only look at the state of the row
spawn_refresh(i) ==
    /\ SpawnStep(i, {"saved"}, IF state[i] = "STOPPED" THEN "failing" ELSE "polling")
    /\ UNCHANGED <<table, ecs, conflicts, resurrected>>

\* ECS tells the address: which RUNNING rows have the same one?
spawn_find_ip(i) ==
    /\ SpawnStep(i, {"polling"}, "conflicts")
    /\ task[i] # "gone"
    /\ conflicts' = [conflicts EXCEPT
                       ![i] = {j \in Id : state[j] = "RUNNING" /\ proxy_url[j] = ip[i]}]
    /\ UNCHANGED <<table, ecs, resurrected>>

\* "We have two tools on the same IP!": only the column "state" is saved
spawn_stop_conflict(i) ==
    /\ SpawnStep(i, {"conflicts"}, "conflicts")
    /\ \E j \in conflicts[i] :
         /\ conflicts' = [conflicts EXCEPT ![i] = @ \ {j}]
         /\ state' = [state EXCEPT ![j] = "STOPPED"]
    /\ UNCHANGED <<integrity, proxy_url, arn, old, barred, ecs, resurrected>>

spawn_save_proxy_url(i) ==
    /\ SpawnStep(i, {"conflicts"}, "done")
    /\ conflicts[i] = {}
    /\ proxy_url' = [proxy_url EXCEPT ![i] = ip[i]]
    /\ UNCHANGED <<state, integrity, arn, old, barred, ecs, conflicts, resurrected>>

\* no address after 60 polls
spawn_times_out(i) ==
    /\ SpawnStep(i, {"polling"}, "failing")
    /\ UNCHANGED <<table, ecs, conflicts, resurrected>>

\* the except clause: the task is stopped, or ECS keeps failing
spawn_cleanup(i) ==
    /\ SpawnStep(i, {"failing"}, "failed")
    /\ \/ StopTask(i)
       \/ EcsErrors /\ UNCHANGED ecs
    /\ UNCHANGED <<table, conflicts, resurrected>>

\* The worker dies.  The message was acknowledged when the task started, so nothing
\* resumes it.
spawn_crashes(i) ==
    /\ crashes < MaxCrashes
    /\ spawning[i] \notin {"none", "queued", "done", "failed", "crashed"}
    /\ crashes' = crashes + 1
    /\ spawning' = [spawning EXCEPT ![i] = "crashed"]
    /\ conflicts' = [conflicts EXCEPT ![i] = {}]
    /\ UNCHANGED <<table, ecs, stopQueued, stopping, periodic, web, resurrected>>

\* the worker dies, or ECS fails until celery has retried five times and gives up
stop_crashes(i) ==
    /\ crashes < MaxCrashes
    /\ stopping[i] # "none"
    /\ crashes' = crashes + 1
    /\ stopping' = [stopping EXCEPT ![i] = "none"]
    /\ UNCHANGED <<table, ecs, spawning, conflicts, stopQueued, periodic, web, resurrected>>

\* The next run of a periodic task, once the lock of this one has expired, reads its own
\* list.
kill_idle_fargate_crashes ==
    /\ crashes < MaxCrashes
    /\ \E i \in Id : idle[i] # "no"
    /\ crashes' = crashes + 1
    /\ idle' = [i \in Id |-> "no"]
    /\ UNCHANGED <<table, ecs, celery, orphans, web, resurrected>>

orphaned_tools_monitor_crashes ==
    /\ crashes < MaxCrashes
    /\ \E i \in Id : orphans[i] # "no"
    /\ crashes' = crashes + 1
    /\ orphans' = [i \in Id |-> "no"]
    /\ UNCHANGED <<table, ecs, celery, idle, web, resurrected>>

-----------------------------------------------------------------------------
ProxyNext(p) ==
    \/ \E h \in Host, m \in BOOLEAN : application_api_GET(p, h, m)
    \/ handle_application(p)
    \/ application_api_PUT_lookup(p)
    \/ application_api_PUT_create(p)
    \/ application_api_PUT_integrity_error(p)
    \/ application_api_PUT_delay(p)
    \/ application_api_DELETE_lookup(p)
    \/ application_api_DELETE_save(p)
    \/ handle_application_http_spawning(p)
    \/ application_api_PATCH_lookup(p)
    \/ application_api_PATCH_save(p)
    \/ request_dies(p)

StopViewNext(s) ==
    \/ \E h \in Host : StopViewLookup(s, h)
    \/ StopViewEnqueue(s)
    \/ StopViewSave(s)
    \/ stopper_dies(s)

SpawnNext(i) ==
    \/ spawn_start(i) \/ spawn_pipeline(i) \/ spawn_fails_early(i) \/ spawn_run_task(i)
    \/ spawn_save_arn(i) \/ spawn_refresh(i) \/ spawn_find_ip(i) \/ spawn_stop_conflict(i)
    \/ spawn_save_proxy_url(i) \/ spawn_times_out(i) \/ spawn_cleanup(i)

StopNext(i) ==
    stop_read(i) \/ stop_mark(i) \/ stop_call(i)

KillIdleNext ==
    \/ kill_idle_fargate_list
    \/ \E i \in Id : \/ kill_idle_fargate_enqueue(i)
                     \/ kill_idle_fargate_save(i)
                     \/ kill_idle_fargate_skip(i)

OrphansNext ==
    \/ orphaned_tools_monitor_list
    \/ \E i \in Id : \/ orphaned_tools_monitor_mark(i)
                     \/ orphaned_tools_monitor_stop_task(i)
                     \/ orphaned_tools_monitor_skip(i)

Next ==
    \/ \E p \in Proxy : ProxyNext(p)
    \/ \E s \in Stopper : StopViewNext(s)
    \/ \E i \in Id : \/ SpawnNext(i) \/ spawn_crashes(i)
                     \/ StopNext(i) \/ stop_crashes(i)
                     \/ TaskExits(i) \/ TaskForgotten(i)
                     \/ TwoHoursPass(i)
    \/ \E h \in Host : OwnerLosesAccess(h)
    \/ KillIdleNext \/ kill_idle_fargate_crashes
    \/ OrphansNext \/ orphaned_tools_monitor_crashes

Spec == Init /\ [][Next]_vars

\* A celery worker goes on with the tasks it has started, the periodic tasks keep being
\* scheduled, time passes and ECS forgets.  Nobody has to make a request, no task has to
\* exit, and no owner has to lose access.
Fairness ==
    /\ \A i \in Id : /\ WF_vars(SpawnNext(i)) /\ WF_vars(StopNext(i))
                     /\ WF_vars(TwoHoursPass(i)) /\ WF_vars(TaskForgotten(i))
    /\ WF_vars(KillIdleNext) /\ WF_vars(OrphansNext)

FairSpec == Spec /\ Fairness

-----------------------------------------------------------------------------
(* Properties *)

\* Two live rows of one host exist only if a PATCH brought a stopped row back: the unique
\* column keeps PUT, DELETE, the views, the periodic tasks and the spawner from ever
\* having two, in whatever order their reads and saves fall.
OneLivePerHost ==
    \A i, j \in Id :
        /\ i # j /\ HostOf[i] = HostOf[j]
        /\ state[i] \in Live /\ state[j] \in Live
        => i \in resurrected \/ j \in resurrected

\* What the comment in application_api_PUT says of the column: it prevents duplicate
\* spawning or running applications at the same public host.
NoDuplicateApplications ==
    \A i, j \in Id :
        state[i] \in Live /\ state[j] \in Live /\ HostOf[i] = HostOf[j] => i = j

\* A row does not stay SPAWNING, whatever happened to the request that made it, to the
\* worker that spawned it or to its task: kill_idle_fargate gets to it.
SpawningEnds == \A i \in Id : state[i] = "SPAWNING" ~> state[i] # "SPAWNING"

\* A row that is stopped before its spawn has saved the task (by a DELETE, a view or a
\* periodic task) ends without a task: the spawner looks at the row once more and stops
\* what it has started, unless a PATCH brought the row back meanwhile.
StoppedWhileSpawning(i) ==
    state[i] = "STOPPED" /\ spawning[i] \in {"queued", "started", "pipeline", "ran"}
EarlyStopLeavesNoTask ==
    \A i \in Id : StoppedWhileSpawning(i) ~>
        \/ spawning[i] = "failed" /\ task[i] # "running"
        \/ spawning[i] = "crashed"
        \/ i \in resurrected

\* A stop task that reads the row once the ECS task is saved in it stops that task, as long
\* as ECS answers and no worker dies.
StopTaskIsCarriedOut ==
    \A i \in Id : (i \in stopQueued /\ arn[i] = "set") ~> task[i] # "running" \/ crashes > 0

\* A row that is RUNNING although ECS has forgotten its task is marked stopped by
\* orphaned_tools_monitor, if its owner may still use tools.
LostTaskIsNoticed ==
    \A i \in Id : (state[i] = "RUNNING" /\ arn[i] = "set" /\ task[i] = "gone") ~>
                  (state[i] = "STOPPED" \/ HostOf[i] \in barred)

\* The rows of a host share a slot, which one of them has at a time and each at most once
\* (module HostSlot): the unique column implements that.
Slot == INSTANCE HostSlot WITH
            owner <- [h \in Host |-> {i \in Id : integrity[i] = h}],
            retired <- {i \in Id : integrity[i] = i}
SlotSpec == Slot!Spec

\* A row is created SPAWNING, is never deleted, and is not SPAWNING again once something
\* else has been saved in it: what the cleanup of database users counts on (DbUsers).
Life == INSTANCE InstanceLife
LifeSpec == Life!Spec

=============================================================================
