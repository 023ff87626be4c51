# Data Workspace: specifications and proofs

Data Workspace gives the staff of a government department a catalogue of datasets, tools
(JupyterLab, RStudio, VS Code, Superset, ...) that run as containers of their own, and
Data Explorer, in which they run SQL. This directory holds TLA+ models of the parts of it
where requests, background tasks, databases, caches and AWS meet, the configurations that
model-check them, and proofs of what matters most about them for instances of any size.

Paths below are relative to `dataworkspace/dataworkspace/apps/` unless they begin with a
dot or name `proxy.py`, which is `dataworkspace/proxy.py`.

Contents: [the system](#the-system) · [modules](#modules) · [runs](#runs) ·
[what was found](#what-the-runs-found) · [fairness](#fairness) · [proofs](#proofs) ·
[not modelled](#what-is-not-modelled) · [plan](#plan)

## The system

| Part | State it keeps | Operations | Talks to |
|---|---|---|---|
| **Proxy** (`proxy.py`, `./dataworkspace/proxy_session.py`, aiohttp) | a session in Redis, a cached SSO profile; per request only local variables | log in, find or create the application instance of a host, forward HTTP and websockets | Django's `/api/v1/application/...`, Redis, SSO, the instances |
| **Application instances** (`api_v1/views.py`, `applications/models.py`) | `app_applicationinstance`: state, a unique key, the address, the id of the ECS task | GET, PUT, PATCH, DELETE of one host; the tools page; release of a visualisation | celery (`spawn.delay`, `stop.delay`) |
| **Spawner** (`applications/spawner.py`) | the same row, one ECS task per instance | `spawn`, `stop`, `state` | ECS, GitLab, the credentials below |
| **Periodic tasks** (`applications/utils.py`) | nothing between runs, a lock in Redis during one | `kill_idle_fargate`, `orphaned_tools_monitor`, `delete_unused_datasets_users`, synchronisations | the row, ECS, Postgres, Prometheus |
| **Database users** (`core/utils.py`, `applications/utils.py`) | `pg_user` of each datasets database, `ApplicationInstanceDbUsers`, `DatabaseUser` | make credentials, note who uses them, drop what nobody uses | the spawner, Data Explorer, Superset |
| **Data Explorer queries** (`explorer/tasks.py`, `explorer/views.py`) | `QueryLog`, a table with the results, a thread per query | submit, execute, cancel, complete | the datasets database |
| **Data Explorer credentials** (`explorer/utils.py`, `datasets/permissions/utils.py`) | a cache with a version number, a lock per user, the grants of the user's permanent role | get credentials; invalidate for all, remove for one | Redis, the datasets database |
| **Permissions** (`datasets/views.py`, `datasets/admin.py`, `accounts/admin.py`) | lists of authorised users, access types, email domains | edit, add, remove | the caches |
| **Streaming downloads** (`core/utils.py`) | a queue of size one between a greenlet and a generator | produce, consume, fail | the datasets database, the browser |
| **Users** (`applications/utils.py`, `accounts/`) | `User`, `Profile.sso_status` | create at first request, synchronise with the export of SSO | S3, every request |
| **Notifications** (`datasets/utils.py`) | `Notification`, `UserNotification.email_id` | create from the changelog, send | GOV.UK Notify |
| **Tool query logs** (`applications/utils.py`) | `ToolQueryAuditLog`, the end of the last window in the cache | read a window of the audit log, store it | RDS, `DatabaseUser` |
| **Tools' roles** (`core/utils.py`, `core/admin.py`) | the policy of an IAM role, `Profile.tools_access_role_arn`, `TeamMembership`, a lock per user | make the role, put the policy, change a team | IAM, celery, the spawner |
| **Reference datasets** (`datasets/models.py`, `dw_admin/views.py`) | rows that describe a dataset and its fields, a table made from them, a copy of it in another database, a model class in each server | add and delete fields; save, delete and upload records; set the external database | the admin and the external database |

How they interact. Nothing but rows, cache keys and celery messages connects the parts,
and few handlers open a transaction around what they read and what they write. A request
for a tool goes through the proxy, which asks Django for the row of the host and puts,
patches or deletes it; PUT enqueues `spawn`, which makes database users, notes them, runs
an ECS task and writes its address into the row; the proxy, polling, forwards the request
once the address is there and PATCHes the row to RUNNING when the tool answers. Meanwhile
views and periodic tasks stop instances, and another periodic task drops the database
users that no instance uses. Data Explorer has processes of its own of the same kind.

What is hard, and what makes each part correct:

* **Application instances.** Two requests race for one host; every handler reads a row
  and saves it later; a celery worker or a web worker may die between any two steps; a
  list read an hour ago decides what is stopped now; ECS reuses addresses. Correct means:
  one live row per host, a row does not stay SPAWNING, a stopped instance leaves no task
  behind, and an instance whose task has gone is noticed.
* **Database users.** Somebody decides what to drop from what was true a while ago, in two
  databases that share no transaction. Correct means: no user of a live instance is
  dropped, and every user nobody needs is dropped in the end.
* **Queries.** A task, its thread and a user write one row. Correct means: COMPLETE has
  results, a cancellation is not overwritten and reaches the statement, no run waits for
  ever for its thread.
* **Credentials.** What is cached was computed from what somebody read before a change.
  Correct means: a finished change of access is in the user's role whenever cached
  credentials are served.
* **Downloads.** A greenlet and a generator share a queue of one item, either may fail or
  go, and the client with it. Correct means: what ends well is whole, and nobody waits for
  ever, least of all with a transaction open.
* **Users.** Requests, a synchronisation and a task save whole profiles that they read
  earlier. Correct means: the profile comes to say what SSO says, nobody active is marked
  inactive without a reason, and the role of a person with tools is not lost.
* **Notifications.** Executions overlap once a lock of an hour is lost, and one may die
  between an email and the save of its id. Correct means: one email each, and everybody
  gets it.
* **Tool query logs.** Windows of a log that is written late, remembered in a cache that
  forgets. Correct means: windows meet, and what they cover is stored.
* **Lists of users.** Pages are saved as whole lists, long after they were opened.
  Correct means: a save changes those its editor meant, and the caches follow.
* **Tools' roles.** Tasks run before the transaction that started them is committed, and
  lose their lock. Correct means: in the end the policy has the teams of the user.
* **Reference datasets.** Tables in two databases are altered from rows, and a model class
  is kept in every server under a number that a request counts. Correct means: model,
  columns, rows and copy agree.
* **Logins.** The tabs of a browser share one cookie. Correct means: each gets to its page.

`hazards` in `PROJECT.json` lists what matters most of this, with the line where each bites
and the properties about it.

## Modules

| Module | Models | Extends or instantiates |
|---|---|---|
| `AppInstances` | application instances, proxy, spawner, periodic tasks | `HostSlot`, `InstanceLife` as `PROPERTY` |
| `HostSlot` | abstract: what the unique column promises | |
| `InstanceLife` | abstract: what a reader of the table may count on | |
| `DbUsers` | temporary database users and their cleanup | `InstanceLife` as its environment |
| `QueryRuns` | a query of Data Explorer | |
| `ExplorerCredentials` | the cached credentials of a user | |
| `StreamingQuery` | a download | |
| `Notifications` | emails about changes of a source of data | |
| `SsoUsers` | the user and the profile of a person of SSO | |
| `ToolQueryLogs` | the audit log of tools | |
| `AuthorisedUsers` | the lists of the users of datasets | |
| `ToolsPolicy` | the policy of the role of a user's tools | |
| `ReferenceDatasets` | a reference dataset, its tables and its model classes | |
| `SsoLogin` | a browser that logs in | |
| `MCAppInstances` | constants and symmetry for TLC | `AppInstances` |
| `MCDbUsers` | three small instances of `DbUsers` in one run | `DbUsers` |
| `MCTasks` | `QueryRuns`, `Notifications`, `StreamingQuery`, `SsoLogin` side by side | those |
| `MCRecords` | `SsoUsers`, `ToolQueryLogs` side by side | those |
| `MCAccess` | `ExplorerCredentials`, `AuthorisedUsers`, `ToolsPolicy`, `ReferenceDatasets` side by side | those |
| `TasksProofs`, `RecordsProofs`, `AccessProofs` | theorems about `MCTasks`, `MCRecords`, `MCAccess` and about parts of theirs | the `MC` module they are named after, `TLAPS` |
| the other `...Proofs` | theorems | the module they are named after, `TLAPS` |

The last three `MC` modules check several components in one run. The components in it share
no state, so a behaviour begins with the choice of a `part`, and only the variables of that
part ever change: the states of the run are the sum of those of its parts, not their product,
and each property says of every behaviour what it says of its own part.

`InstanceLife` joins two of them: AppInstances is shown to implement it (by TLC and by
proof), and the instances in DbUsers may do whatever it allows, so that what is proved of
DbUsers holds with the real life of the rows. `map` in `PROJECT.json` gives the lines of
the code that each definition stands for.

### AppInstances

A *host* is a public host, an *id* the primary key of a row, and `HostOf` says for which
host an id will be used. `state`, `integrity` (the unique column
`single_running_or_spawning_integrity`), `proxy_url` and `arn` are the columns of a row
that decide anything; `arn` tells *no `task_arn`*, *null* (while a pipeline builds an
image) and *set* apart, as the code does. `old` stands for "created over two hours ago"
and `barred` for an owner who lost the permission to start tools.

* *A request in the proxy* (`handle_application`): GET reads the row, and says what the
  spawner says of its task; then PUT, DELETE or PATCH. Each of these has a step in which
  it reads the row and one in which it saves, because no handler opens a transaction:
  `application_api_PUT_lookup`, `_create`, `_integrity_error`, `_delay`,
  `application_api_DELETE_lookup`, `_save`, `application_api_PATCH_lookup`, `_save`.
  What a request remembers between them is its record in `request`. It may die at any
  step (`request_dies`).
* *spawn* goes through `spawning[i]`: queued, started, (pipeline), ran, saved, polling,
  conflicts, done; each action is one call to ECS or one save. It looks at the state of
  the row once, after it has saved the task (`spawn_refresh`).
* *stop*: one step reads the row, the next calls ECS or marks the row.
* *The views that stop* (`Stopper`): read, `stop.delay`, save. *`kill_idle_fargate`* and
  *`orphaned_tools_monitor`* read their whole list in one step and go through it row by
  row (`idle`, `orphans` hold what they read).
* *ECS* gives a task a free address, may let it exit at any time, and forgets it later.
* `resurrected` is a history variable: rows that a PATCH took from STOPPED to RUNNING.

### DbUsers

A user has the id of its instance for a name (the code draws a random suffix). `users[d]`
is `pg_user` of a database, `recorded` the rows of `ApplicationInstanceDbUsers`, `made`
and `pending` how far the spawn is: a user is committed by one transaction and altered by
the next. A run of `delete_unused_datasets_users` goes through *listed* (the query, before
the wait of 15 seconds), *checked* (which of them no live instance uses), *dropping* (one
transaction, one action per `DROP USER`, which may fail and so abort it). There is no clock,
and nothing keeps a spawn from taking longer than that wait: it makes the users of one database
after another, each under a lock that cleanups hold too, and notes them after the last.
`provisional` is a history variable: the users that a run found unused for a reason that could
still cease to hold (`MayYetBeUsed`: the spawn is not done noting them, or the instance is stopped
and a PATCH may revive it). An expired `_explorer` user may own a table, and then its `DROP
USER` always fails; `ExplorerGoesOn` says whether such users go on to expire for ever.

### QueryRuns

`log` is the state of the row and `rows` whether its count and duration are saved. The task
executes four statements (describe the columns, create the table, insert the results, count
them); `stmt` is how many are done, `table` whether the results are in the open
transaction or committed. The thread polls the row and, once it is CANCELLED, cancels
whatever executes until it is told to stop. `QueryLogUpdateView` reads the row and saves
all of it: `update` is what it has read. `timedOut` is a history variable.

### ExplorerCredentials

One user, one database. What the user may see is the set of the *changes* that are
committed (`saved`), so a role or cached credentials are described by the changes they
reflect. A request goes through the steps of `get_user_explorer_connection_settings`: key,
get, connect, lock, get again, read what the user may see, synchronise the role, set. A
*tool* is anybody else who synchronises the role: a spawn, or Superset. A change
is saved and invalidates in an order that depends on the page. `overlap` and `roleOverlap`
record which changes were going on while something was made.

### StreamingQuery

`q` is the queue of one item. `greenlet` puts a header, the batches, a line with their number
and done, and then, if they are wanted, the metrics; `iterator` is the generator of the
response; `handler` is the callback that puts `exception_raised`, in a greenlet of its own, when
there is room. The client reads when it likes or goes away, a `put` or `get` may time out,
and Postgres ends a `transaction` that is idle for a minute. `received` is what the client has
got, `reported` what the callback for metrics was given.

### Notifications

One table or query. A row of `metadata` is what is different in it from the row before; a
change is the position of its row; a `UserNotification` is a change and a user. An execution
takes the lock in the cache or leaves, notes the newest change and who is told (one
transaction), lists what is not sent, and for each locks the row, sends, and saves the id of
the email (one transaction each, `select_for_update` to `save_email_id`). The lock is lost
after an hour; an execution may die or fail anywhere.

### SsoUsers

One person. `user` and `profile` are the rows; `call[c]` is where a caller of
`create_user_from_sso` is, a request or the synchronisation, and `mem[c]` the profile as it has
read it: every save of the user saves the profile too, through a signal. `files` are the exports
in S3, full or partial, each with what it says of the person. The synchronisation lists them,
takes them in order, marks those in none of them inactive if all were full, and deletes them.
`tools` and `roleTask` stand for the permission to start tools and the task that makes the role.

### ToolQueryLogs

Time goes in ticks of two minutes. A line is named by its statement, is written at the time of
the statement or later, and its user may be dropped meanwhile. An execution chooses a window
that begins where the last one ended, if the cache still knows (`last`), reads the lines, saves
where it ended, and stores a record and then its tables, line by line. `excused`, `gap` and
`halfStored` are history: what the code is known to lose.

### AuthorisedUsers

`permissions`, `pending` and `requested` are the rows of `DataSetUserPermission`,
`PendingAuthorizedUsers` and `AccessRequest`; `pages` are the pages of pending rows that editors
have been led to. A save (`save[e]`) reads the list, creates what is missing, deletes what is too
much and removes cached credentials of who has changed, one row a step and in no transaction;
`stale` are users whose cached credentials are from before. `named` and `since` are history.

### ToolsPolicy

One user. `memberships` are committed teams, `admin` the open transaction of the admin site.
`task[c]` is the task of a change: queued, locked, read, put, done, tried again while somebody
else has the lock, given up. `maker[m]` is a spawn or a request for credentials that finds no role
and makes one, without the lock.

### ReferenceDatasets

One dataset. `row`, `fields`, `columns` and `records` are what the admin database has committed;
`draft` is what the transaction in `rowLock` has changed; `external` is the other database, where
each statement is committed at once. `models[p]` is `apps.all_models` of a server, a model being
its version and fields. `call[r]` is a request, with the row as it read it. A field has a column by
`ColumnOf`: linked fields may share one. A request looks for a model, forgets one of another
version, reads the fields and registers a model in steps of their own, because greenlets of one
server come between. `late`, `swallowed`, `rolledBack`, `staleSave` and `diverged` are history: they
name the cases that the code does not deal with, which the properties except.

### SsoLogin

A response that sends a browser to SSO or back gives it a new session with one value, so a cookie is
represented by that value: the key of the flow of a tab, or a token. `tab[t]` is where a tab
is, the cookie it sent or will be given, and the token in the proxy's hands. A page comes
with the cookie of its request and so may bring an old one back (`page_arrives`). Sessions
expire, the person logs out, SSO fails, a bounded number of times.

## Runs

Deadlock is checked in the runs of AppInstances and DbUsers, where somebody can always go on.
The other parts stop when the bounded number of inputs is used up and everything is done; their
liveness properties say that they do not stop before.

| Run | Bounds | Distinct states | What it shows |
|---|---|---|---|
| `web` | 1 host, 2 rows, 2 requests, 1 address, ECS may fail | 282,000 | Two requests race for one host over the life of a first and a second row: two live rows only after a PATCH revived one (`OneLivePerHost`), the unique column implements `HostSlot`, the rows implement `InstanceLife` |
| `ends` | 1 row, 1 request, 1 view that stops, both periodic tasks, 1 crash | 179,000 | Liveness: `SpawningEnds`, `LostTaskIsNoticed`, `EarlyStopLeavesNoTask`, `StopTaskIsCarriedOut` |
| `patch` | as `web`, ECS answers | violation | `NoDuplicateApplications` |
| `db` | one of: 2 instances, 1 database, 1 cleanup; 1 instance, 2 databases, 1 cleanup; 1 instance, 1 database, 2 overlapping cleanups; 1 failure; Data Explorer's users in the last two | 298,000 | A live instance loses a user only in the two races of `db_used` (`LiveInstancesKeepTheirUsers`); liveness: `UsersAreDropped`, with a batch of two users, with one made in one database and dropped in the other under its spawn, with two cleanups in each other's way |
| `db_used` | 1 instance, 2 databases, 1 cleanup | violation | `UsersInUseAreKept` |
| `db_explorer` | 1 instance, Data Explorer's users | violation | `UnusedUsersAreDropped` |
| `tasks` | a query and 1 death; a download of up to 2 batches; 2 rows of metadata, 1 subscriber, 2 executions, 1 failure; 2 tabs, 1 logout, 1 loss | 64,000 | `CompleteHasResults`, `EndedRunsAreMarked`, `CancelledIsNotCompleted`, `DownloadIsWhole`, `OneEmailEach`; liveness: `CancelReachesTheQuery`, `RunsEnd`, `DownloadGoesOn`, `DownloadLetsGo`, `EveryoneIsTold`, `ChangesAreNoted`, `PageIsServed` |
| `records` | a person, 1 request, 2 exports, 1 death; 1 statement, 2 executions, 3 ticks, 1 death | 391,000 | `InactiveForAReason`, `WindowsLeaveNothing`, `StoredHaveTables`; liveness: `ProfileComesToFollow`, `RoleIsInTheProfile`, `LinesAreStored` |
| `access` | 2 requests, 1 tool, 2 changes (one of each order); 2 datasets, users and editors, 2 pending rows, 2 saves or 1 save and 1 death; 1 team, 2 changes, 1 maker, 1 retry, 1 death; 2 servers, 2 fields with one column, 1 record, 3 requests, 1 failure | 1,803,000 | `ChangesReachTheUser`, `NoWastedCreation`, `ChangesReachTheCaches`, `ChangesAreMeant`, `PolicyFollowsCommittedTeams`, `ModelsAreCurrent`, `FieldsHaveColumns`, `RecordsAreReplicated` |
| `credentials_late` | 1 request, 1 change | violation | `InvalidationReachesTheUser` |
| `first_requests` | 2 requests | violation | `ConcurrentRequestsAreServed` |
| `team_policy` | 1 change | violation | `PolicyFollowsTeams` |

Why the bounds are enough. The hazards of AppInstances need two actors at one host and a
row that succeeds another: two requests and two rows have all of these, and more rows only
repeat the succession (the theorems lift the bound for everything but liveness). The
liveness properties are about one row at a time, so one row is enough, with every
actor that may write it. In DbUsers an aborted batch needs two users, an overlap two
cleanups, and a user made in one database and not yet in the other two databases: each is a
`scope` of MCDbUsers, and the theorem has all of them at once. Queries
share nothing but the bound on crashes, so one is enough. The queue of a download has room for
one item, so two batches fill it and make the greenlet wait. Emails need two executions
that overlap and a change that is followed by another; the changelog of a query is cut after one
row (`QueryLimit`, ten in the code), so that the second is the one that is not seen. Two
requests are needed for the lock of ExplorerCredentials and a third maker for the role; of
the three orders in which a change can be made, the model distinguishes invalidate-then-save
from save-then-remove. The profile is overwritten by whoever read it before somebody else
saved: a request, the synchronisation and the role task are all there; a second request is in
`first_requests`. Windows of the log meet or not at the second of three ticks, with two
executions that overlap. A page that is out of date needs two editors, a decline that leads to
the page of another dataset two datasets. A policy that is put out of order needs two tasks. In
ReferenceDatasets two requests meet in one server or in two, a third finds what they left, and
two fields of one column make both the column that is there already and the one that must stay.
Two tabs overtake each other; a third would do what the second does.

`MaxCrashes`, `MaxFailures` and the sets `Failure`, `Lost` and `Logout` bound what the
environment may do wrong; `MaxRows`, `MaxFiles`, `MaxTime`, `MaxSaves`, `MaxPending`,
`MaxBatches`, `MaxRetries` and `MaxRequests` bound what it may ask for, and `ListsBound` in
MCAccess has a death take the place of a save (AccessProofs has no bound on either). Without the first no
liveness could hold: a system whose every task dies does nothing. Symmetry is used in runs
without liveness properties only, and of sets that no definition distinguishes the members of.

## What the runs found

Six runs show a disagreement between the code and what a comment or a docstring says of it
(`findings` in `PROJECT.json` quotes each).

1. `patch`: `application_api_PATCH` saves RUNNING into a row that may have been stopped
   and replaced since it was read, so that two rows of one host are live and every later
   lookup raises `MultipleObjectsReturned`. The comment says the unique key prevents it: a
   stopped row has given its key up and the PATCH does not take it again.
2. `db_used`: the cleanup of database users asks once which users are noted for live
   instances, and waits for a lock before it drops the others. A spawn that notes a user in
   between is left with an instance whose user is gone, though the comment says that noting it is what
   keeps it. The same befalls a stopped row that a PATCH revives.
3. `db_explorer`: one `DROP USER` that fails aborts the transaction of all the others.
4. `credentials_late`: the edit forms invalidate cached credentials before they save the
   change, so a request in between caches the old access under the new version.
5. `first_requests`: of two first requests of a person the second fails with
   `IntegrityError`, from a create outside of the `try` that expects it.
6. `team_policy`: the task of a membership runs before the membership is committed, and
   puts a policy without it.

Other cases that the code has and nothing it says excludes are the exceptions that properties
name, each by a history variable or a disjunct, so that a reader finds them in the statement:

* a row that spawn stops because its address was given to a new task keeps the unique key;
  a worker that dies between `run_task` and the save leaves a task nobody knows;
* a query that runs into `statement_timeout` is taken for a cancelled one and stays RUNNING;
* the changelog of a query is made of its first ten rows, so an eleventh change is not noted;
* the end of the last window of the log is kept for five minutes: an execution that comes
  later leaves a gap; a record whose execution died has no tables, ever;
* a user whose profile was never made blocks every later synchronisation;
* whoever saves a reference dataset to count a version saves the whole row as it read it, which
  sets back a schema version counted during an upload; a `DatabaseError` of any kind is taken for
  "the column is there already" (`datasets/models.py:2463`); the synchronisation at the end of an
  upload deletes what was saved since it read the records; `external_model_class`
  (`datasets/model_utils.py`) takes a field off a class that other greenlets use, and does not put
  it back when its body raises (this last is not in the model);
* two flows of login, or a flow and the pages of another tab, may overtake each other for ever.

## Fairness

No request has to be made, no task has to exit and no owner has to lose access. Assumed
are, each as weak fairness:

* AppInstances: a spawn or stop task that a worker has goes on (celery workers run what they
  receive; crashes are actions of their own and bounded), the two periodic tasks are
  scheduled again and again (celery beat), two hours pass, and ECS forgets a stopped task
  (it does so after about an hour). Requests and views have no fairness: they may stop for
  ever at any step, which is what makes `SpawningEnds` worth checking.
* DbUsers: spawns and cleanups that have begun go on and cleanups are scheduled again and
  again, and expired tables of Data Explorer are dropped.
* QueryRuns: the worker and the thread go on, and Postgres acts on a cancellation. A
  statement need never end by itself: `CancelReachesTheQuery` does not rely on it.
* StreamingQuery: greenlet, callbacks and generator go on when they can (gevent runs what is
  ready), and Postgres ends a transaction that is idle for too long. The client need not read.
* Notifications: executions go on, and the lock in the cache expires.
* SsoUsers: requests, the synchronisation and the role task go on, and SSO exports everybody
  again and again: as strong fairness, since the bound on the files there are at a time takes
  the export away again and again.
* ToolQueryLogs: executions go on and are begun, and the lock expires.
* SsoLogin: what the tabs wait for comes, and profiles expire; nobody need open a tab.
* ExplorerCredentials, AuthorisedUsers, ToolsPolicy and ReferenceDatasets: none, since they
  have safety properties only.

In `MCTasks` and `MCRecords` each of these is conjoined with the part it belongs to.

## Proofs

Eight modules hold theorems that TLAPS checks to the last leaf, for all values of the constants
that satisfy the assumptions named in the modules (distinct model values, `HostOf` a function
from ids to hosts, natural bounds) or, where a module has none, the antecedents of its theorems,
which are named `...Bounded`. `theorems` in `PROJECT.json` lists them.

| Module | Theorems about |
|---|---|
| `AppInstancesProofs` | AppInstances, and that it implements `HostSlot` and `InstanceLife` |
| `DbUsersProofs` | DbUsers |
| `TasksProofs` | QueryRuns, Notifications, StreamingQuery, SsoLogin, and MCTasks |
| `ToolQueryLogsProofs` | ToolQueryLogs |
| `RecordsProofs` | SsoUsers, and MCRecords |
| `ToolsPolicyProofs` | ToolsPolicy |
| `ReferenceDatasetsProofs` | ReferenceDatasets |
| `AccessProofs` | ExplorerCredentials, AuthorisedUsers, and MCAccess |

Every safety property that a passing run checks is a theorem: each invariant (`UsersTypeOK` of
MCDbUsers says `TypeOK` of each of its small instances), the action
properties `CancelledIsNotCompleted`, `InactiveForAReason` and `ChangesAreMeant`, and the two
refinements.

### What the theorems assume

* Bounds are natural numbers (`MaxRows`, `MaxBatches`, `MaxPending`, `MaxRetries`, `MaxRequests`, ...),
  and in ToolQueryLogs there is a time at all (`MaxTime > 0`). They are bounds of the models, and
  the theorems hold for every value of them.
* Names that the code keeps apart are different: a tab's flow is no token (a session keeps them under
  different keys), a task that a change starts is not a spawn.
* A reference dataset has finitely many fields: what it counts, it counts in a finite set.

Nothing is assumed of how long a step takes: a lock may expire under whoever holds it, and a wait may
be too short.

### The invariants

**AppInstances.** `TypeCorrect`, `OneLivePerHostCorrect`, `ImplementsHostSlot`,
`ImplementsInstanceLife`. The inductive invariant is

    IInv == TypeOK /\ Refs /\ Keys /\ LiveHolds

`LiveHolds` is what is wanted: a SPAWNING row holds the key of its host, and a RUNNING one
does unless a PATCH overwrote its state. By itself it is not inductive. The database
refuses a second row with a key only if `Keys` holds: no two rows have the key of a host,
and a row has its host's key, its own id, or, before it is created, none. And a stop or a
save through a remembered id keeps `Keys` only if `Refs` holds: every id that a request,
a view, a task or a list remembers is that of a row. The proof goes by way of `RowStep`:
each of some fifty actions does one of five things to the rows (create, stop, stop
without the key, run, nothing), and the invariant and both refinements follow from those
five.

**DbUsers.** `TypeCorrect` and `LiveInstancesKeepTheirUsersCorrect`. That live instances keep their
users is false (`db_used`); the theorem says in which two races they lose them, and that there is no
third, however long a spawn takes and however many cleanups overlap. The invariant

    IInv == TypeOK /\ Beginnings /\ Checked /\ Users

must speak of what a cleanup has decided and not yet done, and of users that are not noted yet. A user
is `Expendable` if its spawn is over without having noted it, so that nobody ever will, or if a run
found it unused for a reason that was `provisional`. `Checked` says that all that a run is about to
drop is expendable, and `ExpendableStays` that this stays so whatever the others do; `Removals` says
that a step removes expendable users only. `Users` says that a user that is not provisional is there
from the step that sets it up in its database, while the spawn goes on to the next ones, to the step
that notes it, and ever after.

**QueryRuns.** `RunsTypeCorrect`, `CompleteHasResultsCorrect`, `EndedRunsAreMarkedCorrect`,
`CancelledIsNotCompletedCorrect`. `Runs` relates where the task is to the row, the table
and the thread; `Outcomes` says that a row is COMPLETE only once the task is past its
statements, and that the thread cancels only for a row that is no longer RUNNING.

**StreamingQuery.** `StreamTypeCorrect`, `DownloadIsWholeCorrect`, for a result of any size. The
invariant adds `InOrder` (what the client has is a prefix of the pieces), `NothingIsLost` (what it
has, what is on the queue and what is still to be put are all of them), and what may be on the
queue after done.

**Notifications.** `NotifyTypeCorrect`, `OneEmailEachCorrect`, for any number of overlapping
executions. `RowsAreLocked` says that a row has at most one execution between the lock and the
save, and `SentIsKnown` that what was sent is saved, about to be, or was interrupted.

**SsoLogin.** That it keeps its types (in `PartsTypeCorrect`). The type invariant says that SSO is
asked about tokens only, although tabs, sessions and flows keep theirs in one place; it is inductive
once one adds that a tab whose profile SSO has answered for was sent a token (`TabState`).

**SsoUsers.** `SsoTypeCorrect`, `InactiveForAReasonCorrect`. The invariant follows the reason: files that
are listed are there (`FilesAreListed`), what a caller holds of a line is what the file says
(`LinesAreListed`), whoever was not seen is in no processed file (`UnseenIsAbsent`), and requests
only ever save active (`RequestsSaveActive`).

**ToolQueryLogs.** `InvCorrect`, from which `WindowsLeaveNothing` and `StoredHaveTables` follow.
`WindowsLeaveNothing` is about the end of the last window and not inductive: an execution writes
that end when it is done, and that it may do so was decided when it chose its window and read the
log. `ListsAreWhole` says of each execution under way that every line up to where it has read is
settled (stored, excused or in a gap) or on its list. This holds of each by itself, so that a lock
that expired under one of them makes no difference. `Stages` says where each step finds its
execution, and `LinesAreExecuted` that a line has a time, and that who is dropped is excused.

**ExplorerCredentials.** `CredentialsTypeCorrect`, `ChangesReachTheUserCorrect`,
`NoWastedCreationCorrect`. With `Missing` the saved changes that neither the role has nor
overlapped its synchronisation, `MakersKnow`, `SettersKnow` and `EntriesKnow` follow a change
from the maker that read the access without it, to the key it sets, to the entry in the
cache: at each stage whatever is missing is known to have overlapped. `Keys` says
that keys are of versions there have been, from which an invalidation leaves no current
entry; `LockIsHeld` is what makes `NoWastedCreation` inductive.

**AuthorisedUsers.** `ListsTypeCorrect`, `ChangesReachTheCachesCorrect`, `ChangesAreMeantCorrect`, for
any datasets, users and editors. `SavesAreWhole` says what a save holds at each of its stages; `RowsKnow`
and `SavesKnow` say that whoever is in a pending row, or in what a save will create or delete, against
the permissions as they are, was named by the editor, is an owner, or was changed by somebody since.

**ToolsPolicy.** `InvCorrect`, from which `PolicyFollowsCommittedTeams` follows. The property is about
the end, when all tasks are done, so the invariant says what is still to come. `Settling`: some task
will read the teams again (`WillRead`: it has not read yet, or has lost the lock, and so finds when it
ends that it must be tried again), or the holder of the lock is about to put what is committed.
`PolicySettles` says that the policy has the committed teams or is settling; `MakersSettle` and
`HolderSettles` say the same of what a maker of the role and the holder of the lock are about to put.
A commit leaves a task that will read (`ChangesWait`), and a task that reads under the lock is the only
one that does (`OneHolder`).

**ReferenceDatasets.** `InvCorrect`, from which `ModelsAreCurrent`, `FieldsHaveColumns` and
`RecordsAreReplicated` follow. The three are about what is committed, and are kept because of what a
transaction holds before it commits.

    IInv == /\ Typed /\ Placed /\ DraftFits
            /\ FieldsHaveColumns /\ Versions /\ InLine /\ SavedIsThere

* `Placed` says which step of which operation holds the lock of the row and what it has in hand there.
* `DraftFits` says by how much the fields of the draft and its columns differ at each step: a field
  that is added has no column before its step, one that is deleted has lost it, one whose column
  could not be added has been noted. At the commit nothing is left of the difference.
* `Versions` says that a model has the fields of the row at its version, or those of the draft at the
  next one, and that a draft with other fields is at the next version.
* `InLine` says that the external table agrees with the records unless somebody is about to make it
  agree, and `SavedIsThere` that who synchronises has put all that it has in hand, which is what its
  second step leaves there, unless it was overtaken.

`staleSave`, `rolledBack`, `late`, `swallowed` and `diverged` are the cases in which one of these is lost;
the proofs show that there are no others.

### The compositions

In MCTasks, MCRecords and MCAccess parts stand side by side. `PartsTypeCorrect`, `RecordsAreParts` and
`AccessAreParts` show that no step of one disturbs another, and so carry over what was proved of each. The
modules of ToolQueryLogs, ToolsPolicy and ReferenceDatasets are instances there (their variables have
the names of others'), and so are those of their proofs: `LogProofs`, `PolicyProofs` and `RefProofs`. That
an action of `Refs` and the same one of `RefProofs` are equivalent is proved, by their definitions,
in the lemmas `Same...`. `RecordsTypeCorrect`, `AccessTypeCorrect`, `WindowsLeaveNothingCorrect`,
`StoredHaveTablesCorrect`, `PolicyFollowsCommittedTeamsCorrect`, `ModelsAreCurrentCorrect`,
`FieldsHaveColumnsCorrect` and `RecordsAreReplicatedCorrect` state of the compositions what the runs check.

### What is only model-checked

Every liveness property, since TLAPS has no proof rules for fairness and `ENABLED` that these need:
`SpawningEnds`, `LostTaskIsNoticed`, `EarlyStopLeavesNoTask`, `StopTaskIsCarriedOut`,
`UsersAreDropped`, `CancelReachesTheQuery`, `RunsEnd`, `DownloadGoesOn`, `DownloadLetsGo`,
`EveryoneIsTold`, `ChangesAreNoted`, `PageIsServed`, `ProfileComesToFollow`, `RoleIsInTheProfile` and
`LinesAreStored`. And the properties of the violation runs, which do not hold.

## What is not modelled

Within the modelled parts: which templates and options exist, headers, the content of
task definitions, the local `PROCESS` spawner, wording of pages and logs; what database users
are granted beyond the set of changes they reflect; more than one database per user of
Data Explorer; the five retries of the result view. There are no clocks: a wait
is a step, and whether it is long enough is a constant or left open.

Some steps are coarser than the code's. In AuthorisedUsers the changes of permissions and the rows made
of one save are single steps, and a save that ends with an `IntegrityError` counts as interrupted, the
exception of `ChangesReachTheCaches`. In ToolsPolicy the transactions of several administrators at a
time are one, and a task that is not forced and finds the lock taken is there as a `Maker` only. In SsoUsers
there is one synchronisation at a time: its lock is given up after 1800 seconds
(`applications/utils.py:1163`), after which a second could begin. In ReferenceDatasets the
synchronisation uses the model that its caller obtained, so that a stale model makes it fail where the
code, with no records to read, would not; the code refuses to add a field that is there already, and the model
does it again without effect; and the run gives all fields one column (the theorems are about any).
ToolQueryLogs fetches its log from RDS; the fetching from files of a development environment
(`PGAUDIT_LOG_TYPE` `docker`) is left out.

Of the later modules: what an email says, and sources that are unpublished; names and emails of
persons, and the lookup of a person whose id in SSO has changed; the parsing of log lines; the
visualisations' copy of the pages of AuthorisedUsers, which differs in names; the calls to IAM that
make a role, which are one step; new names and types of fields, and the synchronisation of a
reference dataset through a pipeline; Hawk, basic auth, peer IPs and the cookies of
embedded visualisations. SsoLogin takes all sessions with a token that SSO knows for one.

Other parts, with the reason, are in `components` of `PROJECT.json`. In short: pages and
forms over single rows (catalogue, collections, requests, banners), calls to services whose
state is elsewhere (QuickSight, Airflow, GitLab, AppStream, S3), search, and byte forwarding. Most of
the lines of the repository are of these kinds: forms, templates' contexts, serializers,
migrations, settings and queries, whose state is one row saved once, and of which a model would say
what the code says. The parts where something can go wrong between two steps are those above
and those of the plan.

## Plan

What is left, in order of importance.

1. Proofs of the step lemmas that liveness rests on and that need no fairness: that a step brings a
   run of QueryRuns, a login or a synchronisation nearer to its end, or leaves it where it is.
2. `ArangoUsers` (`arangodb/utils.py`): the cleanup of DbUsers without its lock and its transaction.
3. `Approvals` (`applications/models.py:202-232`): the three approvals of a visualisation and its
   release.
4. Compositions: `AuthorisedUsers` as the changes of `ExplorerCredentials`; `DbUsers` as the
   source of `deleted_date` in `ToolQueryLogs`; `SsoLogin` before the first request of `SsoUsers`.
5. Abstractions: DbUsers as an implementation of a *lease* (in use, unused, dropped); QueryRuns as
   an implementation of a *run* (asked, ended once).
