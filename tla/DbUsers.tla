------------------------------ MODULE DbUsers -------------------------------
(***************************************************************************)
(* The temporary Postgres users of application instances:                  *)
(*                                                                         *)
(*   - spawn makes a user in each datasets database                        *)
(*     (new_private_database_credentials), then notes in                   *)
(*     ApplicationInstanceDbUsers which instance uses it;                  *)
(*   - delete_unused_datasets_users lists the users of a database, waits   *)
(*     15 seconds "in case they were just created", and drops, in one      *)
(*     transaction, those that no SPAWNING or RUNNING instance uses.       *)
(*                                                                         *)
(* The user of an instance has the id of the instance for a name: a new    *)
(* random suffix for each spawn.  The instances themselves are those of    *)
(* InstanceLife, which AppInstances implements.                            *)
(***************************************************************************)
EXTENDS Naturals, FiniteSets

CONSTANTS
    Id,            \* application instances, and the user names made for them
    Database,      \* settings.DATABASES_DATA
    Cleaner,       \* runs of delete_unused_datasets_users there may be at a time: the
                   \* lock that keeps a second one out is given up after half an hour
    ExplorerGoesOn, \* whether Data Explorer users go on to expire while they own tables;
                    \* they do so a bounded number of times otherwise
    MaxFailures     \* bound on what goes wrong: statements in Postgres that fail, connections
                    \* that are lost, and Data Explorer users if they do not go on

ASSUME SwitchAssumption ==
    ExplorerGoesOn \in BOOLEAN /\ MaxFailures \in Nat

VARIABLES
    state,       \* of the instances
    spawn,       \* where the spawn of an instance is
    made,        \* the databases it has made the user in
    pending,     \* the database in which the user exists but is not set up, if any
    users,       \* pg_user of a database, as committed: the users of instances
    recorded,    \* the rows of ApplicationInstanceDbUsers
    dbUser,      \* DatabaseUser, with or without a deleted_date
    leftover,    \* databases with an expired Data Explorer user that owns a table
    cleaner,     \* the runs of delete_unused_datasets_users
    failures,
    provisional  \* history, which no action reads: <<d, i>> once a run has found the user of i
                 \* in d unused for a reason that could still cease to hold

vars == <<state, spawn, made, pending, users, recorded, dbUser, leftover, cleaner, failures,
          provisional>>
spawnVars == <<spawn, made, pending>>

Life == INSTANCE InstanceLife
Live == {"SPAWNING", "RUNNING"}
InProgress == {"credentials", "record"}

\* db: the database it is in, left: those it has not looked at, found: the users it has
\* still to deal with, dropped: those dropped in the open transaction, aborted: whether a
\* statement in it failed, explorer: whether found has a Data Explorer user too
IdleCleaner == [pc |-> "idle", db |-> {}, left |-> {}, found |-> {}, dropped |-> {},
                aborted |-> FALSE, explorer |-> FALSE]

CleanerRun ==
    {r \in [pc : {"idle", "listed", "checked", "dropping"},
            db : SUBSET Database, left : SUBSET Database, found : SUBSET Id,
            dropped : SUBSET Id, aborted : BOOLEAN, explorer : BOOLEAN] :
       r.pc # "dropping" => r.dropped = {} /\ ~r.aborted}

TypeOK ==
    /\ state \in [Id -> Live \cup {"none", "STOPPED"}]
    /\ spawn \in [Id -> InProgress \cup {"none", "done", "failed"}]
    /\ made \in [Id -> SUBSET Database]
    /\ pending \in [Id -> SUBSET Database]
    /\ users \in [Database -> SUBSET Id]
    /\ recorded \in SUBSET (Database \X Id)
    /\ dbUser \in [Id -> {"none", "active", "deleted"}]
    /\ leftover \in SUBSET Database
    /\ cleaner \in [Cleaner -> CleanerRun]
    /\ failures \in 0..MaxFailures
    /\ provisional \in SUBSET (Database \X Id)

Init ==
    /\ Life!Init
    /\ spawn = [i \in Id |-> "none"]
    /\ made = [i \in Id |-> {}]
    /\ pending = [i \in Id |-> {}]
    /\ users = [d \in Database |-> {}]
    /\ recorded = {}
    /\ dbUser = [i \in Id |-> "none"]
    /\ leftover = {}
    /\ cleaner = [c \in Cleaner |-> IdleCleaner]
    /\ failures = 0
    /\ provisional = {}

-----------------------------------------------------------------------------
(* Instances *)

\* application_api_PUT and spawn.delay
InstanceCreated(i) ==
    /\ Life!Create(i)
    /\ spawn' = [spawn EXCEPT ![i] = "credentials"]
    /\ UNCHANGED <<made, pending, users, recorded, dbUser, leftover, cleaner,
                   failures, provisional>>

InstanceStopped(i) ==
    /\ state[i] \in Live
    /\ Life!Stop(i)
    /\ UNCHANGED <<spawnVars, users, recorded, dbUser, leftover, cleaner, failures, provisional>>

\* by a PATCH, which finds the row by its host: perhaps early in the spawn of the row
InstanceRunning(i) ==
    /\ Life!Run(i)
    /\ UNCHANGED <<spawnVars, users, recorded, dbUser, leftover, cleaner, failures, provisional>>

-----------------------------------------------------------------------------
(* spawn *)

\* GLOBAL_LOCK_ID, which the transaction of a cleaner holds
LockIsFree(d) == ~\E c \in Cleaner : cleaner[c].pc = "dropping" /\ cleaner[c].db = {d}

\* get_new_credentials for a database: sync_roles creates the user and commits ...
sync_roles(i, d) ==
    /\ spawn[i] = "credentials"
    /\ pending[i] = {}
    /\ d \notin made[i]
    /\ LockIsFree(d)
    /\ users' = [users EXCEPT ![d] = @ \cup {i}]
    /\ pending' = [pending EXCEPT ![i] = {d}]
    /\ UNCHANGED <<state, spawn, made, recorded, dbUser, leftover, cleaner, failures, provisional>>

\* ... and a second transaction sets it up, which fails if it has been dropped since
alter_user(i, d) ==
    /\ spawn[i] = "credentials"
    /\ pending[i] = {d}
    /\ LockIsFree(d)
    /\ IF i \in users[d]
       THEN /\ made' = [made EXCEPT ![i] = @ \cup {d}]
            /\ pending' = [pending EXCEPT ![i] = {}]
            /\ UNCHANGED spawn
       ELSE /\ spawn' = [spawn EXCEPT ![i] = "failed"]
            /\ UNCHANGED <<made, pending>>
    /\ UNCHANGED <<state, users, recorded, dbUser, leftover, cleaner, failures, provisional>>

\* DatabaseUser.objects.create, after the last database
DatabaseUser_create(i) ==
    /\ spawn[i] = "credentials"
    /\ made[i] = Database
    /\ spawn' = [spawn EXCEPT ![i] = "record"]
    /\ dbUser' = [dbUser EXCEPT ![i] = "active"]
    /\ UNCHANGED <<state, made, pending, users, recorded, leftover, cleaner, failures, provisional>>

\* ApplicationInstanceDbUsers.objects.create, for each of the credentials
ApplicationInstanceDbUsers_create(i, d) ==
    /\ spawn[i] = "record"
    /\ <<d, i>> \notin recorded
    /\ recorded' = recorded \cup {<<d, i>>}
    /\ UNCHANGED <<state, spawnVars, users, dbUser, leftover, cleaner, failures, provisional>>

spawn_goes_on(i) ==
    /\ spawn[i] = "record"
    /\ \A d \in Database : <<d, i>> \in recorded
    /\ spawn' = [spawn EXCEPT ![i] = "done"]
    /\ UNCHANGED <<state, made, pending, users, recorded, dbUser, leftover, cleaner,
                   failures, provisional>>

\* An exception, or the death of the worker: nothing undoes what is done.
spawn_dies(i) ==
    /\ spawn[i] \in InProgress
    /\ spawn' = [spawn EXCEPT ![i] = "failed"]
    /\ UNCHANGED <<state, made, pending, users, recorded, dbUser, leftover, cleaner,
                   failures, provisional>>

-----------------------------------------------------------------------------
(* delete_unused_datasets_users *)

\* variant: a user is in use once its instance is RUNNING
InUseIfRunning(d) == {i \in Id : <<d, i>> \in recorded /\ state[i] = "RUNNING"}
InUse(d) == {i \in Id : <<d, i>> \in recorded /\ state[i] \in Live}

\* those that nothing says are in use: their spawn is not done noting them, or their
\* instance is stopped, and a PATCH may yet save RUNNING in its row
MayYetBeUsed(d) ==
    {i \in Id : \/ spawn[i] \in InProgress /\ <<d, i>> \notin recorded
                \/ state[i] = "STOPPED"}

\* a run that has listed the users us of database d
Listed(c, d, us) ==
    [pc |-> "listed", db |-> {d}, found |-> us, dropped |-> {}, aborted |-> FALSE,
     left |-> (IF cleaner[c].left = {} THEN Database ELSE cleaner[c].left) \ {d},
     explorer |-> d \in leftover]

\* variant: only users noted for an instance are listed
cleaner_listsRecorded(c, d) ==
    /\ cleaner[c].pc = "idle"
    /\ cleaner[c].left = {} \/ d \in cleaner[c].left
    /\ cleaner' = [cleaner EXCEPT ![c] = Listed(c, d, {i \in users[d] : <<d, i>> \in recorded})]
    /\ UNCHANGED <<state, spawnVars, users, recorded, dbUser, leftover, failures, provisional>>

\* the query of pg_user for the next database
cleaner_lists(c, d) ==
    /\ cleaner[c].pc = "idle"
    /\ cleaner[c].left = {} \/ d \in cleaner[c].left
    /\ cleaner' = [cleaner EXCEPT ![c] = Listed(c, d, users[d])]
    /\ UNCHANGED <<state, spawnVars, users, recorded, dbUser, leftover, failures, provisional>>

\* fifteen seconds later: those that no live instance uses
cleaner_checks(c, d) ==
    /\ cleaner[c].pc = "listed"
    /\ cleaner[c].db = {d}
    /\ provisional' = provisional \cup {<<d, i>> : i \in cleaner[c].found \cap MayYetBeUsed(d)}
    /\ cleaner' = [cleaner EXCEPT ![c].pc = "checked", ![c].found = @ \ InUse(d)]
    /\ UNCHANGED <<state, spawnVars, users, recorded, dbUser, leftover, failures>>

cleaner_begins(c, d) ==
    /\ cleaner[c].pc = "checked"
    /\ cleaner[c].db = {d}
    /\ LockIsFree(d)
    /\ cleaner' = [cleaner EXCEPT ![c].pc = "dropping"]
    /\ UNCHANGED <<state, spawnVars, users, recorded, dbUser, leftover, failures, provisional>>

\* DROP USER, in the open transaction, and the deleted_date, which is saved in the admin
\* database at once
cleaner_drops(c, d, i) ==
    /\ cleaner[c].pc = "dropping"
    /\ cleaner[c].db = {d}
    /\ ~cleaner[c].aborted
    /\ i \in cleaner[c].found \cap users[d]
    /\ cleaner' = [cleaner EXCEPT ![c].found = @ \ {i}, ![c].dropped = @ \cup {i}]
    /\ dbUser' = [dbUser EXCEPT ![i] = IF @ = "active" THEN "deleted" ELSE @]
    /\ UNCHANGED <<state, spawnVars, users, recorded, leftover, failures, provisional>>

\* A statement fails: the user is gone already, or is a Data Explorer user that owns a
\* table, or something else went wrong.  The exception is logged; to Postgres the
\* transaction is aborted.
cleaner_fails(c, d) ==
    /\ cleaner[c].pc = "dropping"
    /\ cleaner[c].db = {d}
    /\ ~cleaner[c].aborted
    /\ \/ /\ \/ cleaner[c].found \ users[d] # {}
             \/ cleaner[c].explorer /\ d \in leftover
          /\ UNCHANGED failures
       \/ /\ cleaner[c].found # {}
          /\ failures < MaxFailures
          /\ failures' = failures + 1
    /\ cleaner' = [cleaner EXCEPT ![c].aborted = TRUE]
    /\ UNCHANGED <<state, spawnVars, users, recorded, dbUser, leftover, provisional>>

\* variant: the next database is begun with what was dropped in the last
cleaner_commitsStale(c, d) ==
    /\ cleaner[c].pc = "dropping"
    /\ cleaner[c].db = {d}
    /\ cleaner[c].aborted \/ cleaner[c].found = {}
    /\ users' = IF cleaner[c].aborted THEN users
                ELSE [users EXCEPT ![d] = @ \ cleaner[c].dropped]
    /\ cleaner' = [cleaner EXCEPT ![c].pc = "idle"]
    /\ UNCHANGED <<state, spawnVars, recorded, dbUser, leftover, failures, provisional>>

\* COMMIT, which for an aborted transaction is a ROLLBACK
cleaner_commits(c, d) ==
    /\ cleaner[c].pc = "dropping"
    /\ cleaner[c].db = {d}
    /\ \/ /\ cleaner[c].aborted
          /\ UNCHANGED users
       \/ /\ ~cleaner[c].aborted
          /\ cleaner[c].found = {}
          /\ ~(cleaner[c].explorer /\ d \in leftover)
          /\ users' = [users EXCEPT ![d] = @ \ cleaner[c].dropped]
    /\ cleaner' = [cleaner EXCEPT ![c] = [IdleCleaner EXCEPT !.left = cleaner[c].left]]
    /\ UNCHANGED <<state, spawnVars, recorded, dbUser, leftover, failures, provisional>>

\* The connection is lost, or the worker dies: the run is over, and the transaction
\* rolled back.
cleaner_dies(c) ==
    /\ cleaner[c].pc # "idle"
    /\ failures < MaxFailures
    /\ failures' = failures + 1
    /\ cleaner' = [cleaner EXCEPT ![c] = IdleCleaner]
    /\ UNCHANGED <<state, spawnVars, users, recorded, dbUser, leftover, provisional>>

-----------------------------------------------------------------------------
(* Data Explorer *)

\* The user of the last 24 hours expires before the tables of its queries are dropped.
explorer_user_expires(d) ==
    /\ \/ ExplorerGoesOn /\ UNCHANGED failures
       \/ ~ExplorerGoesOn /\ failures < MaxFailures /\ failures' = failures + 1
    /\ leftover' = leftover \cup {d}
    /\ UNCHANGED <<state, spawnVars, users, recorded, dbUser, cleaner, provisional>>

cleanup_temporary_query_tables ==
    /\ leftover # {}
    /\ leftover' = {}
    /\ UNCHANGED <<state, spawnVars, users, recorded, dbUser, cleaner, failures, provisional>>

-----------------------------------------------------------------------------
SpawnNext(i) ==
    \/ \E d \in Database : \/ sync_roles(i, d)
                           \/ alter_user(i, d)
                           \/ ApplicationInstanceDbUsers_create(i, d)
    \/ DatabaseUser_create(i)
    \/ spawn_goes_on(i)

CleanerNext(c) ==
    \E d \in Database : \/ cleaner_lists(c, d) \/ cleaner_checks(c, d) \/ cleaner_begins(c, d)
                        \/ \E i \in Id : cleaner_drops(c, d, i)
                        \/ cleaner_fails(c, d) \/ cleaner_commits(c, d)

Next ==
    \/ \E i \in Id : \/ InstanceCreated(i) \/ InstanceStopped(i) \/ InstanceRunning(i)
                     \/ SpawnNext(i) \/ spawn_dies(i)
    \/ \E c \in Cleaner : CleanerNext(c) \/ cleaner_dies(c)
    \/ \E d \in Database : explorer_user_expires(d)
    \/ cleanup_temporary_query_tables

Spec == Init /\ [][Next]_vars

\* A spawn goes on unless it dies; the periodic tasks are run again and again.
Fairness ==
    /\ \A i \in Id : WF_vars(SpawnNext(i))
    /\ \A c \in Cleaner : WF_vars(CleanerNext(c))
    /\ WF_vars(cleanup_temporary_query_tables)

FairSpec == Spec /\ Fairness

-----------------------------------------------------------------------------
(* Properties *)

\* What the comment in FargateSpawner.spawn says the users are stored for: those used by
\* running or spawning instances are not deleted when the users are cleaned up.
UsersInUseAreKept ==
    \A d \in Database, i \in Id :
        <<d, i>> \in recorded /\ state[i] \in Live => i \in users[d]

\* It is true but for two races, which _do_delete_unused_datasets_users loses by deciding
\* before it waits for the lock, and once.  A live instance has lost a user only if a
\* cleanup found that user while the spawn had yet to note it, in spite of the wait "in
\* case they were just created", or found the instance stopped, before a PATCH that had
\* read it live brought it back.
LiveInstancesKeepTheirUsers ==
    \A d \in Database, i \in Id :
        <<d, i>> \in recorded /\ state[i] \in Live /\ <<d, i>> \notin provisional
            => i \in users[d]

\* the user of a stopped instance, or of a spawn that never got to note it
Unused(d, i) == i \in users[d] /\ spawn[i] \notin InProgress /\ i \notin InUse(d)

\* What the comment in _do_delete_unused_datasets_users says is wanted: an unused user is
\* deleted, unless its instance is live again.
UnusedUsersAreDropped ==
    \A d \in Database, i \in Id : Unused(d, i) ~> ~Unused(d, i)

=============================================================================
