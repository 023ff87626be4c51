----------------------------- MODULE ToolsPolicy -----------------------------
(***************************************************************************)
(* The policy of the role with which the tools of one user reach S3: it    *)
(* names the prefixes of the teams that the user is a member of.           *)
(*                                                                         *)
(*   - The admin site saves memberships in a transaction; the signal of    *)
(*     each enqueues create_tools_access_iam_role_task, at once.           *)
(*   - The task, under the lock of the user, reads the teams and puts the  *)
(*     policy; it is tried again, three times, if the lock is another's.   *)
(*   - Whoever starts a tool or asks for AWS credentials does the same     *)
(*     without the lock, as long as no role is saved for the user.         *)
(***************************************************************************)
EXTENDS Naturals, FiniteSets

CONSTANTS
    Team,
    Change,       \* changes of a membership, each with its task
    Maker,        \* spawns and requests for credentials
    MaxRetries,   \* 3: the default of Celery
    Failure       \* deaths of a worker that there may be

VARIABLES
    memberships,  \* the teams of the user, as committed
    admin,        \* the transaction of the admin site: whether it is open, its teams
    task,         \* create_tools_access_iam_role_task, for each change
    retries,
    maker,        \* create_tools_access_iam_role, without the lock
    teamsRead,    \* get_user_s3_prefixes, by who puts the policy
    lock,         \* who holds the lock
    role,         \* tools_access_role_arn: whether it is saved
    policy,       \* the teams in the policy
    early,        \* history: tasks that read while their change was not committed
    overtaken,    \* history: whether a task put the policy while a maker had read the teams
    failed

taskVars == <<task, retries>>
vars == <<memberships, admin, taskVars, maker, teamsRead, lock, role, policy, early, overtaken,
          failed>>

Putter == Change \cup Maker

TypeOK ==
    /\ memberships \in SUBSET Team
    /\ admin \in [open : BOOLEAN, teams : SUBSET Team, changes : SUBSET Change]
    /\ task \in [Change -> {"none", "queued", "locked", "read", "put", "done", "given up"}]
    /\ retries \in [Change -> 0..MaxRetries]
    /\ maker \in [Maker -> {"none", "read", "put", "done"}]
    /\ teamsRead \in [Putter -> SUBSET Team]
    /\ lock \in SUBSET Change
    /\ role \in BOOLEAN
    /\ policy \in SUBSET Team
    /\ early \in SUBSET Change
    /\ overtaken \in BOOLEAN
    /\ failed \in SUBSET Failure

NotOpen == [open |-> FALSE, teams |-> {}, changes |-> {}]

Init ==
    /\ memberships = {}
    /\ admin = NotOpen
    /\ task = [c \in Change |-> "none"]
    /\ retries = [c \in Change |-> 0]
    /\ maker = [m \in Maker |-> "none"]
    /\ teamsRead = [p \in Putter |-> {}]
    /\ lock = {}
    /\ role = FALSE
    /\ policy = {}
    /\ early = {}
    /\ overtaken = FALSE
    /\ failed = {}

-----------------------------------------------------------------------------
(* The admin site *)

Toggled(teams, t) == IF t \in teams THEN teams \ {t} ELSE teams \cup {t}

\* a membership is saved or deleted: team_membership_post_save and _post_delete
membership_changes(c, t) ==
    /\ task[c] = "none"
    /\ admin' = [open |-> TRUE,
                 teams |-> Toggled(IF admin.open THEN admin.teams ELSE memberships, t),
                 changes |-> admin.changes \cup {c}]
    /\ task' = [task EXCEPT ![c] = "queued"]
    /\ UNCHANGED <<memberships, retries, maker, teamsRead, lock, role, policy, early, overtaken,
                   failed>>

memberships_commit ==
    /\ admin.open
    /\ memberships' = admin.teams
    /\ admin' = NotOpen
    /\ UNCHANGED <<taskVars, maker, teamsRead, lock, role, policy, early, overtaken, failed>>

memberships_roll_back ==
    /\ admin.open
    /\ admin' = NotOpen
    /\ UNCHANGED <<memberships, taskVars, maker, teamsRead, lock, role, policy, early, overtaken,
                   failed>>

-----------------------------------------------------------------------------
(* create_tools_access_iam_role_task(user_id, force=True) *)

Retried(c) ==
    IF retries[c] < MaxRetries
    THEN /\ retries' = [retries EXCEPT ![c] = @ + 1]
         /\ task' = [task EXCEPT ![c] = "queued"]
    ELSE /\ task' = [task EXCEPT ![c] = "given up"]
         /\ UNCHANGED retries

task_locks(c) ==
    /\ task[c] = "queued"
    /\ lock = {}
    /\ lock' = {c}
    /\ task' = [task EXCEPT ![c] = "locked"]
    /\ UNCHANGED <<memberships, admin, retries, maker, teamsRead, role, policy, early, overtaken,
                   failed>>

\* LockError: autoretry_for
task_does_not_lock(c) ==
    /\ task[c] = "queued"
    /\ lock # {}
    /\ Retried(c)
    /\ UNCHANGED <<memberships, admin, maker, teamsRead, lock, role, policy, early, overtaken,
                   failed>>

\* timeout=360
lock_expires ==
    /\ lock # {}
    /\ lock' = {}
    /\ UNCHANGED <<memberships, admin, taskVars, maker, teamsRead, role, policy, early, overtaken,
                   failed>>

\* the role is created, or is there; then get_user_s3_prefixes
task_reads(c) ==
    /\ task[c] = "locked"
    /\ task' = [task EXCEPT ![c] = "read"]
    /\ teamsRead' = [teamsRead EXCEPT ![c] = memberships]
    /\ early' = IF c \in admin.changes THEN early \cup {c} ELSE early
    /\ UNCHANGED <<memberships, admin, retries, maker, lock, role, policy, overtaken, failed>>

\* put_role_policy
task_puts(c) ==
    /\ task[c] = "read"
    /\ task' = [task EXCEPT ![c] = "put"]
    /\ policy' = teamsRead[c]
    /\ overtaken' = (overtaken \/ \E m \in Maker : maker[m] = "read")
    /\ UNCHANGED <<memberships, admin, retries, maker, teamsRead, lock, role, early, failed>>

\* variant: LockError is caught, as in other tasks
task_endsWhoeverLocks(c) ==
    /\ task[c] = "put"
    /\ role' = TRUE
    /\ lock' = lock \ {c}
    /\ task' = [task EXCEPT ![c] = "done"]
    /\ UNCHANGED <<memberships, admin, retries, maker, teamsRead, policy, early, overtaken, failed>>

\* tools_access_role_arn, and the lock: LockNotOwnedError is a LockError too
task_ends(c) ==
    /\ task[c] = "put"
    /\ role' = TRUE
    /\ lock' = lock \ {c}
    /\ IF c \in lock THEN task' = [task EXCEPT ![c] = "done"] /\ UNCHANGED retries
                     ELSE Retried(c)
    /\ UNCHANGED <<memberships, admin, maker, teamsRead, policy, early, overtaken, failed>>

\* an error of AWS, or the death of the worker, which leaves the lock
task_dies(c, f) ==
    /\ task[c] \in {"queued", "locked", "read", "put"}
    /\ f \notin failed
    /\ failed' = failed \cup {f}
    /\ task' = [task EXCEPT ![c] = "given up"]
    /\ lock' \in {lock, lock \ {c}}
    /\ UNCHANGED <<memberships, admin, retries, maker, teamsRead, role, policy, early, overtaken>>

-----------------------------------------------------------------------------
(* create_tools_access_iam_role(user_id, ...), by spawn and aws_credentials_api_GET *)

maker_reads(m) ==
    /\ maker[m] = "none"
    /\ ~role
    /\ maker' = [maker EXCEPT ![m] = "read"]
    /\ teamsRead' = [teamsRead EXCEPT ![m] = memberships]
    /\ UNCHANGED <<memberships, admin, taskVars, lock, role, policy, early, overtaken, failed>>

maker_puts(m) ==
    /\ maker[m] = "read"
    /\ maker' = [maker EXCEPT ![m] = "put"]
    /\ policy' = teamsRead[m]
    /\ UNCHANGED <<memberships, admin, taskVars, teamsRead, lock, role, early, overtaken, failed>>

maker_ends(m) ==
    /\ maker[m] = "put"
    /\ maker' = [maker EXCEPT ![m] = "done"]
    /\ role' = TRUE
    /\ UNCHANGED <<memberships, admin, taskVars, teamsRead, lock, policy, early, overtaken, failed>>

-----------------------------------------------------------------------------
TaskNext(c) ==
    task_locks(c) \/ task_does_not_lock(c) \/ task_reads(c) \/ task_puts(c) \/ task_ends(c)

MakerNext(m) == maker_reads(m) \/ maker_puts(m) \/ maker_ends(m)

Next ==
    \/ \E c \in Change, t \in Team : membership_changes(c, t)
    \/ memberships_commit \/ memberships_roll_back
    \/ \E c \in Change : TaskNext(c) \/ \E f \in Failure : task_dies(c, f)
    \/ lock_expires
    \/ \E m \in Maker : MakerNext(m)

Spec == Init /\ [][Next]_vars

-----------------------------------------------------------------------------
(* Properties *)

Quiet ==
    /\ ~admin.open
    /\ \A c \in Change : task[c] \in {"none", "done", "given up"}
    /\ \A m \in Maker : maker[m] # "read"

\* "When a team member is added to a team, update their tools access to include the team s3
\* prefix" (the docstring of team_membership_post_save): when all is done, the policy has
\* the teams of the user, unless a task was given up.
PolicyFollowsTeams ==
    Quiet /\ (\A c \in Change : task[c] # "given up") => policy = memberships

\* The same, for changes that are committed before their tasks read them, and where nobody
\* made the user's role at the same time: however tasks wait for each other, are tried
\* again, or lose the lock to one that reads before they put and puts after.
PolicyFollowsCommittedTeams ==
    Quiet /\ (\A c \in Change : task[c] # "given up") /\ early = {} /\ ~overtaken =>
        policy = memberships

=============================================================================
