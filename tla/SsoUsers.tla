------------------------------ MODULE SsoUsers ------------------------------
(***************************************************************************)
(* The user and the profile of one person of SSO.                          *)
(*                                                                         *)
(*   - Every request of the person finds or creates them, in               *)
(*     create_user_from_sso, and notes the first login.                    *)
(*   - sync_s3_sso_users goes through the files that SSO has exported,     *)
(*     oldest first, does the same for everybody in them, and, if all of   *)
(*     them are full exports, marks inactive those who are in none.        *)
(*   - A task makes the person's role for tools and saves it in the        *)
(*     profile; whoever finds a person with tools and no role starts it.   *)
(*                                                                         *)
(* No transaction is open: an INSERT or UPDATE is a step.  To save a user  *)
(* is to save the whole of the profile too, as it was read.  The name and  *)
(* the email of the person do not change here.                             *)
(***************************************************************************)
EXTENDS Naturals, Sequences

CONSTANTS
    Request,     \* requests of the person that may be running
    Sync,        \* the execution of sync_s3_sso_users
    MaxFiles,    \* bound on the exported files there are at a time
    Failure      \* deaths of a worker that there may be

ASSUME SyncAssumption == Sync \notin Request
ASSUME FilesAssumption == MaxFiles \in Nat

VARIABLES
    sso,        \* the status of the person in SSO
    files,      \* the exports in S3, oldest first
    user,       \* whether there is a row of the person in auth_user
    profile,    \* the row in app_profile
    call,       \* create_user_from_sso: where its callers are
    mem,        \* the profile as they read it
    sync,       \* the execution: how many files it listed and processed, whether
                \* the person was in them
    tools,      \* whether the person may start all tools
    roleTask,   \* whether create_tools_access_iam_role_task is to run
    failed      \* failures that have happened

rows == <<user, profile>>
roleVars == <<tools, roleTask>>
vars == <<sso, files, rows, call, mem, sync, roleVars, failed>>

Caller == Request \cup {Sync}
Status == {"active", "inactive"}
\* the columns that matter: whether there is a row, sso_status, first_login and
\* tools_access_role_arn
ProfileRow == [exists : BOOLEAN, status : Status, loggedIn : BOOLEAN, role : BOOLEAN]
NoRow == [exists |-> FALSE, status |-> "active", loggedIn |-> FALSE, role |-> FALSE]
NewProfile == [NoRow EXCEPT !.exists = TRUE]
File == [full : BOOLEAN, person : Status \cup {"absent"}]
NotRunning == [pc |-> "idle", listed |-> 0, done |-> 0, seen |-> FALSE]

TypeOK ==
    /\ sso \in Status \cup {"unknown"}
    /\ files \in Seq(File) /\ Len(files) <= MaxFiles
    /\ user \in BOOLEAN
    /\ profile \in ProfileRow
    /\ call \in [Caller -> [pc : {"idle", "lookup", "create", "user_made", "profile_made",
                                  "existing", "compare", "compare_new", "returned", "failed"},
                            status : Status]]
    /\ mem \in [Caller -> ProfileRow]
    /\ sync \in [pc : {"idle", "files", "person", "delete"}, listed : 0..MaxFiles,
                 done : 0..MaxFiles, seen : BOOLEAN]
    /\ tools \in BOOLEAN
    /\ roleTask \in BOOLEAN
    /\ failed \in SUBSET Failure

NotCalling == [pc |-> "idle", status |-> "active"]

Init ==
    /\ sso = "unknown"
    /\ files = <<>>
    /\ user = FALSE
    /\ profile = NoRow
    /\ call = [c \in Caller |-> NotCalling]
    /\ mem = [c \in Caller |-> NoRow]
    /\ sync = NotRunning
    /\ tools = FALSE
    /\ roleTask = FALSE
    /\ failed = {}

-----------------------------------------------------------------------------
(* SSO *)

sso_changes(status) ==
    /\ \/ sso = "unknown" /\ status = "active"
       \/ sso = "active" /\ status = "inactive"
    /\ sso' = status
    /\ UNCHANGED <<files, rows, call, mem, sync, roleVars, failed>>

\* the whole of SSO, or only some
sso_exports(full, person) ==
    /\ Len(files) < MaxFiles
    /\ person = (IF sso = "unknown" THEN "absent" ELSE sso) \/ (~full /\ person = "absent")
    /\ files' = Append(files, [full |-> full, person |-> person])
    /\ UNCHANGED <<sso, rows, call, mem, sync, roleVars, failed>>

-----------------------------------------------------------------------------
(* create_user_from_sso: c calls it with the status in call[c] *)

At(c, pc) == [call EXCEPT ![c].pc = pc]

get_user_by_sso_id(c) ==
    /\ call[c].pc = "lookup"
    /\ call' = At(c, IF user THEN "existing" ELSE "create")
    /\ UNCHANGED <<sso, files, rows, mem, sync, roleVars, failed>>

user_created(c) ==
    /\ call[c].pc = "create"
    /\ ~user
    /\ user' = TRUE
    /\ call' = At(c, "user_made")
    /\ UNCHANGED <<sso, files, profile, mem, sync, roleVars, failed>>

\* IntegrityError: the username is unique, and the create is not in the try.  A request
\* fails; the synchronisation logs it and goes on.
user_not_created(c) ==
    /\ call[c].pc = "create"
    /\ user
    /\ call' = At(c, IF c = Sync THEN "returned" ELSE "failed")
    /\ UNCHANGED <<sso, files, rows, mem, sync, roleVars, failed>>

\* save_user_profile, the signal
profile_created(c) ==
    /\ call[c].pc = "user_made"
    /\ profile' = NewProfile
    /\ mem' = [mem EXCEPT ![c] = NewProfile]
    /\ call' = At(c, "profile_made")
    /\ UNCHANGED <<sso, files, user, sync, roleVars, failed>>

\* _check_tools_access
StartsRoleTask(row) == roleTask' = (roleTask \/ (tools /\ ~row.role))

\* user.save(), which saves the profile
profile_saved(c) ==
    /\ call[c].pc = "profile_made"
    /\ LET saved == [mem[c] EXCEPT !.status = call[c].status]
       IN profile' = saved /\ mem' = [mem EXCEPT ![c] = saved] /\ StartsRoleTask(saved)
    /\ call' = At(c, "compare_new")
    /\ UNCHANGED <<sso, files, user, sync, tools, failed>>

\* variant: check_tools_access_if_user_exists is FALSE everywhere
profile_readOnly(c) ==
    /\ call[c].pc = "existing"
    /\ profile.exists
    /\ mem' = [mem EXCEPT ![c] = profile]
    /\ call' = At(c, "compare")
    /\ UNCHANGED <<sso, files, rows, sync, roleVars, failed>>

\* user.profile; the synchronisation checks the role of existing users too
profile_read(c) ==
    /\ call[c].pc = "existing"
    /\ profile.exists
    /\ mem' = [mem EXCEPT ![c] = profile]
    /\ IF c = Sync THEN StartsRoleTask(profile) ELSE UNCHANGED roleTask
    /\ call' = At(c, "compare")
    /\ UNCHANGED <<sso, files, rows, sync, tools, failed>>

\* RelatedObjectDoesNotExist, which nobody catches: a user that is not complete
profile_not_there(c) ==
    /\ call[c].pc = "existing"
    /\ ~profile.exists
    /\ IF c = Sync THEN call' = [call EXCEPT ![c] = NotCalling] /\ sync' = NotRunning
                   ELSE call' = At(c, "failed") /\ UNCHANGED sync
    /\ UNCHANGED <<sso, files, rows, mem, roleVars, failed>>

\* user.save() saves the profile as it was read
SavedIf(c, changed) ==
    IF changed THEN LET saved == [mem[c] EXCEPT !.status = call[c].status]
                    IN profile' = saved /\ mem' = [mem EXCEPT ![c] = saved]
               ELSE UNCHANGED <<profile, mem>>

\* variant: an active user is not made inactive here
status_comparedIfInactive(c) ==
    /\ call[c].pc \in {"compare", "compare_new"}
    /\ SavedIf(c, mem[c].status = "inactive" /\ call[c].status = "active")
    /\ call' = At(c, "returned")
    /\ UNCHANGED <<sso, files, user, sync, roleVars, failed>>

\* saved if anything has changed: a new user has no name yet, and a password
status_compared(c) ==
    /\ call[c].pc \in {"compare", "compare_new"}
    /\ SavedIf(c, mem[c].status # call[c].status \/ call[c].pc = "compare_new")
    /\ call' = At(c, "returned")
    /\ UNCHANGED <<sso, files, user, sync, roleVars, failed>>

-----------------------------------------------------------------------------
(* AuthbrokerBackendUsernameIsEmail.authenticate *)

\* SSO lets the person through
authenticate(r) ==
    /\ call[r].pc \in {"idle", "failed"}
    /\ sso = "active"
    /\ call' = [call EXCEPT ![r] = [pc |-> "lookup", status |-> "active"]]
    /\ UNCHANGED <<sso, files, rows, mem, sync, roleVars, failed>>

\* first_login, and again the whole of the profile
authenticate_returns(r) ==
    /\ call[r].pc = "returned"
    /\ call' = [call EXCEPT ![r] = NotCalling]
    /\ profile' = IF mem[r].loggedIn THEN profile ELSE [mem[r] EXCEPT !.loggedIn = TRUE]
    /\ mem' = [mem EXCEPT ![r] = NoRow]
    /\ UNCHANGED <<sso, files, user, sync, roleVars, failed>>

-----------------------------------------------------------------------------
(* sync_s3_sso_users *)

list_files ==
    /\ sync.pc = "idle"
    /\ files # <<>>
    /\ sync' = [pc |-> "files", listed |-> Len(files), done |-> 0, seen |-> FALSE]
    /\ UNCHANGED <<sso, files, rows, call, mem, roleVars, failed>>

\* the line of the person, in the next file
process_line ==
    /\ sync.pc = "files"
    /\ sync.done < sync.listed
    /\ LET person == files[sync.done + 1].person
       IN IF person = "absent"
          THEN sync' = [sync EXCEPT !.done = @ + 1] /\ UNCHANGED call
          ELSE /\ sync' = [sync EXCEPT !.pc = "person"]
               /\ call' = [call EXCEPT ![Sync] = [pc |-> "lookup", status |-> person]]
    /\ UNCHANGED <<sso, files, rows, mem, roleVars, failed>>

\* variant: who could not be created is not among the seen
line_processedIfExisting ==
    /\ sync.pc = "person"
    /\ call[Sync].pc = "returned"
    /\ sync' = [sync EXCEPT !.pc = "files", !.done = @ + 1, !.seen = @ \/ mem[Sync].exists]
    /\ call' = [call EXCEPT ![Sync] = NotCalling]
    /\ mem' = [mem EXCEPT ![Sync] = NoRow]
    /\ UNCHANGED <<sso, files, rows, roleVars, failed>>

line_processed ==
    /\ sync.pc = "person"
    /\ call[Sync].pc = "returned"
    /\ sync' = [sync EXCEPT !.pc = "files", !.done = @ + 1, !.seen = TRUE]
    /\ call' = [call EXCEPT ![Sync] = NotCalling]
    /\ mem' = [mem EXCEPT ![Sync] = NoRow]
    /\ UNCHANGED <<sso, files, rows, roleVars, failed>>

\* one UPDATE of the profiles that were not seen; there is always somebody who was
mark_unseen ==
    /\ sync.pc = "files"
    /\ sync.done = sync.listed
    /\ LET full == \A n \in 1..sync.listed : files[n].full
       IN profile' = IF full /\ ~sync.seen /\ profile.exists
                     THEN [profile EXCEPT !.status = "inactive"] ELSE profile
    /\ sync' = [sync EXCEPT !.pc = "delete"]
    /\ UNCHANGED <<sso, files, user, call, mem, roleVars, failed>>

delete_objects ==
    /\ sync.pc = "delete"
    /\ files' = SubSeq(files, sync.listed + 1, Len(files))
    /\ sync' = NotRunning
    /\ UNCHANGED <<sso, rows, call, mem, roleVars, failed>>

-----------------------------------------------------------------------------
(* Tools, and failures *)

\* the admin site: UserAdmin.save_model
tools_granted ==
    /\ user /\ profile.exists /\ ~tools
    /\ tools' = TRUE
    /\ roleTask' = (roleTask \/ ~profile.role)
    /\ UNCHANGED <<sso, files, rows, call, mem, sync, failed>>

\* save(update_fields=["tools_access_role_arn"])
create_tools_access_iam_role ==
    /\ roleTask
    /\ roleTask' = FALSE
    /\ profile' = IF profile.exists THEN [profile EXCEPT !.role = TRUE] ELSE profile
    /\ UNCHANGED <<sso, files, user, call, mem, sync, tools, failed>>

worker_dies(f) ==
    /\ f \notin failed
    /\ failed' = failed \cup {f}
    /\ \/ \E r \in Request : /\ call[r].pc \notin {"idle", "failed"}
                             /\ call' = At(r, "failed")
                             /\ mem' = [mem EXCEPT ![r] = NoRow]
                             /\ UNCHANGED <<sync, roleTask>>
       \/ /\ sync.pc # "idle"
          /\ call' = [call EXCEPT ![Sync] = NotCalling]
          /\ mem' = [mem EXCEPT ![Sync] = NoRow]
          /\ sync' = NotRunning
          /\ UNCHANGED roleTask
       \/ roleTask /\ roleTask' = FALSE /\ UNCHANGED <<call, mem, sync>>
    /\ UNCHANGED <<sso, files, rows, tools>>

-----------------------------------------------------------------------------
CallNext(c) ==
    \/ get_user_by_sso_id(c) \/ user_created(c) \/ user_not_created(c) \/ profile_created(c)
    \/ profile_saved(c) \/ profile_read(c) \/ profile_not_there(c) \/ status_compared(c)

RequestNext(r) == CallNext(r) \/ authenticate_returns(r)

SyncNext ==
    \/ CallNext(Sync)
    \/ list_files \/ process_line \/ line_processed \/ mark_unseen \/ delete_objects

Next ==
    \/ \E status \in Status : sso_changes(status)
    \/ \E full \in BOOLEAN, person \in Status \cup {"absent"} : sso_exports(full, person)
    \/ \E r \in Request : authenticate(r) \/ RequestNext(r)
    \/ SyncNext
    \/ tools_granted \/ create_tools_access_iam_role
    \/ \E f \in Failure : worker_dies(f)

Spec == Init /\ [][Next]_vars

FullExport == \E person \in Status \cup {"absent"} : sso_exports(TRUE, person)

\* Requests that have begun and the tasks go on, and SSO exports everybody again and again.
\* Nobody has to log in.
Fairness ==
    /\ \A r \in Request : WF_vars(RequestNext(r))
    /\ WF_vars(SyncNext)
    /\ WF_vars(create_tools_access_iam_role)
    /\ SF_vars(FullExport)

FairSpec == Spec /\ Fairness

-----------------------------------------------------------------------------
(* Properties *)

\* a user without a profile that nobody is about to make
LeftIncomplete == user /\ ~profile.exists /\ \A c \in Caller : call[c].pc # "user_made"

\* The profile comes to say what SSO says and stays so, whatever requests, old exports and
\* the synchronisation have read and save, unless a worker died between the user and the
\* profile: with such a user every later synchronisation fails.
ProfileFollowsSso ==
    \A status \in Status :
        <>[](sso = status) => <>[](profile.exists => profile.status = status) \/ <>LeftIncomplete

\* An active profile becomes inactive only if SSO was not active for the person when one
\* of the listed files was exported.
InactiveForAReason ==
    [][(profile.exists /\ profile.status = "active" /\ profile'.status = "inactive") =>
           \E n \in 1..sync.listed : files[n].person # "active"]_vars

\* A person with tools who is in SSO has a role in the profile in the end, though a profile
\* that is saved as it was read may have overwritten it.
RoleIsRemembered ==
    <>[](tools /\ sso = "active") => <>[](profile.role) \/ <>LeftIncomplete

\* "A concurrent request may have overtaken this one and created a user" (the comment): a
\* request does not fail for that.
ConcurrentRequestsAreServed == \A r \in Request : call[r].pc = "failed" => failed # {}

=============================================================================
