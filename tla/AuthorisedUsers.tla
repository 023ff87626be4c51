--------------------------- MODULE AuthorisedUsers ---------------------------
(***************************************************************************)
(* The users who are authorised for datasets, as their editors manage them *)
(* on the "Manage access" pages.                                           *)
(*                                                                         *)
(*   - To open the page of a dataset is to copy the users who have access, *)
(*     and the dataset's owner and manager, to a PendingAuthorizedUsers    *)
(*     row.  The URL of a page names a dataset and a row; the row does not *)
(*     say of which dataset it is.                                         *)
(*   - To save is to give access to all users of a row and to take it from *)
(*     all others.  Nothing is a transaction: the permissions are read,    *)
(*     created one by one, deleted one by one, and then the credentials    *)
(*     that are cached for the users who were changed are removed.         *)
(*   - To grant what a user has requested is to do both in one request; to *)
(*     decline it leads to the page of the editor's newest row.            *)
(*                                                                         *)
(* An editor may have any number of pages open, and saves one at a time.   *)
(***************************************************************************)
EXTENDS Naturals, Sequences, FiniteSets

CONSTANTS
    Dataset, User,
    Editor,        \* managers, owners, editors and superusers
    Owners,        \* the information asset owner and manager of each dataset
    Asked,         \* bound on the requests: a pair of a dataset and a user for each
    MaxPending,    \* bound on the rows of PendingAuthorizedUsers
    MaxSaves,      \* bound on the saves that are begun
    MaxCrashes     \* bound on those that are cut short by a crash

VARIABLES
    permissions,   \* DataSetUserPermission
    requested,     \* AccessRequest.data_access_status
    pending,       \* PendingAuthorizedUsers, in the order of their ids
    pages,         \* the pages that editors have been led to
    save,          \* the save that an editor has begun
    stale,         \* users whose cached credentials are from before a change
    named,         \* history: users that an editor added or removed on a page, by row
    since,         \* history: the access that was changed since a row was made
    interrupted,   \* history: users of a save that was cut short
    saves, crashes

rowVars == <<permissions, requested, pending, pages>>
history == <<named, since>>
bounds == <<saves, crashes>>
listsVars == <<rowVars, save, stale, history, interrupted, bounds>>

Access == Dataset \X User
Page == [by : Editor, dataset : Dataset, row : 1..MaxPending]
\* where a request is, what it works on, and what it has still to do
Idle == [pc |-> "idle", dataset |-> {}, row |-> 0, users |-> {}, add |-> {}, delete |-> {},
         changed |-> {}]

ListsTypeOK ==
    /\ permissions \in SUBSET Access
    /\ requested \in [Asked -> {"none", "waiting", "confirmed", "declined"}]
    /\ pending \in Seq([by : Editor, dataset : Dataset, users : SUBSET User])
    /\ Len(pending) <= MaxPending
    /\ pages \subseteq Page
    /\ save \in [Editor -> [pc : {"idle", "begun", "changing"},
                            dataset : SUBSET Dataset, row : 0..MaxPending,
                            users : SUBSET User, add : SUBSET User, delete : SUBSET User,
                            changed : SUBSET User]]
    /\ stale \in SUBSET User
    /\ named \in [1..MaxPending -> SUBSET User]
    /\ since \in [1..MaxPending -> SUBSET Access]
    /\ interrupted \in SUBSET User
    /\ saves \in 0..MaxSaves /\ crashes \in 0..MaxCrashes

ListsInit ==
    /\ permissions = {}
    /\ requested = [a \in Asked |-> "none"]
    /\ pending = <<>>
    /\ pages = {}
    /\ save = [e \in Editor |-> Idle]
    /\ stale = {}
    /\ named = [row \in 1..MaxPending |-> {}]
    /\ since = [row \in 1..MaxPending |-> {}]
    /\ interrupted = {}
    /\ saves = 0 /\ crashes = 0

-----------------------------------------------------------------------------
(* Pages *)

Authorised(d) == {u \in User : <<d, u>> \in permissions}

\* the page of the last row, which a redirect leads to
PageOf(e, d, row) == [by |-> e, dataset |-> d, row |-> row]

\* the request access form: request_access.views
request_access(d, u) ==
    /\ <<d, u>> \in Asked
    /\ requested[<<d, u>>] = "none"
    /\ requested' = [requested EXCEPT ![<<d, u>>] = "waiting"]
    /\ UNCHANGED <<permissions, pending, pages, save, stale, history, interrupted, bounds>>

NewRow(e, d, users) ==
    /\ Len(pending) < MaxPending
    /\ pending' = Append(pending, [by |-> e, dataset |-> d, users |-> users])
    /\ pages' = pages \cup {PageOf(e, d, Len(pending) + 1)}

\* variant: those who have access already are left out
open_permissions_ownersOnly(e, d) ==
    /\ save[e].pc = "idle"
    /\ NewRow(e, d, Owners[d])
    /\ UNCHANGED <<permissions, requested, save, stale, history, interrupted, bounds>>

\* DatasetEditPermissionsView
open_permissions(e, d) ==
    /\ save[e].pc = "idle"
    /\ NewRow(e, d, Authorised(d) \cup Owners[d])
    /\ UNCHANGED <<permissions, requested, save, stale, history, interrupted, bounds>>

\* DatasetAddAuthorisedUsersView, and the link that adds one user
add_users(e, page, users) ==
    /\ save[e].pc = "idle"
    /\ users # {} /\ users \cap pending[page.row].users = {}
    /\ pending' = [pending EXCEPT ![page.row].users = @ \cup users]
    /\ named' = [named EXCEPT ![page.row] = @ \cup users]
    /\ UNCHANGED <<permissions, requested, pages, save, stale, since, interrupted, bounds>>

BeginSave(e, d, row, users) ==
    /\ saves < MaxSaves
    /\ saves' = saves + 1
    /\ save' = [save EXCEPT ![e] = [Idle EXCEPT !.pc = "begun", !.dataset = {d}, !.row = row,
                                                !.users = users]]

\* DatasetEditPermissionsSummaryView.post
save_page(e, page) ==
    /\ save[e].pc = "idle"
    /\ BeginSave(e, page.dataset, page.row, pending[page.row].users)
    /\ UNCHANGED <<rowVars, stale, history, interrupted, crashes>>

\* DatasetAddAuthorisedUserView.post: the row itself is left as it was
add_user_and_save(e, page, u) ==
    /\ save[e].pc = "idle"
    /\ BeginSave(e, page.dataset, page.row, pending[page.row].users \cup {u})
    /\ named' = [named EXCEPT ![page.row] = @ \cup {u}]
    /\ UNCHANGED <<rowVars, stale, since, interrupted, crashes>>

\* DatasetRemoveAuthorisedUserView: the row is saved, and then the rest of it
remove_user_and_save(e, page, u) ==
    /\ save[e].pc = "idle"
    /\ pending' = [pending EXCEPT ![page.row].users = @ \ {u}]
    /\ BeginSave(e, page.dataset, page.row, pending[page.row].users \ {u})
    /\ named' = [named EXCEPT ![page.row] = @ \cup {u}]
    /\ UNCHANGED <<permissions, requested, pages, stale, since, interrupted, crashes>>

Reviewed(u, status) ==
    requested' = [a \in Asked |-> IF a[2] = u /\ requested[a] # "none" THEN status ELSE requested[a]]

\* DataSetReviewAccess, to grant: a row of its own, and all requests of the user
grant(e, d, u) ==
    /\ save[e].pc = "idle"
    /\ <<d, u>> \in Asked /\ requested[<<d, u>>] # "none"
    /\ NewRow(e, d, Authorised(d) \cup {u})
    /\ Reviewed(u, "confirmed")
    /\ BeginSave(e, d, Len(pending) + 1, Authorised(d) \cup {u})
    /\ named' = [named EXCEPT ![Len(pending) + 1] = {u}]
    /\ UNCHANGED <<permissions, stale, since, interrupted, crashes>>

\* the editor's newest row, if there is one
NewestRow(e) ==
    {row \in 1..Len(pending) :
        /\ pending[row].by = e
        /\ \A other \in 1..Len(pending) : pending[other].by = e => other <= row}

\* to decline: the page is of this dataset, the row the editor's newest
decline(e, d, u) ==
    /\ save[e].pc = "idle"
    /\ <<d, u>> \in Asked /\ requested[<<d, u>>] # "none"
    /\ Reviewed(u, "declined")
    /\ pages' = pages \cup {PageOf(e, d, row) : row \in NewestRow(e)}
    /\ UNCHANGED <<permissions, pending, save, stale, history, interrupted, bounds>>

-----------------------------------------------------------------------------
(* process_dataset_authorized_users_change *)

\* variant: the users who lose access are not among the changed
reads_current_additionsOnly(e, d) ==
    /\ save[e].pc = "begun"
    /\ save[e].dataset = {d}
    /\ save' = [save EXCEPT ![e].pc = "changing", ![e].users = {},
                            ![e].add = save[e].users \ Authorised(d),
                            ![e].delete = Authorised(d) \ save[e].users,
                            ![e].changed = save[e].users \ Authorised(d)]
    /\ UNCHANGED <<rowVars, stale, history, interrupted, bounds>>

reads_current(e, d) ==
    /\ save[e].pc = "begun"
    /\ save[e].dataset = {d}
    /\ LET add == save[e].users \ Authorised(d)
           delete == Authorised(d) \ save[e].users
       IN save' = [save EXCEPT ![e].pc = "changing", ![e].users = {}, ![e].add = add,
                               ![e].delete = delete, ![e].changed = add \cup delete]
    /\ UNCHANGED <<rowVars, stale, history, interrupted, bounds>>

\* history: the rows that there are do not know of the change
Noted(a) == since' = [row \in 1..MaxPending |-> IF row \in 1..Len(pending)
                                                THEN since[row] \cup {a} ELSE since[row]]

\* Nobody else has created it: the pair is unique.
creates_permission(e, d, u) ==
    /\ save[e].pc = "changing"
    /\ save[e].dataset = {d} /\ u \in save[e].add
    /\ <<d, u>> \notin permissions
    /\ permissions' = permissions \cup {<<d, u>>}
    /\ stale' = stale \cup {u}
    /\ save' = [save EXCEPT ![e].add = @ \ {u}]
    /\ Noted(<<d, u>>)
    /\ UNCHANGED <<requested, pending, pages, named, interrupted, bounds>>

EndEarly(e) ==
    /\ save' = [save EXCEPT ![e] = Idle]
    /\ interrupted' = interrupted \cup save[e].changed

\* IntegrityError, which nobody catches
create_refused(e, d, u) ==
    /\ save[e].pc = "changing"
    /\ save[e].dataset = {d} /\ u \in save[e].add
    /\ <<d, u>> \in permissions
    /\ EndEarly(e)
    /\ UNCHANGED <<rowVars, stale, history, bounds>>

deletes_permission(e, d, u) ==
    /\ save[e].pc = "changing"
    /\ save[e].dataset = {d} /\ save[e].add = {} /\ u \in save[e].delete
    /\ permissions' = permissions \ {<<d, u>>}
    /\ stale' = IF <<d, u>> \in permissions THEN stale \cup {u} ELSE stale
    /\ save' = [save EXCEPT ![e].delete = @ \ {u}]
    /\ Noted(<<d, u>>)
    /\ UNCHANGED <<requested, pending, pages, named, interrupted, bounds>>

AllAreChanged(e) == save[e].pc = "changing" /\ save[e].add = {} /\ save[e].delete = {}

\* remove_data_explorer_user_cached_credentials and Superset's, for each who was changed
remove_cached_credentials(e, u) ==
    /\ AllAreChanged(e)
    /\ u \in save[e].changed
    /\ stale' = stale \ {u}
    /\ save' = [save EXCEPT ![e].changed = @ \ {u}]
    /\ UNCHANGED <<rowVars, history, interrupted, bounds>>

\* Where the redirect leads: a page of the same row, except after a post to add a user,
\* which opens the permissions again.
save_ends(e) ==
    /\ AllAreChanged(e)
    /\ save[e].changed = {}
    /\ save' = [save EXCEPT ![e] = Idle]
    /\ UNCHANGED <<rowVars, stale, history, interrupted, bounds>>

\* the death of the web worker, or the database or Redis unreachable
save_dies(e) ==
    /\ save[e].pc # "idle"
    /\ crashes < MaxCrashes
    /\ crashes' = crashes + 1
    /\ EndEarly(e)
    /\ UNCHANGED <<rowVars, stale, history, saves>>

-----------------------------------------------------------------------------
PageNext(e) ==
    \/ \E d \in Dataset : open_permissions(e, d)
    \/ \E page \in pages : /\ page.by = e
                           /\ \/ save_page(e, page)
                              \/ \E users \in SUBSET User : add_users(e, page, users)
                              \/ \E u \in User : \/ add_user_and_save(e, page, u)
                                                 \/ remove_user_and_save(e, page, u)
    \/ \E d \in Dataset, u \in User : grant(e, d, u) \/ decline(e, d, u)

SaveNext(e) ==
    \/ \E d \in Dataset : \/ reads_current(e, d)
                          \/ \E u \in User : \/ creates_permission(e, d, u)
                                             \/ create_refused(e, d, u)
                                             \/ deletes_permission(e, d, u)
    \/ \E u \in User : remove_cached_credentials(e, u)
    \/ save_ends(e) \/ save_dies(e)

ListsNext ==
    \/ \E d \in Dataset, u \in User : request_access(d, u)
    \/ \E e \in Editor : PageNext(e) \/ SaveNext(e)

ListsSpec == ListsInit /\ [][ListsNext]_listsVars

-----------------------------------------------------------------------------
(* Properties *)

\* A save changes the access of the users whom its editor named on the page, and of nobody
\* else who had it, or had it not, when the page was opened, but for the dataset's owner and
\* manager: whatever other editors do meanwhile, it undoes their changes at most.  The rows
\* that a declined request took to the page of another dataset are the exception.
Meant(e, d, u) ==
    LET row == save[e].row
    IN \/ u \in named[row] \cup Owners[d]
       \/ <<d, u>> \in since[row]
       \/ pending[row].dataset # d

ChangesAreMeant ==
    [][\A d \in Dataset, u \in User :
           ((<<d, u>> \in permissions) # (<<d, u>> \in permissions')) =>
               \E e \in Editor : save[e].dataset = {d} /\ Meant(e, d, u)]_listsVars

\* The cached credentials of a user whose access has changed are removed, or somebody is
\* about to, unless the save was cut short: to save the same again finds nothing changed.
ChangesReachTheCaches ==
    stale \subseteq interrupted \cup UNION {save[e].changed : e \in Editor}

=============================================================================
