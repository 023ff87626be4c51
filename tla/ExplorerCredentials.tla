------------------------- MODULE ExplorerCredentials -------------------------
(***************************************************************************)
(* The credentials of one user of Data Explorer, cached for almost a day   *)
(* in Redis, and the changes of what the user may see.                     *)
(*                                                                         *)
(*   - A request looks for credentials under a key that has a version in   *)
(*     it, and makes new ones, under the user's lock, if there are none or *)
(*     they do not connect.                                                *)
(*   - Credentials give what the user's permanent database role has been   *)
(*     granted.  Whoever makes credentials for the user, Data Explorer, a  *)
(*     tool or Superset, first reads what the user may see in the admin    *)
(*     database and then synchronises the role with it.                    *)
(*   - A change of a dataset's access type or email domains invalidates    *)
(*     everybody's credentials (the version goes up); a change of this     *)
(*     user's permissions removes this user's.  The admin site and the     *)
(*     edit form do so before the change is committed, the pages that      *)
(*     manage the users of a dataset afterwards.                           *)
(*                                                                         *)
(* What the user may see is the set of the changes that are committed.     *)
(***************************************************************************)
EXTENDS Naturals

CONSTANTS
    Request,      \* requests of Data Explorer that may be running for the user
    Tool,         \* others that may be making credentials for the user
    Change,       \* changes of what the user may see
    Removing,     \* those that remove the user's credentials, not everybody's
    SavedFirst,   \* those that are committed before they do
    NoRequest

ASSUME ChangeAssumption == Removing \subseteq Change /\ SavedFirst \subseteq Removing
ASSUME DistinctAssumption == NoRequest \notin Request /\ Request \cap Tool = {}

VARIABLES
    version,      \* explorer_credentials_version, 0 while it is not set
    cached,       \* the credentials in the cache: their key, and the changes that
                  \* overlapped their making
    lock,         \* who holds the lock of the user
    pc, key,      \* requests and tools
    access,       \* the changes each has seen
    overlap,      \* history: the changes that were going on at any time since
    role,         \* the changes that the grants of the permanent role reflect
    roleOverlap,  \* history: those that overlapped the synchronisation
    saved, invalidated,   \* the steps of the changes
    expired       \* history: whether a request lost its lock to the timeout

requests == <<pc, key, access, overlap>>
grants == <<role, roleOverlap>>
changes == <<saved, invalidated>>
vars == <<version, cached, lock, requests, grants, changes, expired>>

Maker == Request \cup Tool
\* the steps between reading what the user may see and the end
Making == {"sync", "set"}
\* the steps under the lock
Locked == {"locked", "read"} \cup Making
InProgress == (saved \cup invalidated) \ (saved \cap invalidated)

TypeOK ==
    /\ version \in Nat
    /\ cached \subseteq [key : Nat, overlap : SUBSET Change]
    /\ lock \in Request \cup {NoRequest}
    /\ pc \in [Maker -> Locked \cup {"idle", "get", "connect", "lock"}]
    /\ key \in [Maker -> Nat]
    /\ access \in [Maker -> SUBSET Change]
    /\ overlap \in [Maker -> SUBSET Change]
    /\ role \in SUBSET Change
    /\ roleOverlap \in SUBSET Change
    /\ saved \in SUBSET Change
    /\ invalidated \in SUBSET Change
    /\ expired \in BOOLEAN

Init ==
    /\ version = 0
    /\ cached = {}
    /\ lock = NoRequest
    /\ pc = [m \in Maker |-> "idle"]
    /\ key = [m \in Maker |-> 0]
    /\ access = [m \in Maker |-> {}]
    /\ overlap = [m \in Maker |-> {}]
    /\ role = {}
    /\ roleOverlap = {}
    /\ saved = {}
    /\ invalidated = {}
    /\ expired = FALSE

-----------------------------------------------------------------------------
(* get_user_explorer_connection_settings *)

\* the version that a key gets: it is set to 1 unless it is set
KeyVersion == IF version = 0 THEN 1 ELSE version
IsCached(k) == \E e \in cached : e.key = k
Without(k) == {e \in cached : e.key # k}

Goes(m, from, to) ==
    /\ pc[m] = from
    /\ pc' = [pc EXCEPT ![m] = to]

\* m is over, and what it has remembered with it
Ends(m, from) ==
    /\ Goes(m, from, "idle")
    /\ key' = [key EXCEPT ![m] = 0]
    /\ access' = [access EXCEPT ![m] = {}]
    /\ overlap' = [overlap EXCEPT ![m] = {}]

Release(r) == lock' = IF lock = r THEN NoRequest ELSE lock

\* get_user_cached_credentials_key
request_start(r) ==
    /\ Goes(r, "idle", "get")
    /\ version' = KeyVersion
    /\ key' = [key EXCEPT ![r] = KeyVersion]
    /\ UNCHANGED <<cached, lock, access, overlap, grants, changes, expired>>

request_get(r) ==
    /\ Goes(r, "get", IF IsCached(key[r]) THEN "connect" ELSE "lock")
    /\ UNCHANGED <<version, cached, lock, key, access, overlap, grants, changes, expired>>

\* returned if they connect
request_connects(r) ==
    /\ Ends(r, "connect")
    /\ UNCHANGED <<version, cached, lock, grants, changes, expired>>

request_cannot_connect(r) ==
    /\ Goes(r, "connect", "lock")
    /\ UNCHANGED <<version, cached, lock, key, access, overlap, grants, changes, expired>>

request_locks(r) ==
    /\ Goes(r, "lock", "locked")
    /\ lock = NoRequest
    /\ lock' = r
    /\ UNCHANGED <<version, cached, key, access, overlap, grants, changes, expired>>

\* blocking_timeout: an exception
request_gives_up(r) ==
    /\ Ends(r, "lock")
    /\ lock # NoRequest
    /\ UNCHANGED <<version, cached, lock, grants, changes, expired>>

\* another request has made credentials: returned, without an attempt to connect
request_rereads_hit(r) ==
    /\ IsCached(key[r])
    /\ Ends(r, "locked")
    /\ Release(r)
    /\ UNCHANGED <<version, cached, grants, changes, expired>>

\* variant: whatever the cache has, credentials are made
request_rereads_ignored(r) ==
    /\ Goes(r, "locked", "read")
    /\ UNCHANGED <<version, cached, lock, key, access, overlap, grants, changes, expired>>

request_rereads_miss(r) ==
    /\ ~IsCached(key[r])
    /\ Goes(r, "locked", "read")
    /\ UNCHANGED <<version, cached, lock, key, access, overlap, grants, changes, expired>>

\* source_tables_for_user and the rest of what the user may see
Reads(m) ==
    /\ access' = [access EXCEPT ![m] = saved]
    /\ overlap' = [overlap EXCEPT ![m] = InProgress]

\* sync_roles of the permanent role: grants what is missing, revokes the rest
Syncs(m) ==
    /\ role' = access[m]
    /\ roleOverlap' = overlap[m]

request_reads(r) ==
    /\ Goes(r, "read", "sync")
    /\ Reads(r)
    /\ UNCHANGED <<version, cached, lock, key, grants, changes, expired>>

request_syncs(r) ==
    /\ Goes(r, "sync", "set")
    /\ Syncs(r)
    /\ UNCHANGED <<version, cached, lock, key, access, overlap, changes, expired>>

request_fails(r) ==
    /\ \E from \in {"read", "sync", "set"} : Ends(r, from)
    /\ Release(r)
    /\ UNCHANGED <<version, cached, grants, changes, expired>>

\* the key is the one computed at the start
request_sets(r) ==
    /\ Ends(r, "set")
    /\ cached' = Without(key[r]) \cup {[key |-> key[r], overlap |-> overlap[r]]}
    /\ Release(r)
    /\ UNCHANGED <<version, grants, changes, expired>>

\* the death of the web or celery worker: the lock is left to its timeout
request_dies(r) ==
    /\ pc[r] # "idle"
    /\ Ends(r, pc[r])
    /\ UNCHANGED <<version, cached, lock, grants, changes, expired>>

\* the lock's timeout, whatever its holder is doing
lock_expires ==
    /\ lock # NoRequest
    /\ lock' = NoRequest
    /\ expired' = (expired \/ pc[lock] \in Locked)
    /\ UNCHANGED <<version, cached, requests, grants, changes>>

\* 23 hours and 45 minutes
credentials_expire ==
    /\ \E e \in cached : cached' = cached \ {e}
    /\ UNCHANGED <<version, lock, requests, grants, changes, expired>>

-----------------------------------------------------------------------------
(* new_private_database_credentials for a tool or Superset: no lock, no cache *)

tool_reads(t) ==
    /\ Goes(t, "idle", "sync")
    /\ Reads(t)
    /\ UNCHANGED <<version, cached, lock, key, grants, changes, expired>>

tool_syncs(t) ==
    /\ Ends(t, "sync")
    /\ Syncs(t)
    /\ UNCHANGED <<version, cached, lock, changes, expired>>

-----------------------------------------------------------------------------
(* Changes *)

Overlaps(c) == overlap' = [m \in Maker |-> IF pc[m] \in Making THEN overlap[m] \cup {c}
                                                               ELSE overlap[m]]

change_saves(c) ==
    /\ c \notin saved
    /\ c \in SavedFirst \/ c \in invalidated
    /\ saved' = saved \cup {c}
    /\ Overlaps(c)
    /\ UNCHANGED <<version, cached, lock, pc, key, access, grants, invalidated, expired>>

\* remove_data_explorer_user_cached_credentials
Remove ==
    /\ version' = KeyVersion
    /\ cached' = Without(KeyVersion)

\* variants: the version stays, or goes back
InvalidateNot == UNCHANGED <<version, cached>>
InvalidateBack == version' = version - 1 /\ UNCHANGED cached

\* invalidate_data_explorer_user_cached_credentials
Invalidate ==
    /\ version' = IF version = 0 THEN 0 ELSE version + 1
    /\ UNCHANGED cached

change_invalidates(c) ==
    /\ c \notin invalidated
    /\ c \in SavedFirst => c \in saved
    /\ invalidated' = invalidated \cup {c}
    /\ IF c \in Removing THEN Remove ELSE Invalidate
    /\ Overlaps(c)
    /\ UNCHANGED <<lock, pc, key, access, grants, saved, expired>>

\* the admin action "Reset Data Explorer and Superset credentials"
clear_tool_cached_credentials ==
    /\ Remove
    /\ UNCHANGED <<lock, requests, grants, changes, expired>>

-----------------------------------------------------------------------------
RequestNext(r) ==
    \/ request_start(r) \/ request_get(r) \/ request_connects(r) \/ request_cannot_connect(r)
    \/ request_locks(r) \/ request_gives_up(r)
    \/ request_rereads_hit(r) \/ request_rereads_miss(r)
    \/ request_reads(r) \/ request_syncs(r) \/ request_fails(r) \/ request_sets(r)
    \/ request_dies(r)

Next ==
    \/ \E r \in Request : RequestNext(r)
    \/ \E t \in Tool : tool_reads(t) \/ tool_syncs(t)
    \/ \E c \in Change : change_saves(c) \/ change_invalidates(c)
    \/ lock_expires \/ credentials_expire \/ clear_tool_cached_credentials

Spec == Init /\ [][Next]_vars

-----------------------------------------------------------------------------
(* Properties *)

Current == {e \in cached : e.key = version}

\* A change that is done has reached the user's role whenever the next request may be
\* served from the cache, unless it was going on while the cached credentials were made or
\* while somebody synchronised the role.
ChangesReachTheUser ==
    \A e \in Current : saved \cap invalidated \subseteq role \cup roleOverlap \cup e.overlap

\* What the comment at each invalidation says: that everybody loses or gets access when
\* the access type or the email domains have changed.
InvalidationReachesTheUser ==
    \A e \in Current : (saved \cap invalidated) \ Removing \subseteq role

\* What the comment under the lock says: credentials are not made when a parallel request
\* has made some, unless a request has taken longer than its lock.
NoWastedCreation ==
    expired \/ \A r \in Request : pc[r] \in {"read"} \cup Making => ~IsCached(key[r])

=============================================================================
