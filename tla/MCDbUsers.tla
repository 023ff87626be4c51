----------------------------- MODULE MCDbUsers ------------------------------
(***************************************************************************)
(* Small instances of DbUsers, checked in one run: a behaviour belongs to  *)
(* one of them, its scope, which says how many instances, databases and    *)
(* runs of the cleanup there are.                                          *)
(***************************************************************************)
EXTENDS DbUsers

CONSTANTS i1, i2, d1, d2, c1, c2

VARIABLE scope

\* a batch of two users, an instance with users in two databases, two cleanups that overlap
Scope == {[ids |-> {i1, i2}, dbs |-> {d1}, cleaners |-> {c1}],
          [ids |-> {i1}, dbs |-> {d1, d2}, cleaners |-> {c1}],
          [ids |-> {i1}, dbs |-> {d1}, cleaners |-> {c1, c2}]}

Small(s) == INSTANCE DbUsers WITH Id <- s.ids, Database <- s.dbs, Cleaner <- s.cleaners

SmallInit == scope \in Scope /\ \E s \in Scope : scope = s /\ Small(s)!Init

\* Two users and Data Explorer's are more than TLC has the time for.
SmallNext ==
    /\ UNCHANGED scope
    /\ \E s \in Scope : scope = s /\ Small(s)!Next
    /\ i2 \in scope.ids => UNCHANGED leftover

\* FairSpec's, in the scope of the behaviour
SmallFairness ==
    /\ \A i \in Id : WF_vars(\E s \in Scope : scope = s /\ i \in s.ids /\ Small(s)!SpawnNext(i))
    /\ \A c \in Cleaner :
           WF_vars(\E s \in Scope : scope = s /\ c \in s.cleaners /\ Small(s)!CleanerNext(c))
    /\ WF_vars(cleanup_temporary_query_tables)

SmallSpec == SmallInit /\ [][SmallNext]_<<scope, vars>> /\ SmallFairness

-----------------------------------------------------------------------------
\* The variables keep their types.
UsersTypeOK == \A s \in Scope : scope = s => Small(s)!TypeOK

\* A user that nobody uses is dropped in the end: UnusedUsersAreDropped, for those in scope.
UsersAreDropped ==
    \A d \in Database, i \in Id :
        LET UnusedInScope == d \in scope.dbs /\ i \in scope.ids /\ Unused(d, i)
        IN  UnusedInScope ~> ~UnusedInScope
=============================================================================
