------------------------------ MODULE MCAccess ------------------------------
(***************************************************************************)
(* A small instance of the parts that decide who sees what, and the data   *)
(* that editors keep: the cached credentials of a user                     *)
(* (ExplorerCredentials), the lists of the users of datasets               *)
(* (AuthorisedUsers), the policy of a user's tools (ToolsPolicy) and a     *)
(* reference dataset (ReferenceDatasets).  ExplorerCredentials has the     *)
(* changes of the lists as its own Change, whatever makes them, and the    *)
(* others have other inputs, so they are checked one beside the other: in  *)
(* a behaviour of this module one of them, the part, takes its steps and   *)
(* the others stay as they were.                                           *)
(***************************************************************************)
EXTENDS ExplorerCredentials, AuthorisedUsers, TLC

CONSTANTS
    Team, MembershipChange, RoleMaker, MaxRetries, Failure,
    Process, NoProcess, Field, Column, Record, MaxRequests

VARIABLES
    part, memberships, admin, task, retries, maker, teamsRead, policyLock, roleSaved, policy,
    early, overtaken, failed,
    row, fields, columns, records, external, rowLock, draft, models, call, begun, refFailed,
    late, swallowed, rolledBack, staleSave, diverged

\* one of the datasets has an owner, and somebody else asks for the other
SomeOwners == [d \in Dataset |-> IF d = CHOOSE other \in Dataset : TRUE THEN {}
                                 ELSE {CHOOSE u \in User : TRUE}]
SomeAsked ==
    LET owners == UNION {SomeOwners[d] : d \in Dataset}
    IN {<<CHOOSE d \in Dataset : TRUE, CHOOSE u \in User : u \notin owners>>}

Policy == INSTANCE ToolsPolicy WITH Change <- MembershipChange, Maker <- RoleMaker,
                                     lock <- policyLock, role <- roleSaved

\* the fields are linked to others of one dataset, with one column between them
OneColumn == [f \in Field |-> Column]

Refs == INSTANCE ReferenceDatasets WITH ColumnOf <- OneColumn, failed <- refFailed

credentialVars == vars
policyVars == <<memberships, admin, task, retries, maker, teamsRead, policyLock, roleSaved,
                policy, early, overtaken, failed>>
refVars == <<row, fields, columns, records, external, rowLock, draft, models, call, begun,
             refFailed, late, swallowed, rolledBack, staleSave, diverged>>

AccessInit ==
    /\ part \in {"credentials", "lists", "policy", "reference"}
    /\ Init /\ ListsInit /\ Policy!Init /\ Refs!Init

\* a death takes the place of a save: AccessProofs has no bound on either
ListsBound == saves' + crashes' <= MaxSaves

AccessNext ==
    /\ UNCHANGED part
    /\ \/ part = "credentials" /\ Next /\ UNCHANGED <<listsVars, policyVars, refVars>>
       \/ /\ part = "lists" /\ ListsNext /\ ListsBound
          /\ UNCHANGED <<credentialVars, policyVars, refVars>>
       \/ part = "policy" /\ Policy!Next /\ UNCHANGED <<credentialVars, listsVars, refVars>>
       \/ part = "reference" /\ Refs!Next /\ UNCHANGED <<credentialVars, listsVars, policyVars>>

AccessSpec ==
    AccessInit /\ [][AccessNext]_<<part, credentialVars, listsVars, policyVars, refVars>>

Symmetry == Permutations(Request) \cup Permutations(Editor)

-----------------------------------------------------------------------------
\* Every variable of the part that takes its steps keeps its type.
AccessTypeOK ==
    /\ part = "credentials" => TypeOK
    /\ part = "lists" => ListsTypeOK
    /\ part = "policy" => Policy!TypeOK
    /\ part = "reference" => Refs!TypeOK

\* The policy has the teams of committed memberships: see ToolsPolicy.
PolicyFollowsCommittedTeams == Policy!PolicyFollowsCommittedTeams

\* A model has the fields of its version: see ReferenceDatasets.
ModelsAreCurrent == Refs!ModelsAreCurrent

\* The columns are those of the fields: see ReferenceDatasets.
FieldsHaveColumns == Refs!FieldsHaveColumns

\* The external table has the records: see ReferenceDatasets.
RecordsAreReplicated == Refs!RecordsAreReplicated
=============================================================================
