------------------------------ MODULE MCRecords ------------------------------
(***************************************************************************)
(* A small instance of the records that scheduled tasks keep of what       *)
(* others did: the users of SSO (SsoUsers) and the audit log of tools      *)
(* (ToolQueryLogs).  They share no state, so in a behaviour of this module *)
(* one of them, the part, takes its steps and the other stays as it was.   *)
(***************************************************************************)
EXTENDS SsoUsers

CONSTANTS Statement, Execution, Kept, MaxTime

VARIABLES
    part, now, time, lines, dropped, stored, tables, last, lockHolder, exec, excused, gap,
    halfStored, failures

Logs == INSTANCE ToolQueryLogs WITH failed <- failures

ssoVars == vars
logVars == <<now, time, lines, dropped, stored, tables, last, lockHolder, exec, excused, gap,
             halfStored, failures>>

RecordsInit == part \in {"sso", "logs"} /\ Init /\ Logs!Init

RecordsNext ==
    /\ UNCHANGED part
    /\ \/ part = "sso" /\ Next /\ UNCHANGED logVars
       \/ part = "logs" /\ Logs!Next /\ UNCHANGED ssoVars

\* the fairness of each part, where it is the part that takes steps
RecordsFairness ==
    /\ \A r \in Request : WF_ssoVars(part = "sso" /\ RequestNext(r))
    /\ WF_ssoVars(part = "sso" /\ SyncNext)
    /\ WF_ssoVars(part = "sso" /\ create_tools_access_iam_role)
    /\ SF_ssoVars(part = "sso" /\ FullExport)
    /\ \A e \in Execution : WF_logVars(part = "logs" /\ Logs!ExecutionNext(e))
    /\ WF_logVars(part = "logs" /\ Logs!lock_expires)

RecordsSpec == RecordsInit /\ [][RecordsNext]_<<part, ssoVars, logVars>> /\ RecordsFairness

-----------------------------------------------------------------------------
\* Every variable keeps its type.
RecordsTypeOK == TypeOK /\ Logs!TypeOK

\* The profile comes to say what SSO says, and stays so: see SsoUsers.
ProfileComesToFollow == part = "sso" => ProfileFollowsSso

\* The role of a person with tools is in the profile in the end: see SsoUsers.
RoleIsInTheProfile == part = "sso" => RoleIsRemembered

\* What is behind the last window is stored: see ToolQueryLogs.
WindowsLeaveNothing == Logs!WindowsLeaveNothing

\* A stored statement has its tables: see ToolQueryLogs.
StoredHaveTables == Logs!StoredHaveTables

\* A line of the log is stored in the end: see ToolQueryLogs.
LinesAreStored == Logs!LinesAreStored
=============================================================================
