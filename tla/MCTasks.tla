------------------------------- MODULE MCTasks -------------------------------
(***************************************************************************)
(* A small instance of the parts whose work goes on behind a request:      *)
(* queries of Data Explorer (QueryRuns), streaming downloads               *)
(* (StreamingQuery), emails about changes (Notifications) and logins       *)
(* through SSO (SsoLogin).  They share no state, so in a behaviour of this *)
(* module one of them, the part, takes its steps and the others stay as    *)
(* they were.                                                              *)
(***************************************************************************)
EXTENDS QueryRuns, Notifications, StreamingQuery

CONSTANTS Tab, Logout, Lost

VARIABLES part, cookie, tab, cached, logouts, lost

Login == INSTANCE SsoLogin

runVars == vars
loginVars == <<cookie, tab, cached, logouts, lost>>

PartsInit ==
    /\ part \in {"query", "notify", "stream", "login"}
    /\ Init /\ NotifyInit /\ StreamInit /\ Login!LoginInit
    /\ part # "notify" => source = "table"
    /\ part # "stream" => batches = 0 /\ ~wantsMetrics

PartsNext ==
    /\ UNCHANGED part
    /\ \/ part = "query" /\ Next /\ UNCHANGED <<notifyVars, streamVars, loginVars>>
       \/ part = "notify" /\ NotifyNext /\ UNCHANGED <<runVars, streamVars, loginVars>>
       \/ part = "stream" /\ StreamNext /\ UNCHANGED <<runVars, notifyVars, loginVars>>
       \/ part = "login" /\ Login!LoginNext /\ UNCHANGED <<runVars, notifyVars, streamVars>>

\* the fairness of each part, where it is the part that takes steps
PartsFairness ==
    /\ \A run \in Query : /\ WF_runVars(part = "query" /\ WorkerNext(run))
                          /\ WF_runVars(part = "query" /\ PollNext(run))
    /\ \A e \in Execution : WF_notifyVars(part = "notify" /\ ExecutionNext(e))
    /\ WF_notifyVars(part = "notify" /\ lock_expires)
    /\ WF_streamVars(part = "stream" /\ GreenletNext)
    /\ WF_streamVars(part = "stream" /\ idle_in_transaction_session_timeout)
    /\ WF_streamVars(part = "stream" /\ IteratorNext)
    /\ \A t \in Tab : WF_loginVars(part = "login" /\ Login!TabNext(t))
    /\ WF_loginVars(part = "login" /\ Login!profile_expires)

PartsSpec ==
    /\ PartsInit
    /\ [][PartsNext]_<<part, runVars, notifyVars, streamVars, loginVars>>
    /\ PartsFairness

-----------------------------------------------------------------------------
\* Every variable keeps its type.
PartsTypeOK == TypeOK /\ NotifyTypeOK /\ StreamTypeOK /\ Login!LoginTypeOK

\* An iterator does not wait for ever: see StreamingQuery.
DownloadGoesOn == part = "stream" => IteratorIsAnswered

\* The transaction of a download ends: see StreamingQuery.
DownloadLetsGo == part = "stream" => TransactionEnds

\* Who opens a tab gets to the page: see SsoLogin.
PageIsServed == Login!PageIsServed
=============================================================================
