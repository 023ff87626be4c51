------------------------------ MODULE SsoLogin ------------------------------
(***************************************************************************)
(* How the proxy logs a browser in through SSO, and the sessions it keeps  *)
(* in Redis for that.                                                      *)
(*                                                                         *)
(* A response that sends the browser to SSO, or back from it, gives it a   *)
(* new session, with a new cookie, that has one value: the key of a flow,  *)
(* with the URL that was asked for, or the access token.  No value is ever *)
(* added to a session later, so a cookie is taken here for the value of    *)
(* its session.  A page comes with the cookie of its request.  A browser   *)
(* has one cookie, of whichever response it got last, and as many tabs as  *)
(* its person likes; each has a flow of its own.                           *)
(***************************************************************************)
EXTENDS FiniteSets

CONSTANTS
    Tab,        \* tabs of the browser, each with a URL
    Logout,     \* times that the person may log out of SSO
    Lost        \* times that a session may expire, or that SSO may fail

VARIABLES
    cookie,     \* of the browser
    tab,        \* where the tabs are, the cookies they sent or are given, and the tokens
                \* that the proxy has in hand for them
    cached,     \* profiles in Redis: of a token that SSO knows, of one that it does not
    logouts, lost

NoSession == "none"
OldFlow == "old"       \* the key of a flow that has been begun anew
Token == "token"       \* all that SSO knows are one
Revoked == "revoked"   \* those from before a logout
Session == {NoSession, OldFlow, Token, Revoked} \cup Tab

losses == <<logouts, lost>>
loginVars == <<cookie, tab, cached, losses>>

LoginTypeOK ==
    /\ cookie \in Session
    /\ tab \in [Tab -> [pc : {"idle", "request", "profile", "answered", "page", "redirected",
                              "sso", "callback", "token", "logged_in", "served", "error"},
                        sent : Session, token : {NoSession, Token, Revoked}]]
    /\ cached \subseteq {Token, Revoked}
    /\ logouts \subseteq Logout /\ lost \subseteq Lost

NoRequest == [pc |-> "idle", sent |-> NoSession, token |-> NoSession]

LoginInit ==
    /\ cookie = NoSession
    /\ tab = [t \in Tab |-> NoRequest]
    /\ cached = {}
    /\ logouts = {} /\ lost = {}

At(t, pc) == [tab EXCEPT ![t].pc = pc]
Gives(t, pc, session) == [pc |-> pc, sent |-> session, token |-> NoSession]

\* the cookies and tokens in the tabs, after each has become other(it)
Renamed(other(_)) ==
    [t \in Tab |-> [tab[t] EXCEPT !.sent = other(@), !.token = other(@)]]

-----------------------------------------------------------------------------
(* The browser *)

open(t) ==
    /\ tab[t].pc \in {"idle", "served", "error"}
    /\ tab' = [tab EXCEPT ![t] = Gives(t, "request", cookie)]
    /\ UNCHANGED <<cookie, cached, losses>>

\* variant: a cookie is taken only where there was none
follow_redirectIfNew(t) ==
    /\ tab[t].pc = "redirected"
    /\ cookie' = IF cookie = NoSession THEN tab[t].sent ELSE cookie
    /\ tab' = At(t, "sso")
    /\ UNCHANGED <<cached, losses>>

\* Set-Cookie, whatever the browser had
follow_redirect(t) ==
    /\ tab[t].pc = "redirected"
    /\ cookie' = tab[t].sent
    /\ tab' = At(t, "sso")
    /\ UNCHANGED <<cached, losses>>

\* the person is logged in at SSO, or logs in, and is sent to /__redirect_from_sso
sso_redirects(t) ==
    /\ tab[t].pc = "sso"
    /\ tab' = [tab EXCEPT ![t] = Gives(t, "callback", cookie)]
    /\ UNCHANGED <<cookie, cached, losses>>

\* and on to the URL that was asked for
follow_login(t) ==
    /\ tab[t].pc = "logged_in"
    /\ cookie' = tab[t].sent
    /\ tab' = [tab EXCEPT ![t] = Gives(t, "request", tab[t].sent)]
    /\ UNCHANGED <<cached, losses>>

\* a page has the cookie that its request had, though there may be another since
page_arrives(t) ==
    /\ tab[t].pc = "page"
    /\ cookie' = tab[t].sent
    /\ tab' = [tab EXCEPT ![t] = Gives(t, "served", NoSession)]
    /\ UNCHANGED <<cached, losses>>

-----------------------------------------------------------------------------
(* _authenticate_by_sso *)

\* redirection_to_sso, with_new_cookie: a flow of t that was begun before is no more
Redirected(t) ==
    LET other(s) == IF s = t THEN OldFlow ELSE s
    IN /\ tab' = [Renamed(other) EXCEPT ![t] = Gives(t, "redirected", t)]
       /\ cookie' = other(cookie)
       /\ UNCHANGED cached

no_token(t) ==
    /\ tab[t].pc = "request" /\ tab[t].sent \notin {Token, Revoked}
    /\ Redirected(t)
    /\ UNCHANGED losses

has_token(t) ==
    /\ tab[t].pc = "request" /\ tab[t].sent \in {Token, Revoked}
    /\ tab' = [tab EXCEPT ![t].pc = "profile", ![t].token = tab[t].sent]
    /\ UNCHANGED <<cookie, cached, losses>>

profile_cached(t) ==
    /\ tab[t].pc = "profile" /\ tab[t].token \in cached
    /\ tab' = At(t, "page")
    /\ UNCHANGED <<cookie, cached, losses>>

\* it is asked where its profile is not in the cache, which may have those of others
sso_knows(t) ==
    /\ tab[t].pc = "profile" /\ tab[t].token = Token
    /\ tab' = At(t, "answered")
    /\ UNCHANGED <<cookie, cached, losses>>

sso_does_not_know(t) ==
    /\ tab[t].pc = "profile" /\ tab[t].token = Revoked
    /\ Redirected(t)
    /\ UNCHANGED losses

\* for 60 seconds, though the person may have logged out since
profile_saved(t) ==
    /\ tab[t].pc = "answered"
    /\ cached' = cached \cup {tab[t].token}
    /\ tab' = At(t, "page")
    /\ UNCHANGED <<cookie, losses>>

profile_expires ==
    /\ \E s \in cached : cached' = cached \ {s}
    /\ UNCHANGED <<cookie, tab, losses>>

\* "We might have been overtaken by a parallel request"
flow_overtaken(t) ==
    /\ tab[t].pc = "callback" /\ tab[t].sent # t
    /\ Redirected(t)
    /\ UNCHANGED losses

flow_found(t) ==
    /\ tab[t].pc = "callback" /\ tab[t].sent = t
    /\ tab' = At(t, "token")
    /\ UNCHANGED <<cookie, cached, losses>>

token_set(t) ==
    /\ tab[t].pc = "token"
    /\ tab' = [tab EXCEPT ![t] = Gives(t, "logged_in", Token)]
    /\ UNCHANGED <<cookie, cached, losses>>

-----------------------------------------------------------------------------
(* SSO, and the end of sessions *)

log_out(l) ==
    /\ l \in Logout \ logouts
    /\ logouts' = logouts \cup {l}
    /\ LET other(s) == IF s = Token THEN Revoked ELSE s
       IN /\ tab' = Renamed(other)
          /\ cookie' = other(cookie)
          /\ cached' = {other(s) : s \in cached}
    /\ UNCHANGED lost

\* REDIS_MAX_AGE, which is less than COOKIE_MAX_AGE, or another peer_ip_group: of sessions
\* with the same value all are lost
session_lost(s, l) ==
    /\ l \in Lost \ lost
    /\ lost' = lost \cup {l}
    /\ cookie' = IF cookie = s THEN NoSession ELSE cookie
    /\ tab' = [t \in Tab |-> IF tab[t].sent = s THEN [tab[t] EXCEPT !.sent = NoSession] ELSE tab[t]]
    /\ UNCHANGED <<cached, logouts>>

\* a token that it does not give is an error, and an answer that is not a profile is taken
\* for one about a token that it does not know
sso_fails(t, l) ==
    /\ l \in Lost \ lost
    /\ lost' = lost \cup {l}
    /\ \/ /\ tab[t].pc = "token"
          /\ tab' = [tab EXCEPT ![t] = Gives(t, "error", NoSession)]
          /\ UNCHANGED <<cookie, cached>>
       \/ /\ tab[t].pc = "profile"
          /\ Redirected(t)
    /\ UNCHANGED logouts

TabNext(t) ==
    \/ follow_redirect(t) \/ sso_redirects(t) \/ follow_login(t) \/ page_arrives(t)
    \/ no_token(t) \/ has_token(t) \/ profile_cached(t) \/ sso_knows(t) \/ sso_does_not_know(t)
    \/ profile_saved(t) \/ flow_overtaken(t) \/ flow_found(t) \/ token_set(t)

LoginNext ==
    \/ \E t \in Tab : open(t) \/ TabNext(t)
    \/ profile_expires
    \/ \E l \in Logout : log_out(l)
    \/ \E s \in Session \ {NoSession}, l \in Lost : session_lost(s, l)
    \/ \E t \in Tab, l \in Lost : sso_fails(t, l)

\* requests, redirects and logins come to an end; nobody has to open a tab
LoginFairness ==
    /\ \A t \in Tab : WF_loginVars(TabNext(t))
    /\ WF_loginVars(profile_expires)

LoginSpec == LoginInit /\ [][LoginNext]_loginVars /\ LoginFairness

-----------------------------------------------------------------------------
(* Properties *)

\* A flow of t comes back with the cookie of another
Overtaken(t) == tab[t].pc = "callback" /\ tab[t].sent # t
AtRest(t) == tab[t].pc \in {"idle", "served", "error"}

\* Two tabs, one of which overtakes the other again and again
Livelock == \E t, u \in Tab : t # u /\ []<>Overtaken(t) /\ []<>~AtRest(u)

\* Who opens a tab gets to the page, or to an error of SSO, unless others overtake it for
\* ever, as two flows, or a flow and the pages of another tab, can: once the other tabs have
\* what they asked for it does, whatever session was lost or logged out of before.
PageIsServed == Livelock \/ \A t \in Tab : tab[t].pc = "request" ~> AtRest(t)
=============================================================================
