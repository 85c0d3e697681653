---------------------------- MODULE BrowserClient ----------------------------
(***************************************************************************)
(* The session of a user in the browser: a pair of tokens in localStorage, *)
(* which all tabs share, and the interceptors of each tab, which refresh   *)
(* the pair when a request is answered 401.  A login in one tab does not   *)
(* restart the others.  What a tab does for an answer is one step: it runs *)
(* to its end before the tab takes another answer.  The backend is an      *)
(* external actor; a pair is the number of its issue, and a session the    *)
(* number of its first pair.                                               *)
(***************************************************************************)
EXTENDS Naturals

CONSTANTS
    Tabs,
    Calls,          \* requests a tab has out at the same time
    MaxIssued       \* bound: pairs the backend ever issues

ASSUME MaxIssuedAssumption == MaxIssued \in Nat \ {0}

VARIABLES
    stored,         \* the pair in localStorage, 0 if there is none
    call,           \* each tab's requests: what they wait for, their access token
    refreshPromise, \* each tab's refresh: the token it presented, 0 if there is none
    valid,          \* backend: refresh tokens that are not revoked
    issued,         \* backend: pairs issued so far
    session,        \* backend: the session of each pair, 0 if it is not issued
    expired,        \* backend: access tokens up to this one have expired
    login,          \* history: the session of the last login
    over,           \* history: has it been logged out, reset, or expired?
    causes          \* history: what may have cost the user that session since

backendVars == <<valid, issued, session>>
historyVars == <<login, over, causes>>
browserVars == <<stored, call, refreshPromise, backendVars, expired, historyVars>>

IdleCall == [state |-> "idle", access |-> 0]
NoRefresh == [token |-> 0, answer |-> "none", raced |-> FALSE, pair |-> 0]

\* After the first login
BrowserInit ==
    /\ stored = 1
    /\ call = [t \in Tabs |-> [c \in Calls |-> IdleCall]]
    /\ refreshPromise = [t \in Tabs |-> NoRefresh]
    /\ valid = {1}
    /\ issued = 1
    /\ session = [p \in 0..MaxIssued |-> IF p = 1 THEN 1 ELSE 0]
    /\ expired = 0
    /\ login = 1
    /\ over = FALSE
    /\ causes = {}

-----------------------------------------------------------------------------
(***************************************************************************)
(* The backend.                                                            *)
(***************************************************************************)

AccessExpires ==
    /\ expired < issued
    /\ expired' = expired + 1
    /\ UNCHANGED <<stored, call, refreshPromise, backendVars, historyVars>>

\* Of the last login or an earlier one; a refresh that overlaps it fails
SessionEnds(s) ==
    /\ \E p \in valid : session[p] = s
    /\ valid' = {p \in valid : session[p] # s}
    /\ refreshPromise' = [t \in Tabs |->
         IF session[refreshPromise[t].token] = s
         THEN [refreshPromise[t] EXCEPT !.raced = FALSE] ELSE refreshPromise[t]]
    /\ over' = (over \/ s = login)
    /\ UNCHANGED <<stored, call, issued, session, expired, login, causes>>

\* RefreshSession: of requests for one token that overlap each may read it live
Rotate(t) ==
    LET token == refreshPromise[t].token IN
    /\ token # 0 /\ refreshPromise[t].answer = "none"
    /\ token \in valid \/ refreshPromise[t].raced
    /\ issued < MaxIssued
    /\ issued' = issued + 1
    /\ session' = [session EXCEPT ![issued + 1] = session[token]]
    /\ valid' = (valid \ {token}) \union {issued + 1}
    /\ refreshPromise' = [u \in Tabs |->
         IF u = t THEN [refreshPromise[u] EXCEPT !.answer = "ok", !.pair = issued + 1]
         ELSE IF refreshPromise[u].token = token
              THEN [refreshPromise[u] EXCEPT !.raced = TRUE]
              ELSE refreshPromise[u]]
    /\ UNCHANGED <<stored, call, expired, historyVars>>

Refuse(t) ==
    /\ refreshPromise[t].token \notin valid \union {0}
    /\ refreshPromise[t].answer = "none"
    /\ refreshPromise' = [refreshPromise EXCEPT ![t].answer = "refused"]
    /\ UNCHANGED <<stored, call, backendVars, expired, historyVars>>

-----------------------------------------------------------------------------
(***************************************************************************)
(* A tab.                                                                  *)
(***************************************************************************)

\* A login in any tab stores its pair, whatever the tabs have out
Login ==
    /\ issued < MaxIssued
    /\ issued' = issued + 1
    /\ session' = [session EXCEPT ![issued + 1] = issued + 1]
    /\ valid' = valid \union {issued + 1}
    /\ stored' = issued + 1
    /\ login' = issued + 1
    /\ over' = FALSE
    /\ causes' = {}
    /\ UNCHANGED <<call, refreshPromise, expired>>

\* The request interceptor adds the access token
Request(t, c) ==
    /\ call[t][c].state = "idle"
    /\ call' = [call EXCEPT ![t][c] = [state |-> "sent", access |-> stored]]
    /\ UNCHANGED <<stored, refreshPromise, backendVars, expired, historyVars>>

\* Any other answer than 401, and none (an error without a response)
Settled(t, c) ==
    /\ call[t][c].state \in {"sent", "resent"}
    /\ call' = [call EXCEPT ![t][c] = IdleCall]
    /\ UNCHANGED <<stored, refreshPromise, backendVars, expired, historyVars>>

\* 401: the tab's first starts a refresh, the others wait for it; without a
\* refresh token there is nothing left to clear
Unauthorized(t, c) ==
    /\ call[t][c].state = "sent"
    /\ call[t][c].access <= expired
    /\ IF refreshPromise[t] = NoRefresh
       THEN /\ refreshPromise' = [refreshPromise EXCEPT ![t].token = stored]
            /\ causes' = IF \E u \in Tabs : stored # 0 /\ refreshPromise[u].token = stored
                         THEN causes \union {"two tabs"} ELSE causes
       ELSE UNCHANGED <<refreshPromise, causes>>
    /\ call' = [call EXCEPT ![t][c] =
         IF refreshPromise'[t] = NoRefresh THEN IdleCall ELSE [@ EXCEPT !.state = "waiting"]]
    /\ UNCHANGED <<stored, backendVars, expired, login, over>>

\* 401 to the retry: the session is given up
UnauthorizedAgain(t, c) ==
    /\ call[t][c].state = "resent"
    /\ call[t][c].access <= expired
    /\ stored' = 0
    /\ call' = [call EXCEPT ![t][c] = IdleCall]
    /\ causes' = causes \union {"outlived"}
    /\ UNCHANGED <<refreshPromise, backendVars, expired, login, over>>

\* The requests that await refreshPromise go on
Resolve(t, next) ==
    /\ refreshPromise' = [refreshPromise EXCEPT ![t] = NoRefresh]
    /\ call' = [call EXCEPT ![t] =
         [c \in Calls |-> IF @[c].state = "waiting" THEN next ELSE @[c]]]

\* The answer finds in the storage what another tab, or a login, has put there
Late(t) == IF refreshPromise[t].token # stored THEN {"late"} ELSE {}

\* Mutant: only the access token is stored.
RefreshedKeepingToken(t) ==
    /\ refreshPromise[t].answer = "ok"
    /\ Resolve(t, [state |-> "resent", access |-> refreshPromise[t].pair])
    /\ UNCHANGED <<stored, backendVars, expired, historyVars>>

\* setTokens, and the retries, which the interceptor gives the stored token
Refreshed(t) ==
    /\ refreshPromise[t].answer = "ok"
    /\ stored' = refreshPromise[t].pair
    /\ Resolve(t, [state |-> "resent", access |-> refreshPromise[t].pair])
    /\ causes' = causes \union Late(t)
    /\ UNCHANGED <<backendVars, expired, login, over>>

\* The refresh is refused or its answer lost: the storage is cleared, whatever
\* another tab or a login has stored there meanwhile
RefreshFailed(t) ==
    /\ refreshPromise[t].token # 0
    /\ stored' = 0
    /\ Resolve(t, IdleCall)
    /\ causes' = causes \union Late(t) \union
                   (IF refreshPromise[t].answer = "refused" THEN {} ELSE {"lost"})
    /\ UNCHANGED <<backendVars, expired, login, over>>

\* The page is left, reloaded, or sent to /login: its requests end unanswered
Unload(t) ==
    /\ call[t] # [c \in Calls |-> IdleCall]
    /\ call' = [call EXCEPT ![t] = [c \in Calls |-> IdleCall]]
    /\ refreshPromise' = [refreshPromise EXCEPT ![t] = NoRefresh]
    /\ causes' = IF refreshPromise[t] = NoRefresh THEN causes ELSE causes \union {"lost"}
    /\ UNCHANGED <<stored, backendVars, expired, login, over>>

BrowserNext ==
    \/ AccessExpires
    \/ \E s \in 1..MaxIssued : SessionEnds(s)
    \/ Login
    \/ \E t \in Tabs :
         \/ Rotate(t) \/ Refuse(t)
         \/ Refreshed(t) \/ RefreshFailed(t) \/ Unload(t)
         \/ \E c \in Calls :
              Request(t, c) \/ Settled(t, c) \/ Unauthorized(t, c) \/ UnauthorizedAgain(t, c)

BrowserSpec == BrowserInit /\ [][BrowserNext]_browserVars

-----------------------------------------------------------------------------

\* However the requests of the tabs and logins interleave, the session of the
\* last login stays usable until it ends: the stored refresh token is a live one
\* of it, or on its way to a new pair.  What may cost it is an answer to a refresh
\* that is lost, a retry that is answered 401, two tabs that present the same
\* token, or an answer to a refresh that finds another token stored than it was
\* asked with: a login's, which it overwrites or clears.
SessionIsKept ==
    \/ over \/ causes # {}
    \/ /\ session[stored] = login
       /\ \/ stored \in valid
          \/ \E t \in Tabs : refreshPromise[t].token = stored /\ refreshPromise[t].pair \in valid

=============================================================================
