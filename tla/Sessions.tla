------------------------------- MODULE Sessions -------------------------------
(***************************************************************************)
(* Sessions of users: login, rotation of refresh tokens, logout, and       *)
(* password reset by a mailed link.                                        *)
(*                                                                         *)
(* Every request is one READ COMMITTED transaction that locks what it      *)
(* updates and nothing it reads: what LoginUser, RefreshSession, LogoutUser*)
(* and ResetPassword tested may be stale when they write.  An access token *)
(* is signed, not stored; it outlives everything here by its own time.     *)
(***************************************************************************)
EXTENDS Naturals

CONSTANTS
    Users,
    Refreshes,      \* refresh tokens; each is generated once
    Resets,         \* password reset tokens; each is generated once
    Handlers,       \* requests the backend serves at the same time
    None,
    MaxVersion      \* bound: passwords a user ever sets

ASSUME NoneAssumption == None \notin Users \union Refreshes \union Resets
ASSUME BoundsAssumption == MaxVersion \in Nat

VARIABLES
    password,       \* users.password_hash: the version of the password
    owner,          \* refresh_tokens.user_id, None before the INSERT
    revoked,        \* refresh tokens whose revoked_at is set
    lapsed,         \* tokens whose expires_at has passed
    resetFor,       \* password_reset_tokens.user_id, None before the INSERT
    used,           \* reset tokens whose used_at is set
    request,        \* what each handler is serving
    parent,         \* history: the token a token replaced
    under,          \* history: the password its session's login verified
    late            \* history: sessions continued while a reset was served

tokenVars == <<password, owner, revoked, lapsed, resetFor, used>>
historyVars == <<parent, under, late>>
vars == <<tokenVars, historyVars, request>>

Versions == 0..MaxVersion

\* "rotate" and "sweep" have updated their token's, or their user's, row;
\* found: the tokens that revoke_all_for_user locked
Requests == [op : {"idle", "login", "refresh", "rotate", "logout", "reset", "sweep", "finish"},
             user : Users \union {None}, token : Refreshes \union {None},
             link : Resets \union {None}, version : Versions,
             found : SUBSET Refreshes, late : BOOLEAN]

Idle == [op |-> "idle", user |-> None, token |-> None, link |-> None, version |-> 0,
         found |-> {}, late |-> FALSE]

TypeOK ==
    /\ password \in [Users -> Versions]
    /\ owner \in [Refreshes -> Users \union {None}]
    /\ revoked \subseteq {t \in Refreshes : owner[t] # None}
    /\ lapsed \subseteq Refreshes \union Resets
    /\ resetFor \in [Resets -> Users \union {None}]
    /\ used \subseteq {r \in Resets : resetFor[r] # None}
    /\ request \in [Handlers -> Requests]
    /\ parent \in [Refreshes -> Refreshes \union {None}]
    /\ under \in [Refreshes -> Versions]
    /\ late \subseteq Refreshes

Init ==
    /\ password = [u \in Users |-> 0]
    /\ owner = [t \in Refreshes |-> None]
    /\ revoked = {}
    /\ lapsed = {}
    /\ resetFor = [r \in Resets |-> None]
    /\ used = {}
    /\ request = [h \in Handlers |-> Idle]
    /\ parent = [t \in Refreshes |-> None]
    /\ under = [t \in Refreshes |-> 0]
    /\ late = {}

-----------------------------------------------------------------------------

\* expires_at passes; RefreshSession and ResetPassword test it once
TokenLapses(t) ==
    /\ t \notin lapsed
    /\ lapsed' = lapsed \union {t}
    /\ UNCHANGED <<password, owner, revoked, resetFor, used, historyVars, request>>

-----------------------------------------------------------------------------
(***************************************************************************)
(* Requests.                                                               *)
(***************************************************************************)

Begin(h, started) ==
    /\ request[h].op = "idle"
    /\ request' = [request EXCEPT ![h] = started]

\* A refresh token row that another request has updated and not committed
\* (a reset locks each row it found at some time before its commit: the last)
Locked(h, t) ==
    \E g \in Handlers \ {h} : request[g].op = "rotate" /\ request[g].token = t

\* LoginUser up to the verification of the password (a wrong one changes nothing)
LoginRead(h, u) ==
    /\ Begin(h, [Idle EXCEPT !.op = "login", !.user = u, !.version = password[u]])
    /\ UNCHANGED <<tokenVars, historyVars>>

\* A token is committed; it is late when a reset of its user was served at
\* some time between the request's read and this commit, or continues a late one
NewToken(h, n, from) ==
    LET u == request[h].user IN
    /\ owner[n] = None
    /\ owner' = [owner EXCEPT ![n] = u]
    /\ parent' = [parent EXCEPT ![n] = from]
    /\ under' = [under EXCEPT ![n] = request[h].version]
    /\ late' = IF \/ request[h].late
                  \/ from \in late
                  \/ \E g \in Handlers : request[g].op = "finish" /\ request[g].user = u
               THEN late \union {n} ELSE late
    /\ request' = [request EXCEPT ![h] = Idle]
    /\ UNCHANGED <<password, lapsed, resetFor, used>>

LoginCommit(h, n) ==
    /\ request[h].op = "login"
    /\ NewToken(h, n, None)
    /\ UNCHANGED revoked

\* RefreshSession up to its tests of the token
RefreshRead(h, t) ==
    /\ owner[t] # None
    /\ t \notin revoked \union lapsed
    /\ Begin(h, [Idle EXCEPT !.op = "refresh", !.user = owner[t], !.token = t,
                             !.version = under[t]])
    /\ UNCHANGED <<tokenVars, historyVars>>

\* revoke(current.id): the UPDATE waits for the row's lock and tests nothing
RefreshRevoke(h) ==
    /\ request[h].op = "refresh"
    /\ ~Locked(h, request[h].token)
    /\ request' = [request EXCEPT ![h].op = "rotate"]
    /\ UNCHANGED <<tokenVars, historyVars>>

\* Mutant: the old token is left as it is.
RefreshCommitKeeping(h, n) ==
    /\ request[h].op = "rotate"
    /\ NewToken(h, n, request[h].token)
    /\ UNCHANGED revoked

RefreshCommit(h, n) ==
    /\ request[h].op = "rotate"
    /\ NewToken(h, n, request[h].token)
    /\ revoked' = revoked \union {request[h].token}

\* LogoutUser: a token that is unknown or revoked ends the request
LogoutRead(h, t) ==
    /\ owner[t] # None
    /\ t \notin revoked
    /\ Begin(h, [Idle EXCEPT !.op = "logout", !.user = owner[t], !.token = t])
    /\ UNCHANGED <<tokenVars, historyVars>>

LogoutCommit(h) ==
    /\ request[h].op = "logout"
    /\ ~Locked(h, request[h].token)
    /\ revoked' = revoked \union {request[h].token}
    /\ request' = [request EXCEPT ![h] = Idle]
    /\ UNCHANGED <<password, owner, lapsed, resetFor, used, historyVars>>

\* RequestPasswordReset: the row is committed, then the link is mailed (a
\* mail that fails leaves a row nobody can use)
ForgotPassword(u, r) ==
    /\ resetFor[r] = None
    /\ resetFor' = [resetFor EXCEPT ![r] = u]
    /\ UNCHANGED <<password, owner, revoked, lapsed, used, historyVars, request>>

\* ResetPassword up to its tests of the link
ResetRead(h, r) ==
    /\ resetFor[r] # None
    /\ r \notin used \union lapsed
    /\ Begin(h, [Idle EXCEPT !.op = "reset", !.user = resetFor[r], !.link = r])
    /\ UNCHANGED <<tokenVars, historyVars>>

\* mark_used and update_password_hash: the user's row is locked from here on
ResetUpdate(h) ==
    /\ request[h].op = "reset"
    /\ password[request[h].user] < MaxVersion
    /\ \A g \in Handlers : request[g].op \in {"sweep", "finish"} =>
           /\ request[g].user # request[h].user
           /\ request[g].link # request[h].link
    /\ request' = [request EXCEPT ![h].op = "sweep"]
    /\ UNCHANGED <<tokenVars, historyVars>>

LiveOf(u) == {t \in Refreshes \ revoked : owner[t] = u}

\* revoke_all_for_user finds the tokens that are live as it starts
ResetSweep(h) ==
    /\ request[h].op = "sweep"
    /\ request' = [request EXCEPT ![h].op = "finish", ![h].found = LiveOf(request[h].user)]
    /\ UNCHANGED <<tokenVars, historyVars>>

\* Mutant: the sessions of the user are left alone.
ResetCommitWithoutRevoking(h) ==
    LET u == request[h].user IN
    /\ request[h].op = "finish"
    /\ password' = [password EXCEPT ![u] = @ + 1]
    /\ used' = used \union {request[h].link}
    /\ request' = [request EXCEPT ![h] = Idle]
    /\ UNCHANGED <<owner, revoked, lapsed, resetFor, historyVars>>

\* It has waited for the rows others had locked; all is committed at once
ResetCommit(h) ==
    LET u == request[h].user IN
    /\ request[h].op = "finish"
    /\ \A t \in request[h].found : ~Locked(h, t)
    /\ password' = [password EXCEPT ![u] = @ + 1]
    /\ used' = used \union {request[h].link}
    /\ revoked' = revoked \union request[h].found
    /\ request' = [g \in Handlers |->
         IF g = h THEN Idle
         ELSE IF request[g].op \in {"login", "refresh", "rotate"} /\ request[g].user = u
              THEN [request[g] EXCEPT !.late = TRUE]
              ELSE request[g]]
    /\ UNCHANGED <<owner, lapsed, resetFor, historyVars>>

\* A request that dies before its commit: its transaction rolls back
Abort(h) ==
    /\ request[h].op # "idle"
    /\ request' = [request EXCEPT ![h] = Idle]
    /\ UNCHANGED <<tokenVars, historyVars>>

-----------------------------------------------------------------------------

UserStep ==
    \/ \E h \in Handlers, u \in Users : LoginRead(h, u)
    \/ \E h \in Handlers, t \in Refreshes : RefreshRead(h, t) \/ LogoutRead(h, t)
    \/ \E u \in Users, r \in Resets : ForgotPassword(u, r)
    \/ \E h \in Handlers, r \in Resets : ResetRead(h, r)

HandlerStep(h) ==
    \/ \E n \in Refreshes : LoginCommit(h, n) \/ RefreshCommit(h, n)
    \/ RefreshRevoke(h)
    \/ LogoutCommit(h)
    \/ ResetUpdate(h)
    \/ ResetSweep(h)
    \/ ResetCommit(h)
    \/ Abort(h)

Next ==
    \/ UserStep
    \/ \E h \in Handlers : HandlerStep(h)
    \/ \E t \in Refreshes \union Resets : TokenLapses(t)

Spec == Init /\ [][Next]_vars

-----------------------------------------------------------------------------
(***************************************************************************)
(* Safety, with concurrent requests.                                       *)
(***************************************************************************)

\* A refresh continues a session of the same user and leaves its old token
\* dead, also when two refreshes, a logout or a reset of the token race.
RotationRevokes ==
    \A t \in Refreshes : parent[t] # None =>
        /\ parent[t] \in revoked
        /\ owner[parent[t]] = owner[t]
        /\ under[parent[t]] = under[t]

\* After a password reset, a session opened with an earlier password is live
\* only if it was opened or refreshed by a request served at the same time as
\* a reset: revoke_all_for_user misses no other.
OnlyLateSessionsSurvive ==
    \A t \in Refreshes \ revoked :
        owner[t] # None => under[t] = password[owner[t]] \/ t \in late

=============================================================================
