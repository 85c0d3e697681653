---------------------------- MODULE SessionsProofs ----------------------------
(***************************************************************************)
(* Theorems about Sessions, for every set of users, tokens and concurrent  *)
(* requests.                                                               *)
(*                                                                         *)
(* What a request read may be stale when it commits, so the invariant says *)
(* what each request in flight may still rely on: Refreshing that its      *)
(* session is current unless a reset was served meanwhile, Resetting that  *)
(* the tokens its sweep missed all belong to such sessions.                *)
(***************************************************************************)
EXTENDS Sessions, TLAPS

\* A successor is a token of somebody.
Linked == \A t \in Refreshes : parent[t] # None => owner[t] # None

\* A request names existing rows: ids are never given twice, rows never deleted.
Named ==
    \A h \in Handlers :
        LET r == request[h] IN
        /\ r.op # "idle" => r.user \in Users
        /\ r.op \in {"refresh", "rotate", "logout"} =>
             r.token \in Refreshes /\ owner[r.token] = r.user
        /\ r.op \in {"reset", "sweep", "finish"} =>
             r.link \in Resets /\ resetFor[r.link] = r.user

\* The password that a login verified, or that the session of a token being
\* refreshed was opened with, is the present one or the session will be late.
Refreshing ==
    \A h \in Handlers :
        LET r == request[h] IN
        /\ r.op = "login" => r.version = password[r.user] \/ r.late
        /\ r.op \in {"refresh", "rotate"} =>
             /\ under[r.token] = r.version
             /\ r.version = password[r.user] \/ r.late \/ r.token \in late

\* The lock of the user's row admits one reset at a time, and only late
\* sessions of its user escape the tokens that a reset has found.
Resetting ==
    \A h \in Handlers :
        LET r == request[h] IN
        /\ r.op \in {"sweep", "finish"} =>
             /\ password[r.user] < MaxVersion
             /\ \A g \in Handlers \ {h} :
                    request[g].op \in {"sweep", "finish"} => request[g].user # r.user
        /\ r.op = "finish" =>
             /\ \A t \in r.found : owner[t] = r.user
             /\ \A t \in LiveOf(r.user) : t \in r.found \/ t \in late

IndInv ==
    /\ TypeOK
    /\ RotationRevokes
    /\ OnlyLateSessionsSurvive
    /\ Linked
    /\ Named
    /\ Refreshing
    /\ Resetting

-----------------------------------------------------------------------------
(***************************************************************************)
(* The initial states, and steps that only change the request.             *)
(***************************************************************************)

LEMMA InitHolds == Init => IndInv
<1>. SUFFICES ASSUME Init PROVE IndInv
    OBVIOUS
<1>1. TypeOK
    BY NoneAssumption, BoundsAssumption DEF Init, TypeOK, Requests, Idle, Versions
<1>2. /\ RotationRevokes
      /\ OnlyLateSessionsSurvive
      /\ Linked
      /\ Named
      /\ Refreshing
      /\ Resetting
    BY DEF Init, RotationRevokes, OnlyLateSessionsSurvive, Linked, Named,
           Refreshing, Resetting, Idle
<1>. QED
    BY <1>1, <1>2 DEF IndInv

LEMMA TokenLapsesKeeps ==
    ASSUME IndInv, NEW t \in Refreshes \union Resets, TokenLapses(t)
    PROVE  IndInv'
<1>1. TypeOK'
    BY DEF IndInv, TypeOK, TokenLapses, historyVars
<1>2. /\ RotationRevokes'
      /\ OnlyLateSessionsSurvive'
      /\ Linked'
      /\ Named'
      /\ Refreshing'
      /\ Resetting'
    BY DEF IndInv, RotationRevokes, OnlyLateSessionsSurvive, Linked, Named,
           Refreshing, Resetting, LiveOf, TokenLapses, historyVars
<1>. QED
    BY <1>1, <1>2 DEF IndInv

\* No row changes: what is left to show is about the request itself.
LEMMA RowsKept ==
    ASSUME IndInv, UNCHANGED <<tokenVars, historyVars>>,
           request' \in [Handlers -> Requests], Named', Refreshing', Resetting'
    PROVE  IndInv'
<1>1. TypeOK'
    BY DEF IndInv, TypeOK, tokenVars, historyVars
<1>2. /\ RotationRevokes'
      /\ OnlyLateSessionsSurvive'
      /\ Linked'
    BY DEF IndInv, RotationRevokes, OnlyLateSessionsSurvive, Linked,
           tokenVars, historyVars
<1>. QED
    BY <1>1, <1>2 DEF IndInv

\* A login has verified the present password.
LEMMA LoginReadKeeps ==
    ASSUME IndInv, NEW h \in Handlers, NEW u \in Users, LoginRead(h, u)
    PROVE  IndInv'
<1>1. request' \in [Handlers -> Requests]
    BY DEF IndInv, TypeOK, LoginRead, Begin, Requests, Idle
<1>2. Named' /\ Refreshing' /\ Resetting'
    BY DEF IndInv, TypeOK, Named, Refreshing, Resetting, LiveOf, LoginRead, Begin,
           Requests, Idle, tokenVars, historyVars
<1>. QED
    BY <1>1, <1>2, RowsKept DEF LoginRead

\* A live token is of a current or a late session.
LEMMA RefreshReadKeeps ==
    ASSUME IndInv, NEW h \in Handlers, NEW t \in Refreshes, RefreshRead(h, t)
    PROVE  IndInv'
<1>1. request' \in [Handlers -> Requests]
    BY DEF IndInv, TypeOK, RefreshRead, Begin, Requests, Idle
<1>2. Named' /\ Resetting'
    BY DEF IndInv, TypeOK, Named, Resetting, LiveOf, RefreshRead, Begin,
           Requests, Idle, tokenVars, historyVars
<1>3. Refreshing'
    BY DEF IndInv, TypeOK, Refreshing, OnlyLateSessionsSurvive, RefreshRead, Begin,
           Requests, Idle, tokenVars, historyVars
<1>. QED
    BY <1>1, <1>2, <1>3, RowsKept DEF RefreshRead

LEMMA RefreshRevokeKeeps ==
    ASSUME IndInv, NEW h \in Handlers, RefreshRevoke(h)
    PROVE  IndInv'
<1>1. request' \in [Handlers -> Requests]
    BY DEF IndInv, TypeOK, RefreshRevoke, Requests
<1>2. Named' /\ Refreshing' /\ Resetting'
    BY DEF IndInv, TypeOK, Named, Refreshing, Resetting, LiveOf, RefreshRevoke,
           Requests, tokenVars, historyVars
<1>. QED
    BY <1>1, <1>2, RowsKept DEF RefreshRevoke

LEMMA LogoutReadKeeps ==
    ASSUME IndInv, NEW h \in Handlers, NEW t \in Refreshes, LogoutRead(h, t)
    PROVE  IndInv'
<1>1. request' \in [Handlers -> Requests]
  <2>1. 0 \in Versions
      BY BoundsAssumption DEF Versions
  <2>2. [Idle EXCEPT !.op = "logout", !.user = owner[t], !.token = t] \in Requests
      BY <2>1 DEF IndInv, TypeOK, Requests, Idle
  <2>. QED
      BY <2>2 DEF IndInv, TypeOK, LogoutRead, Begin
<1>2. Named' /\ Refreshing' /\ Resetting'
    BY DEF IndInv, TypeOK, Named, Refreshing, Resetting, LiveOf, LogoutRead, Begin,
           Requests, Idle, tokenVars, historyVars
<1>. QED
    BY <1>1, <1>2, RowsKept DEF LogoutRead

LEMMA ResetReadKeeps ==
    ASSUME IndInv, NEW h \in Handlers, NEW r \in Resets, ResetRead(h, r)
    PROVE  IndInv'
<1>1. request' \in [Handlers -> Requests]
  <2>1. 0 \in Versions
      BY BoundsAssumption DEF Versions
  <2>2. [Idle EXCEPT !.op = "reset", !.user = resetFor[r], !.link = r] \in Requests
      BY <2>1 DEF IndInv, TypeOK, Requests, Idle
  <2>. QED
      BY <2>2 DEF IndInv, TypeOK, ResetRead, Begin
<1>2. Named' /\ Refreshing' /\ Resetting'
    BY DEF IndInv, TypeOK, Named, Refreshing, Resetting, LiveOf, ResetRead, Begin,
           Requests, Idle, tokenVars, historyVars
<1>. QED
    BY <1>1, <1>2, RowsKept DEF ResetRead

\* The row is locked only while no other reset of the user holds it.
LEMMA ResetUpdateKeeps ==
    ASSUME IndInv, NEW h \in Handlers, ResetUpdate(h)
    PROVE  IndInv'
<1>1. request' \in [Handlers -> Requests]
    BY DEF IndInv, TypeOK, ResetUpdate, Requests
<1>2. Named' /\ Refreshing'
    BY DEF IndInv, TypeOK, Named, Refreshing, ResetUpdate, Requests, tokenVars,
           historyVars
<1>3. Resetting'
    BY DEF IndInv, TypeOK, Resetting, LiveOf, ResetUpdate, Requests, tokenVars,
           historyVars
<1>. QED
    BY <1>1, <1>2, <1>3, RowsKept DEF ResetUpdate

\* Nothing live has escaped yet.
LEMMA ResetSweepKeeps ==
    ASSUME IndInv, NEW h \in Handlers, ResetSweep(h)
    PROVE  IndInv'
<1>1. request' \in [Handlers -> Requests]
  <2>1. ASSUME NEW q \in Requests, NEW found \in SUBSET Refreshes
        PROVE  [q EXCEPT !.op = "finish", !.found = found] \in Requests
      BY DEF Requests
  <2>2. LiveOf(request[h].user) \in SUBSET Refreshes
      BY DEF LiveOf
  <2>3. request' = [request EXCEPT ![h] = [request[h] EXCEPT !.op = "finish",
                                               !.found = LiveOf(request[h].user)]]
      BY DEF IndInv, TypeOK, ResetSweep
  <2>. QED
      BY <2>1, <2>2, <2>3 DEF IndInv, TypeOK
<1>2. Named' /\ Refreshing'
    BY DEF IndInv, TypeOK, Named, Refreshing, ResetSweep, Requests, tokenVars,
           historyVars
<1>3. Resetting'
    BY DEF IndInv, TypeOK, Resetting, LiveOf, ResetSweep, Requests, tokenVars,
           historyVars
<1>. QED
    BY <1>1, <1>2, <1>3, RowsKept DEF ResetSweep

LEMMA AbortKeeps ==
    ASSUME IndInv, NEW h \in Handlers, Abort(h)
    PROVE  IndInv'
<1>1. request' \in [Handlers -> Requests]
    BY NoneAssumption, BoundsAssumption DEF IndInv, TypeOK, Abort, Requests, Idle, Versions
<1>2. Named' /\ Refreshing' /\ Resetting'
    BY DEF IndInv, TypeOK, Named, Refreshing, Resetting, LiveOf, Abort,
           Requests, Idle, tokenVars, historyVars
<1>. QED
    BY <1>1, <1>2, RowsKept DEF Abort

-----------------------------------------------------------------------------
(***************************************************************************)
(* Steps that commit.                                                      *)
(***************************************************************************)

LEMMA ForgotPasswordKeeps ==
    ASSUME IndInv, NEW u \in Users, NEW r \in Resets, ForgotPassword(u, r)
    PROVE  IndInv'
<1>1. TypeOK'
    BY NoneAssumption DEF IndInv, TypeOK, ForgotPassword, historyVars
<1>2. Named'
    BY NoneAssumption DEF IndInv, TypeOK, Named, ForgotPassword, historyVars
<1>3. /\ RotationRevokes'
      /\ OnlyLateSessionsSurvive'
      /\ Linked'
      /\ Refreshing'
      /\ Resetting'
    BY DEF IndInv, RotationRevokes, OnlyLateSessionsSurvive, Linked, Refreshing,
           Resetting, LiveOf, ForgotPassword, historyVars
<1>. QED
    BY <1>1, <1>2, <1>3 DEF IndInv

\* A new token: of a login, or the successor of a token revoked with it.
LEMMA NewTokenKeeps ==
    ASSUME IndInv, NEW h \in Handlers, NEW n \in Refreshes,
           NEW from \in Refreshes \union {None}, NewToken(h, n, from),
           \/ /\ request[h].op = "login"
              /\ from = None
              /\ revoked' = revoked
           \/ /\ request[h].op = "rotate"
              /\ from = request[h].token
              /\ revoked' = revoked \union {from}
    PROVE  IndInv'
<1>. DEFINE r == request[h]
<1>1. /\ r \in Requests
      /\ r.user \in Users
      /\ r.user # None
      /\ owner[n] = None
      /\ n \notin revoked
    BY NoneAssumption DEF IndInv, TypeOK, Named, NewToken
<1>2. from # None => /\ owner[from] = r.user
                     /\ from # n
                     /\ under[from] = r.version
                     /\ from \in revoked'
    BY <1>1, NoneAssumption DEF IndInv, Named, Refreshing
<1>3. /\ owner' = [owner EXCEPT ![n] = r.user]
      /\ parent' = [parent EXCEPT ![n] = from]
      /\ under' = [under EXCEPT ![n] = r.version]
      /\ request' = [request EXCEPT ![h] = Idle]
      /\ UNCHANGED <<password, lapsed, resetFor, used>>
    BY DEF NewToken
<1>4. /\ late \subseteq late'
      /\ late' \subseteq late \union {n}
      /\ r.late \/ from \in late => n \in late'
      /\ \A g \in Handlers : request[g].op = "finish" /\ request[g].user = r.user =>
             n \in late'
    BY DEF NewToken
<1>5. /\ revoked \subseteq revoked'
      /\ revoked' \subseteq revoked \union ({from} \ {None})
    BY NoneAssumption DEF IndInv, Named
<1>6. TypeOK'
  <2>1. revoked' \subseteq {t \in Refreshes : owner'[t] # None}
      BY <1>1, <1>2, <1>3, <1>5, NoneAssumption DEF IndInv, TypeOK
  <2>2. request' \in [Handlers -> Requests]
      BY <1>3, BoundsAssumption DEF IndInv, TypeOK, Requests, Idle, Versions
  <2>3. under' \in [Refreshes -> Versions]
      BY <1>1, <1>3 DEF IndInv, TypeOK, Requests
  <2>. QED
      BY <1>1, <1>3, <1>4, <2>1, <2>2, <2>3 DEF IndInv, TypeOK
<1>7. RotationRevokes'
    BY <1>1, <1>2, <1>3, <1>5, NoneAssumption
    DEF IndInv, TypeOK, RotationRevokes, Linked
<1>8. OnlyLateSessionsSurvive'
  <2>1. r.version = password[r.user] \/ n \in late'
      BY <1>4 DEF IndInv, Refreshing
  <2>. QED
      BY <1>1, <1>3, <1>4, <1>5, <2>1 DEF IndInv, TypeOK, OnlyLateSessionsSurvive
<1>9. Linked'
    BY <1>1, <1>3 DEF IndInv, TypeOK, Linked
<1>10. Named'
    BY <1>1, <1>3, NoneAssumption DEF IndInv, TypeOK, Named, Idle
<1>11. Refreshing'
    BY <1>1, <1>3, <1>4, NoneAssumption DEF IndInv, TypeOK, Named, Refreshing, Idle
<1>12. Resetting'
  <2>. SUFFICES ASSUME NEW g \in Handlers, request'[g].op \in {"sweep", "finish"}
                PROVE  /\ password[request[g].user] < MaxVersion
                       /\ \A k \in Handlers \ {g} :
                              request'[k].op \in {"sweep", "finish"} =>
                                  request'[k].user # request[g].user
                       /\ request[g].op = "finish" =>
                            /\ \A t \in request[g].found : owner'[t] = request[g].user
                            /\ \A t \in LiveOf(request[g].user)' :
                                   t \in request[g].found \/ t \in late'
      BY <1>3 DEF IndInv, TypeOK, Resetting, Idle, LiveOf
  <2>1. /\ g # h
        /\ request'[g] = request[g]
        /\ request[g] \in Requests
      BY <1>3 DEF IndInv, TypeOK, Idle
  <2>2. \A k \in Handlers : request'[k].op \in {"sweep", "finish"} => request'[k] = request[k]
      BY <1>3 DEF IndInv, TypeOK, Idle
  <2>3. CASE request[g].op = "finish"
    <3>1. \A t \in request[g].found : owner'[t] = request[g].user
        BY <1>1, <1>3, <2>1, <2>3, NoneAssumption
        DEF IndInv, TypeOK, Named, Resetting, Requests
    <3>2. \A t \in LiveOf(request[g].user)' : t \in request[g].found \/ t \in late'
        BY <1>1, <1>3, <1>4, <1>5, <2>1, <2>3 DEF IndInv, TypeOK, Resetting, LiveOf
    <3>. QED
        BY <2>1, <2>2, <3>1, <3>2 DEF IndInv, Resetting
  <2>. QED
      BY <2>1, <2>2, <2>3 DEF IndInv, Resetting
<1>. QED
    BY <1>6, <1>7, <1>8, <1>9, <1>10, <1>11, <1>12 DEF IndInv

LEMMA LoginCommitKeeps ==
    ASSUME IndInv, NEW h \in Handlers, NEW n \in Refreshes, LoginCommit(h, n)
    PROVE  IndInv'
    BY NewTokenKeeps DEF LoginCommit

LEMMA RefreshCommitKeeps ==
    ASSUME IndInv, NEW h \in Handlers, NEW n \in Refreshes, RefreshCommit(h, n)
    PROVE  IndInv'
<1>1. request[h].token \in Refreshes
    BY DEF IndInv, Named, RefreshCommit
<1>. QED
    BY <1>1, NewTokenKeeps DEF RefreshCommit

\* A token that is revoked makes no obligation harder.
LEMMA LogoutCommitKeeps ==
    ASSUME IndInv, NEW h \in Handlers, LogoutCommit(h)
    PROVE  IndInv'
<1>1. /\ request[h].token \in Refreshes
      /\ owner[request[h].token] # None
    BY NoneAssumption DEF IndInv, Named, LogoutCommit
<1>2. TypeOK'
    BY <1>1, BoundsAssumption
    DEF IndInv, TypeOK, LogoutCommit, historyVars, Requests, Idle, Versions
<1>3. /\ RotationRevokes'
      /\ OnlyLateSessionsSurvive'
      /\ Linked'
    BY DEF IndInv, TypeOK, RotationRevokes, OnlyLateSessionsSurvive, Linked,
           LogoutCommit, historyVars
<1>4. Named' /\ Refreshing'
    BY DEF IndInv, TypeOK, Named, Refreshing, LogoutCommit, historyVars, Idle
<1>5. Resetting'
    BY DEF IndInv, TypeOK, Resetting, LiveOf, LogoutCommit, historyVars, Idle
<1>. QED
    BY <1>2, <1>3, <1>4, <1>5 DEF IndInv

\* The password changes: every live token of its user was found or is late,
\* and every session still being opened or refreshed becomes late.
LEMMA ResetCommitKeeps ==
    ASSUME IndInv, NEW h \in Handlers, ResetCommit(h)
    PROVE  IndInv'
<1>. DEFINE r == request[h]
            u == r.user
<1>1. /\ r \in Requests
      /\ u \in Users
      /\ r.link \in Resets
      /\ resetFor[r.link] = u
      /\ u # None
      /\ password[u] < MaxVersion
      /\ \A t \in r.found : owner[t] = u
      /\ \A t \in LiveOf(u) : t \in r.found \/ t \in late
      /\ \A g \in Handlers \ {h} :
            request[g].op \in {"sweep", "finish"} => request[g].user # u
    BY NoneAssumption DEF IndInv, TypeOK, Named, Resetting, ResetCommit
<1>2. /\ password' = [password EXCEPT ![u] = @ + 1]
      /\ revoked' = revoked \union r.found
      /\ used' = used \union {r.link}
      /\ UNCHANGED <<owner, lapsed, resetFor, parent, under, late>>
    BY DEF ResetCommit, historyVars
<1>3. /\ request'[h] = Idle
      /\ \A g \in Handlers \ {h} :
            \/ request'[g] = request[g]
            \/ request'[g] = [request[g] EXCEPT !.late = TRUE]
      /\ \A g \in Handlers \ {h} :
            request[g].op \in {"login", "refresh", "rotate"} /\ request[g].user = u =>
                request'[g].late
    BY DEF ResetCommit, IndInv, TypeOK, Requests
<1>4. request' \in [Handlers -> Requests]
  <2>1. Idle \in Requests
      BY BoundsAssumption DEF Requests, Idle, Versions
  <2>2. \A q \in Requests : [q EXCEPT !.late = TRUE] \in Requests
      BY DEF Requests
  <2>3. DOMAIN request' = Handlers /\ request' = [g \in Handlers |-> request'[g]]
      BY DEF ResetCommit
  <2>. QED
      BY <1>3, <2>1, <2>2, <2>3 DEF IndInv, TypeOK
<1>5. \A g \in Handlers \ {h} :
          /\ request'[g].op = request[g].op
          /\ request'[g].user = request[g].user
          /\ request'[g].token = request[g].token
          /\ request'[g].link = request[g].link
          /\ request'[g].version = request[g].version
          /\ request'[g].found = request[g].found
          /\ request[g].late => request'[g].late
  <2>. SUFFICES ASSUME NEW g \in Handlers \ {h}, NEW q \in Requests, q = request[g],
                       request'[g] = q \/ request'[g] = [q EXCEPT !.late = TRUE]
                PROVE  /\ request'[g].op = q.op
                       /\ request'[g].user = q.user
                       /\ request'[g].token = q.token
                       /\ request'[g].link = q.link
                       /\ request'[g].version = q.version
                       /\ request'[g].found = q.found
                       /\ q.late => request'[g].late
      BY <1>3 DEF IndInv, TypeOK
  <2>. QED
      BY DEF Requests
<1>6. TypeOK'
  <2>1. password' \in [Users -> Versions]
      BY <1>1, <1>2, BoundsAssumption DEF IndInv, TypeOK, Versions
  <2>2. revoked' \subseteq {t \in Refreshes : owner'[t] # None}
      BY <1>1, <1>2 DEF IndInv, TypeOK, Requests
  <2>. QED
      BY <1>1, <1>2, <1>4, <2>1, <2>2 DEF IndInv, TypeOK
<1>7. RotationRevokes' /\ Linked'
    BY <1>2 DEF IndInv, RotationRevokes, Linked
<1>8. OnlyLateSessionsSurvive'
    BY <1>1, <1>2 DEF IndInv, TypeOK, OnlyLateSessionsSurvive, LiveOf
<1>9. Named'
    BY <1>2, <1>3, <1>5 DEF IndInv, Named, Idle
<1>10. Refreshing'
    BY <1>2, <1>3, <1>5 DEF IndInv, TypeOK, Named, Refreshing, Idle
<1>11. Resetting'
  <2>1. \A g \in Handlers : request'[g].op \in {"sweep", "finish"} =>
            /\ g # h
            /\ request[g].user # u
            /\ password'[request[g].user] = password[request[g].user]
      BY <1>1, <1>2, <1>3, <1>5 DEF IndInv, TypeOK, Named, Idle
  <2>2. \A v \in Users : LiveOf(v)' \subseteq LiveOf(v)
      BY <1>2 DEF LiveOf
  <2>. QED
      BY <1>2, <1>5, <2>1, <2>2 DEF IndInv, Named, Resetting
<1>. QED
    BY <1>6, <1>7, <1>8, <1>9, <1>10, <1>11 DEF IndInv

-----------------------------------------------------------------------------
(***************************************************************************)
(* The theorems.                                                           *)
(***************************************************************************)

\* The invariant is inductive.
LEMMA StepKeeps == IndInv /\ [Next]_vars => IndInv'
<1>. SUFFICES ASSUME IndInv, [Next]_vars PROVE IndInv'
    OBVIOUS
<1>1. CASE UserStep
    BY <1>1, LoginReadKeeps, RefreshReadKeeps, LogoutReadKeeps,
       ForgotPasswordKeeps, ResetReadKeeps DEF UserStep
<1>2. ASSUME NEW h \in Handlers, HandlerStep(h) PROVE IndInv'
    BY <1>2, LoginCommitKeeps, RefreshRevokeKeeps, RefreshCommitKeeps,
       LogoutCommitKeeps, ResetUpdateKeeps, ResetSweepKeeps, ResetCommitKeeps,
       AbortKeeps DEF HandlerStep
<1>3. ASSUME NEW t \in Refreshes \union Resets, TokenLapses(t) PROVE IndInv'
    BY <1>3, TokenLapsesKeeps
<1>4. CASE UNCHANGED vars
  <2>1. TypeOK'
      BY <1>4 DEF IndInv, TypeOK, vars, tokenVars, historyVars
  <2>. QED
      BY <1>4, <2>1 DEF IndInv, RotationRevokes, OnlyLateSessionsSurvive, Linked, Named,
             Refreshing, Resetting, LiveOf, vars, tokenVars, historyVars
<1>. QED
    BY <1>1, <1>2, <1>3, <1>4 DEF Next

THEOREM SessionsInvariant == Spec => []IndInv
<1>. QED
    BY InitHolds, StepKeeps, PTL DEF Spec

\* Types, for any users, tokens and requests at the same time.
THEOREM SessionsTypeCorrect == Spec => []TypeOK
<1>1. IndInv => TypeOK
    BY DEF IndInv
<1>. QED
    BY <1>1, SessionsInvariant, PTL

\* However many refreshes, logouts and resets of a token race, a token that
\* was replaced is revoked and its successor continues the same session.
THEOREM ReplacedTokensAreDead == Spec => []RotationRevokes
<1>1. IndInv => RotationRevokes
    BY DEF IndInv
<1>. QED
    BY <1>1, SessionsInvariant, PTL

\* However many requests are in flight, a reset of the password ends every
\* session that no request served at the same time opens or continues.
THEOREM ResetEndsSessions == Spec => []OnlyLateSessionsSurvive
<1>1. IndInv => OnlyLateSessionsSurvive
    BY DEF IndInv
<1>. QED
    BY <1>1, SessionsInvariant, PTL

=============================================================================
