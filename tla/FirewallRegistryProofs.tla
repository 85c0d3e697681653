------------------------ MODULE FirewallRegistryProofs ------------------------
(***************************************************************************)
(* Theorems about FirewallRegistry, for every set of firewalls, tokens and *)
(* concurrent requests.  The invariant speaks of the copies requests hold: *)
(* an UPDATE takes each column from such a copy or leaves the row's own.   *)
(***************************************************************************)
EXTENDS FirewallRegistry, TLAPS

\* What a row, or a copy of one, shows of its firewall was once true.
Shows(row, f) ==
    /\ row.status # "absent"
    /\ row.lastSeen \in checkIns[f] \union {0}
    /\ row.status = "active" => checkIns[f] # {}

\* A row that was never inserted is not deleted, and has no token.
NoGhosts ==
    /\ \A f \in Firewalls : firewall[f].deleted => firewall[f].status # "absent"
    /\ \A t \in Tokens : tokenOf[t] # None => firewall[tokenOf[t]].status # "absent"

\* Requests are about rows that exist, hold what the row once showed, and
\* revoke tokens of their own firewall.
InFlight ==
    \A h \in Handlers :
        LET r == request[h] IN
        /\ r.op # "idle" => r.firewall \in Firewalls /\ firewall[r.firewall].status # "absent"
        /\ r.op \in {"rename", "delete", "revoke", "update"} => Shows(r.copy, r.firewall)
        /\ r.op \in {"rotate", "replace"} => ~r.copy.deleted
        /\ r.op = "check_in" => r.tokens = {}
        /\ \A t \in r.tokens : tokenOf[t] = r.firewall /\ r.firewall # None

IndInv ==
    /\ TypeOK
    /\ SeenWasCheckIn
    /\ NoGhosts
    /\ InFlight

-----------------------------------------------------------------------------

\* The UPDATE of a row takes each column from the copy or leaves it alone.
LEMMA UpdatedRow ==
    ASSUME NEW current \in Rows, NEW selected \in Rows, NEW wanted \in Rows
    PROVE  LET row == Updated(current, selected, wanted) IN
           /\ row \in Rows
           /\ row.status \in {current.status, wanted.status}
           /\ row.lastSeen \in {current.lastSeen, wanted.lastSeen}
           /\ current.deleted /\ wanted.deleted => row.deleted
           /\ row.deleted => current.deleted \/ wanted.deleted
<1>. DEFINE row == Updated(current, selected, wanted)
<1>1. DOMAIN current = {"name", "status", "lastSeen", "deleted"}
    BY DEF Rows
<1>2. row = [name |-> IF wanted.name # selected.name THEN wanted.name ELSE current.name,
             status |-> IF wanted.status # selected.status THEN wanted.status ELSE current.status,
             lastSeen |-> IF wanted.lastSeen # selected.lastSeen
                          THEN wanted.lastSeen ELSE current.lastSeen,
             deleted |-> IF wanted.deleted # selected.deleted
                         THEN wanted.deleted ELSE current.deleted]
    BY <1>1 DEF Updated
<1>. QED
    BY <1>2 DEF Rows

LEMMA InitHolds == Init => IndInv
<1>. SUFFICES ASSUME Init PROVE IndInv
    OBVIOUS
<1>1. NoRow \in Rows
    BY MaxSeenAssumption DEF NoRow, Rows
<1>2. Idle \in Requests
    BY <1>1 DEF Idle, Requests
<1>3. TypeOK
    BY <1>1, <1>2, MaxSeenAssumption DEF Init, TypeOK
<1>4. SeenWasCheckIn /\ NoGhosts /\ InFlight
    BY DEF Init, SeenWasCheckIn, NoGhosts, InFlight, NoRow, Idle
<1>. QED
    BY <1>3, <1>4 DEF IndInv

\* Only one request changes: what is left to show is about that request.
LEMMA RowsKept ==
    ASSUME IndInv, UNCHANGED <<firewall, tokenOf, active, clock, checkIns>>,
           NEW h \in Handlers, NEW r \in Requests, request' = [request EXCEPT ![h] = r],
           /\ r.op # "idle" => r.firewall \in Firewalls /\ firewall[r.firewall].status # "absent"
           /\ r.op \in {"rename", "delete", "revoke", "update"} => Shows(r.copy, r.firewall)
           /\ r.op \in {"rotate", "replace"} => ~r.copy.deleted
           /\ r.op = "check_in" => r.tokens = {}
           /\ \A t \in r.tokens : tokenOf[t] = r.firewall /\ r.firewall # None
    PROVE  IndInv'
<1>1. TypeOK'
    BY DEF IndInv, TypeOK
<1>2. SeenWasCheckIn' /\ NoGhosts'
    BY DEF IndInv, SeenWasCheckIn, NoGhosts
<1>3. InFlight'
    BY DEF IndInv, TypeOK, InFlight, Shows
<1>. QED
    BY <1>1, <1>2, <1>3 DEF IndInv

LEMMA BeginKeeps ==
    ASSUME IndInv, NEW h \in Handlers, NEW f \in Firewalls, NEW copy \in Rows,
           NEW op \in {"rename", "delete", "rotate"}, Begin(h, op, f, copy),
           op = "rotate" => ~copy.deleted,
           copy.status = firewall[f].status, copy.lastSeen = firewall[f].lastSeen
    PROVE  IndInv'
<1>. DEFINE r == [Idle EXCEPT !.op = op, !.firewall = f, !.copy = copy]
<1>1. NoRow \in Rows
    BY MaxSeenAssumption DEF NoRow, Rows
<1>2. r \in Requests
    BY <1>1 DEF Idle, Requests
<1>3. Shows(copy, f)
    BY DEF IndInv, SeenWasCheckIn, Shows, Begin, Exists
<1>4. r.op = op /\ r.firewall = f /\ r.copy = copy /\ r.tokens = {}
    BY DEF Idle
<1>. QED
    BY <1>2, <1>3, <1>4, RowsKept DEF Begin, Exists

LEMMA ReadsKeep ==
    ASSUME IndInv, NEW h \in Handlers, NEW f \in Firewalls,
           \/ \E name \in Names : RenameFirewall(h, f, name)
           \/ DeleteFirewall(h, f)
           \/ RotateToken(h, f)
    PROVE  IndInv'
<1>1. firewall[f] \in Rows
    BY DEF IndInv, TypeOK
<1>2. ASSUME NEW name \in Names, RenameFirewall(h, f, name) PROVE IndInv'
    <2>1. [firewall[f] EXCEPT !.name = name] \in Rows
        BY <1>1 DEF Rows
    <2>. QED
        BY <1>1, <1>2, <2>1, BeginKeeps DEF RenameFirewall, Rows
<1>3. CASE DeleteFirewall(h, f)
    <2>1. [firewall[f] EXCEPT !.deleted = TRUE] \in Rows
        BY <1>1 DEF Rows
    <2>. QED
        BY <1>1, <1>3, <2>1, BeginKeeps DEF DeleteFirewall, Rows
<1>4. CASE RotateToken(h, f)
    BY <1>1, <1>4, BeginKeeps DEF RotateToken, Begin, Exists
<1>. QED
    BY <1>2, <1>3, <1>4

LEMMA RevokeAllKeeps ==
    ASSUME IndInv, NEW h \in Handlers, RevokeAll(h)
    PROVE  IndInv'
<1>. DEFINE r == [request[h] EXCEPT
                    !.op = IF request[h].op = "delete" THEN "revoke" ELSE "replace",
                    !.tokens = ActiveOf(request[h].firewall)]
<1>1. request[h] \in Requests
    BY DEF IndInv, TypeOK
<1>2. ActiveOf(request[h].firewall) \subseteq Tokens
    BY DEF IndInv, TypeOK, ActiveOf
<1>3. request' = [request EXCEPT ![h] = r]
    BY DEF IndInv, TypeOK, RevokeAll
<1>4. /\ r \in Requests
      /\ r.op = IF request[h].op = "delete" THEN "revoke" ELSE "replace"
      /\ r.firewall = request[h].firewall /\ r.copy = request[h].copy
      /\ r.tokens = ActiveOf(request[h].firewall)
    BY <1>1, <1>2 DEF Requests
<1>5. request[h].op \in {"delete", "rotate"} /\ request[h].firewall \in Firewalls
    BY DEF IndInv, InFlight, RevokeAll
<1>6. \A t \in r.tokens : tokenOf[t] = r.firewall
    BY <1>4 DEF ActiveOf
<1>. HIDE DEF r
<1>7. UNCHANGED <<firewall, tokenOf, active, clock, checkIns>>
    BY DEF RevokeAll
<1>8. /\ r.op # "idle" => r.firewall \in Firewalls /\ firewall[r.firewall].status # "absent"
      /\ r.op \in {"rename", "delete", "revoke", "update"} => Shows(r.copy, r.firewall)
      /\ r.op \in {"rotate", "replace"} => ~r.copy.deleted
    BY <1>4, <1>5 DEF IndInv, InFlight
<1>. QED
    BY <1>3, <1>4, <1>5, <1>6, <1>7, <1>8, NoneAssumption, RowsKept

LEMMA SelectKeeps ==
    ASSUME IndInv, NEW h \in Handlers, SelectForDelete(h) \/ SelectForRename(h)
    PROVE  IndInv'
<1>. DEFINE r == [request[h] EXCEPT !.op = "update", !.row = firewall[request[h].firewall]]
<1>1. request[h] \in Requests /\ request[h].op \in {"rename", "revoke"}
    BY DEF IndInv, TypeOK, SelectForDelete, SelectForRename
<1>2. firewall[request[h].firewall] \in Rows
    BY <1>1 DEF IndInv, TypeOK, InFlight
<1>3. request' = [request EXCEPT ![h] = r]
    BY DEF IndInv, TypeOK, SelectForDelete, SelectForRename
<1>4. /\ r \in Requests /\ r.op = "update" /\ r.firewall = request[h].firewall
      /\ r.copy = request[h].copy /\ r.tokens = request[h].tokens
    BY <1>1, <1>2 DEF Requests
<1>. HIDE DEF r
<1>5. UNCHANGED <<firewall, tokenOf, active, clock, checkIns>>
    BY DEF SelectForDelete, SelectForRename
<1>6. /\ r.firewall \in Firewalls /\ firewall[r.firewall].status # "absent"
      /\ Shows(r.copy, r.firewall)
      /\ \A t \in r.tokens : tokenOf[t] = r.firewall /\ r.firewall # None
    BY <1>1, <1>4 DEF IndInv, InFlight
<1>. QED
    BY <1>3, <1>4, <1>5, <1>6, RowsKept

LEMMA AuthenticateKeeps ==
    ASSUME IndInv, NEW h \in Handlers, NEW t \in Tokens, Authenticate(h, t)
    PROVE  IndInv'
<1>. DEFINE r == [Idle EXCEPT !.op = "check_in", !.firewall = tokenOf[t]]
<1>1. NoRow \in Rows
    BY MaxSeenAssumption DEF NoRow, Rows
<1>2. tokenOf[t] \in Firewalls /\ firewall[tokenOf[t]].status # "absent"
    BY DEF IndInv, TypeOK, NoGhosts, Authenticate
<1>3. r \in Requests
    BY <1>1, <1>2 DEF Idle, Requests
<1>4. r.op = "check_in" /\ r.firewall = tokenOf[t] /\ r.tokens = {}
    BY DEF Idle
<1>. QED
    BY <1>2, <1>3, <1>4, RowsKept DEF Authenticate

LEMMA AbortKeeps ==
    ASSUME IndInv, NEW h \in Handlers, Abort(h)
    PROVE  IndInv'
<1>1. NoRow \in Rows
    BY MaxSeenAssumption DEF NoRow, Rows
<1>2. Idle \in Requests
    BY <1>1 DEF Idle, Requests
<1>. QED
    BY <1>2, RowsKept DEF Abort, Idle

-----------------------------------------------------------------------------
(***************************************************************************)
(* The commits.                                                            *)
(***************************************************************************)

LEMMA CreateFirewallKeeps ==
    ASSUME IndInv, NEW f \in Firewalls, NEW name \in Names, NEW t \in Tokens,
           CreateFirewall(f, name, t)
    PROVE  IndInv'
<1>. DEFINE row == [NoRow EXCEPT !.name = name, !.status = "pending"]
<1>1. NoRow \in Rows /\ NoRow.lastSeen = 0 /\ ~NoRow.deleted
    BY MaxSeenAssumption DEF NoRow, Rows
<1>2. row \in Rows
    BY <1>1 DEF Rows
<1>3. firewall' = [firewall EXCEPT ![f] = row]
    BY DEF CreateFirewall
<1>4. row.status = "pending" /\ row.lastSeen = 0 /\ ~row.deleted
    BY <1>1 DEF Rows
<1>. HIDE DEF row
<1>5. f # None
    BY NoneAssumption
<1>6. TypeOK'
    BY <1>2, <1>3, <1>5 DEF IndInv, TypeOK, CreateFirewall
<1>7. SeenWasCheckIn' /\ NoGhosts'
    BY <1>3, <1>4, <1>5 DEF IndInv, TypeOK, SeenWasCheckIn, NoGhosts, CreateFirewall
<1>8. InFlight'
    BY <1>3, <1>4 DEF IndInv, TypeOK, InFlight, Shows, CreateFirewall
<1>. QED
    BY <1>6, <1>7, <1>8 DEF IndInv

LEMMA CommitUpdateKeeps ==
    ASSUME IndInv, NEW h \in Handlers, CommitUpdate(h)
    PROVE  IndInv'
<1>. DEFINE f == request[h].firewall
            row == Updated(firewall[f], request[h].row, request[h].copy)
<1>1. /\ f \in Firewalls
      /\ firewall[f] \in Rows /\ request[h].row \in Rows /\ request[h].copy \in Rows
      /\ firewall[f].status # "absent"
      /\ Shows(request[h].copy, f)
    BY DEF IndInv, TypeOK, InFlight, CommitUpdate, Requests
<1>2. /\ row \in Rows
      /\ row.status \in {firewall[f].status, request[h].copy.status}
      /\ row.lastSeen \in {firewall[f].lastSeen, request[h].copy.lastSeen}
    BY <1>1, UpdatedRow
<1>3. firewall' = [firewall EXCEPT ![f] = row]
    BY DEF CommitUpdate
<1>4. NoRow \in Rows
    BY MaxSeenAssumption DEF NoRow, Rows
<1>5. Idle \in Requests
    BY <1>4 DEF Idle, Requests
<1>. HIDE DEF row
<1>6. TypeOK'
    BY <1>1, <1>2, <1>3, <1>5 DEF IndInv, TypeOK, CommitUpdate
<1>7. row.status # "absent"
    BY <1>1, <1>2 DEF Shows
<1>8. SeenWasCheckIn'
    BY <1>1, <1>2, <1>3 DEF IndInv, TypeOK, SeenWasCheckIn, Shows, CommitUpdate
<1>9. NoGhosts'
    BY <1>1, <1>3, <1>7 DEF IndInv, TypeOK, NoGhosts, CommitUpdate
<1>10. InFlight'
    BY <1>1, <1>3, <1>7 DEF IndInv, TypeOK, InFlight, Shows, CommitUpdate, Idle
<1>. QED
    BY <1>6, <1>8, <1>9, <1>10 DEF IndInv

LEMMA CommitRotateKeeps ==
    ASSUME IndInv, NEW h \in Handlers, NEW t \in Tokens, CommitRotate(h, t)
    PROVE  IndInv'
<1>1. NoRow \in Rows
    BY MaxSeenAssumption DEF NoRow, Rows
<1>2. Idle \in Requests
    BY <1>1 DEF Idle, Requests
<1>3. request[h].firewall \in Firewalls /\ firewall[request[h].firewall].status # "absent"
    BY DEF IndInv, TypeOK, InFlight, CommitRotate, Requests
<1>4. TypeOK'
    BY <1>2, <1>3, NoneAssumption DEF IndInv, TypeOK, CommitRotate
<1>5. SeenWasCheckIn' /\ NoGhosts'
    BY <1>3 DEF IndInv, TypeOK, SeenWasCheckIn, NoGhosts, CommitRotate
<1>6. InFlight'
    BY <1>3 DEF IndInv, TypeOK, InFlight, Shows, CommitRotate, Idle
<1>. QED
    BY <1>4, <1>5, <1>6 DEF IndInv

LEMMA CommitCheckInKeeps ==
    ASSUME IndInv, NEW h \in Handlers, CommitCheckIn(h)
    PROVE  IndInv'
<1>. DEFINE f == request[h].firewall
            row == [firewall[f] EXCEPT !.status = "active", !.lastSeen = clock + 1]
<1>1. NoRow \in Rows
    BY MaxSeenAssumption DEF NoRow, Rows
<1>2. Idle \in Requests
    BY <1>1 DEF Idle, Requests
<1>3. f \in Firewalls /\ firewall[f] \in Rows
    BY DEF IndInv, TypeOK, InFlight, CommitCheckIn, Requests
<1>4. clock + 1 \in 1..MaxSeen
    BY MaxSeenAssumption DEF IndInv, TypeOK, CommitCheckIn
<1>5. /\ row \in Rows
      /\ row.status = "active" /\ row.lastSeen = clock + 1
      /\ row.deleted = firewall[f].deleted
      /\ firewall' = [firewall EXCEPT ![f] = row]
    <2>1. clock + 1 \in 0..MaxSeen
        BY <1>4, MaxSeenAssumption
    <2>2. row \in Rows /\ row.status = "active" /\ row.lastSeen = clock + 1
          /\ row.deleted = firewall[f].deleted
        BY <1>3, <2>1 DEF Rows
    <2>3. firewall' = [firewall EXCEPT ![f] = row]
        BY <1>3 DEF CommitCheckIn, IndInv, TypeOK
    <2>. QED
        BY <2>2, <2>3
<1>. HIDE DEF row
<1>6. TypeOK'
    BY <1>2, <1>3, <1>4, <1>5, MaxSeenAssumption DEF IndInv, TypeOK, CommitCheckIn
<1>7. SeenWasCheckIn'
    BY <1>3, <1>5 DEF IndInv, TypeOK, SeenWasCheckIn, CommitCheckIn
<1>8. NoGhosts'
    BY <1>3, <1>5 DEF IndInv, TypeOK, NoGhosts, CommitCheckIn, SeenWasCheckIn
<1>9. InFlight'
    BY <1>3, <1>5 DEF IndInv, TypeOK, InFlight, Shows, CommitCheckIn, Idle
<1>. QED
    BY <1>6, <1>7, <1>8, <1>9 DEF IndInv

LEMMA StepKeeps == IndInv /\ [Next]_vars => IndInv'
<1>. SUFFICES ASSUME IndInv, [Next]_vars PROVE IndInv'
    OBVIOUS
<1>1. CASE UserStep
    BY <1>1, CreateFirewallKeeps, ReadsKeep DEF UserStep
<1>2. CASE AgentStep
    BY <1>2, AuthenticateKeeps DEF AgentStep
<1>3. ASSUME NEW h \in Handlers, HandlerStep(h) PROVE IndInv'
    BY <1>3, RevokeAllKeeps, SelectKeeps, CommitUpdateKeeps, CommitRotateKeeps,
       CommitCheckInKeeps, AbortKeeps DEF HandlerStep
<1>4. CASE UNCHANGED vars
    BY <1>4 DEF vars, IndInv, TypeOK, SeenWasCheckIn, NoGhosts, InFlight, Shows
<1>. QED
    BY <1>1, <1>2, <1>3, <1>4 DEF Next

THEOREM RegistryInvariance == Spec => []IndInv
    BY InitHolds, StepKeeps, PTL DEF Spec

-----------------------------------------------------------------------------
(***************************************************************************)
(* What the runs check.                                                    *)
(***************************************************************************)

\* Every state is well typed: requests hold rows, tokens belong to firewalls.
THEOREM RegistryTypeCorrect == Spec => []TypeOK
    BY RegistryInvariance, PTL DEF IndInv

\* What update() writes back was once true of the firewall, however many stale
\* copies are written.
THEOREM SeenWasCheckInAlways == Spec => []SeenWasCheckIn
    BY RegistryInvariance, PTL DEF IndInv

\* A step that ends a request revokes what the request found, and only a token
\* that is new becomes active.
LEMMA StepRevokesForGood ==
    ASSUME IndInv, [Next]_vars
    PROVE  [/\ \A t \in active' \ active : tokenOf[t] = None
            /\ \A h \in Handlers : Commits(h) => request[h].tokens \intersect active' = {}]_vars
<1>. DEFINE Revokes == /\ \A t \in active' \ active : tokenOf[t] = None
                      /\ \A h \in Handlers :
                            Commits(h) => request[h].tokens \intersect active' = {}
<1>. SUFFICES ASSUME Next PROVE Revokes
    BY DEF vars
<1>1. ASSUME UNCHANGED <<active, firewall>> PROVE Revokes
    BY <1>1 DEF Commits
<1>2. ASSUME UNCHANGED request, NEW t \in Tokens, tokenOf[t] = None,
             active' = active \union {t}
      PROVE  Revokes
    BY <1>2 DEF Commits
<1>3. ASSUME NEW g \in Handlers, request' = [request EXCEPT ![g] = Idle],
             active' \subseteq active, active' \intersect request[g].tokens = {}
      PROVE  Revokes
    BY <1>3 DEF Commits, IndInv, TypeOK
<1>4. CASE UserStep
    BY <1>1, <1>2, <1>4
       DEF UserStep, CreateFirewall, RenameFirewall, DeleteFirewall, RotateToken, Begin
<1>5. CASE AgentStep
    BY <1>1, <1>5 DEF AgentStep, Authenticate
<1>6. ASSUME NEW h \in Handlers, HandlerStep(h) PROVE Revokes
    <2>1. CASE RevokeAll(h) \/ SelectForDelete(h) \/ SelectForRename(h) \/ Abort(h)
        BY <1>1, <2>1 DEF RevokeAll, SelectForDelete, SelectForRename, Abort
    <2>2. CASE CommitUpdate(h)
        BY <1>3, <2>2 DEF CommitUpdate
    <2>3. ASSUME NEW t \in Tokens, CommitRotate(h, t) PROVE Revokes
        <3>1. t \notin request[h].tokens
            BY <2>3 DEF CommitRotate, IndInv, InFlight
        <3>. QED
            BY <2>3, <3>1 DEF CommitRotate, Commits, IndInv, TypeOK
    <2>4. CASE CommitCheckIn(h)
        <3>1. request[h].tokens = {}
            BY <2>4 DEF CommitCheckIn, IndInv, InFlight
        <3>. QED
            BY <1>3, <2>4, <3>1 DEF CommitCheckIn
    <2>. QED
        BY <1>6, <2>1, <2>2, <2>3, <2>4 DEF HandlerStep
<1>. QED
    BY <1>4, <1>5, <1>6 DEF Next

\* A rotation or a deletion leaves none of the tokens it found active, and no
\* revoked token is ever active again.
THEOREM RevocationIsFinal == Spec => RevokedForGood
<1>1. IndInv /\ [Next]_vars =>
        [/\ \A t \in active' \ active : tokenOf[t] = None
         /\ \A h \in Handlers : Commits(h) => request[h].tokens \intersect active' = {}]_vars
    BY StepRevokesForGood
<1>. QED
    BY <1>1, RegistryInvariance, PTL DEF Spec, RevokedForGood

\* A firewall that is settled stays so: what could undo its deletion, or add a
\* token, has read it before the deletion and is not deleting it.
LEMMA StepKeepsSettled ==
    ASSUME IndInv, [Next]_vars, NEW f \in Firewalls, Settled(f)
    PROVE  Settled(f)' /\ ActiveOf(f)' \subseteq ActiveOf(f)
<1>. DEFINE Stays == Settled(f)' /\ ActiveOf(f)' \subseteq ActiveOf(f)
<1>1. firewall[f].deleted /\ firewall[f].status # "absent" /\ f # None
    BY NoneAssumption DEF Settled, IndInv, NoGhosts
<1>2. \A h \in Handlers : request[h].firewall = f => request[h].op \notin {"rotate", "replace"}
    BY DEF Settled, IndInv, InFlight
<1>3. ASSUME NEW h \in Handlers, NEW r \in Requests, request' = [request EXCEPT ![h] = r],
             r.firewall = f => r.op = "check_in" \/ r.copy.deleted,
             firewall'[f].deleted, UNCHANGED tokenOf, active' \subseteq active
      PROVE  Stays
    BY <1>3 DEF Settled, ActiveOf, IndInv, TypeOK
<1>4. NoRow \in Rows
    BY MaxSeenAssumption DEF NoRow, Rows
<1>5. Idle \in Requests /\ Idle.firewall = None
    BY <1>4 DEF Idle, Requests
<1>6. ASSUME NEW g \in Firewalls, NEW name \in Names, NEW t \in Tokens,
             CreateFirewall(g, name, t)
      PROVE  Stays
    <2>1. g # f
        BY <1>1, <1>6 DEF CreateFirewall
    <2>. QED
        BY <1>6, <2>1 DEF CreateFirewall, Settled, ActiveOf, IndInv, TypeOK
<1>7. ASSUME NEW h \in Handlers, NEW g \in Firewalls, NEW copy \in Rows,
             NEW op \in {"rename", "delete", "rotate"}, Begin(h, op, g, copy)
      PROVE  Stays
    <2>. DEFINE r == [Idle EXCEPT !.op = op, !.firewall = g, !.copy = copy]
    <2>1. g # f
        BY <1>1, <1>7 DEF Begin, Exists
    <2>2. r \in Requests /\ r.firewall = g
        BY <1>5 DEF Requests
    <2>3. request' = [request EXCEPT ![h] = r] /\ UNCHANGED <<firewall, tokenOf, active>>
        BY <1>7 DEF Begin
    <2>. HIDE DEF r
    <2>. QED
        BY <1>1, <1>3, <2>1, <2>2, <2>3
<1>8. CASE UserStep
    <2>1. firewall \in [Firewalls -> Rows]
        BY DEF IndInv, TypeOK
    <2>2. \A g \in Firewalls, name \in Names :
             [firewall[g] EXCEPT !.name = name] \in Rows
        BY <2>1 DEF Rows
    <2>3. \A g \in Firewalls : [firewall[g] EXCEPT !.deleted = TRUE] \in Rows
        BY <2>1 DEF Rows
    <2>. QED
        BY <1>6, <1>7, <1>8, <2>1, <2>2, <2>3
           DEF UserStep, RenameFirewall, DeleteFirewall, RotateToken
<1>9. ASSUME NEW h \in Handlers, NEW t \in Tokens, Authenticate(h, t) PROVE Stays
    <2>. DEFINE r == [Idle EXCEPT !.op = "check_in", !.firewall = tokenOf[t]]
    <2>1. r \in Requests /\ r.op = "check_in"
        BY <1>5 DEF Requests, IndInv, TypeOK
    <2>2. request' = [request EXCEPT ![h] = r] /\ UNCHANGED <<firewall, tokenOf, active>>
        BY <1>9 DEF Authenticate
    <2>. HIDE DEF r
    <2>. QED
        BY <1>1, <1>3, <2>1, <2>2
<1>10. ASSUME NEW h \in Handlers, NEW r \in Requests, request' = [request EXCEPT ![h] = r],
              r.firewall = request[h].firewall, r.copy = request[h].copy,
              request[h].op # "check_in", UNCHANGED <<firewall, tokenOf, active>>
       PROVE  Stays
    BY <1>1, <1>3, <1>10 DEF Settled
<1>11. ASSUME NEW h \in Handlers, RevokeAll(h) PROVE Stays
    <2>. DEFINE r == [request[h] EXCEPT
                       !.op = IF request[h].op = "delete" THEN "revoke" ELSE "replace",
                       !.tokens = ActiveOf(request[h].firewall)]
    <2>1. r \in Requests /\ r.firewall = request[h].firewall /\ r.copy = request[h].copy
        BY DEF Requests, ActiveOf, IndInv, TypeOK
    <2>2. request' = [request EXCEPT ![h] = r] /\ UNCHANGED <<firewall, tokenOf, active>>
          /\ request[h].op # "check_in"
        BY <1>11 DEF RevokeAll, IndInv, TypeOK
    <2>. HIDE DEF r
    <2>. QED
        BY <1>10, <2>1, <2>2
<1>12. ASSUME NEW h \in Handlers, SelectForDelete(h) \/ SelectForRename(h) PROVE Stays
    <2>. DEFINE r == [request[h] EXCEPT !.op = "update", !.row = firewall[request[h].firewall]]
    <2>1. firewall[request[h].firewall] \in Rows
        BY <1>12 DEF SelectForDelete, SelectForRename, IndInv, TypeOK, InFlight
    <2>2. r \in Requests /\ r.firewall = request[h].firewall /\ r.copy = request[h].copy
        BY <2>1 DEF Requests, IndInv, TypeOK
    <2>3. request' = [request EXCEPT ![h] = r] /\ UNCHANGED <<firewall, tokenOf, active>>
          /\ request[h].op # "check_in"
        BY <1>12 DEF SelectForDelete, SelectForRename, IndInv, TypeOK
    <2>. HIDE DEF r
    <2>. QED
        BY <1>10, <2>2, <2>3
<1>13. ASSUME NEW h \in Handlers, CommitUpdate(h) PROVE Stays
    <2>. DEFINE g == request[h].firewall
                row == Updated(firewall[g], request[h].row, request[h].copy)
    <2>1. /\ g \in Firewalls /\ firewall[g] \in Rows
          /\ request[h].row \in Rows /\ request[h].copy \in Rows
        BY <1>13 DEF IndInv, TypeOK, InFlight, CommitUpdate, Requests
    <2>2. g = f => row.deleted
        BY <1>1, <1>13, <2>1, UpdatedRow DEF Settled, CommitUpdate
    <2>3. /\ firewall' = [firewall EXCEPT ![g] = row]
          /\ request' = [request EXCEPT ![h] = Idle]
          /\ UNCHANGED tokenOf /\ active' \subseteq active
        BY <1>13 DEF CommitUpdate
    <2>. HIDE DEF row
    <2>4. firewall'[f].deleted
        BY <1>1, <2>1, <2>2, <2>3 DEF IndInv, TypeOK
    <2>. QED
        BY <1>1, <1>3, <1>5, <2>3, <2>4
<1>14. ASSUME NEW h \in Handlers, NEW t \in Tokens, CommitRotate(h, t) PROVE Stays
    <2>1. request[h].firewall # f
        BY <1>2, <1>14 DEF CommitRotate
    <2>. QED
        BY <1>1, <1>5, <1>14, <2>1 DEF CommitRotate, Settled, ActiveOf, IndInv, TypeOK
<1>15. ASSUME NEW h \in Handlers, CommitCheckIn(h) PROVE Stays
    <2>1. firewall'[f].deleted = firewall[f].deleted
        BY <1>15 DEF CommitCheckIn, IndInv, TypeOK, Rows
    <2>. QED
        BY <1>1, <1>3, <1>5, <1>15, <2>1 DEF CommitCheckIn
<1>16. ASSUME NEW h \in Handlers, Abort(h) PROVE Stays
    BY <1>1, <1>3, <1>5, <1>16 DEF Abort
<1>17. CASE UNCHANGED vars
    BY <1>17 DEF vars, Settled, ActiveOf
<1>. QED
    BY <1>8, <1>9, <1>11, <1>12, <1>13, <1>14, <1>15, <1>16, <1>17
       DEF Next, AgentStep, HandlerStep

\* Once the requests that read it before its deletion have ended, a deleted
\* firewall never comes back and gets no token.
THEOREM DeletionIsFinal == Spec => DeletionSettles
<1>1. IndInv /\ [Next]_vars =>
        [\A f \in Firewalls : Settled(f) => Settled(f)' /\ ActiveOf(f)' \subseteq ActiveOf(f)]_vars
    BY StepKeepsSettled
<1>. QED
    BY <1>1, RegistryInvariance, PTL DEF Spec, DeletionSettles
=============================================================================
