-------------------------- MODULE FirewallRegistry --------------------------
(***************************************************************************)
(* The firewalls of an organization and the tokens of their agents: users  *)
(* create, rename and delete firewalls and rotate tokens while agents      *)
(* check in.                                                               *)
(*                                                                         *)
(* Every request is one READ COMMITTED transaction that locks nothing it   *)
(* reads.  RenameFirewall and DeleteFirewall read the whole Firewall,      *)
(* change a field of that copy and hand it to FirewallRepository.update,   *)
(* which SELECTs the row again and writes back every field in which the    *)
(* copy differs from it (OrmUpdate).                                       *)
(***************************************************************************)
EXTENDS Naturals, OrmUpdate

CONSTANTS
    Firewalls,      \* ids of firewalls
    Names,
    Tokens,         \* agent tokens; each is generated once
    Handlers,       \* requests the backend serves at the same time
    None,
    MaxSeen         \* bound: check-ins

ASSUME NoneAssumption == None \notin Names \union Firewalls
ASSUME MaxSeenAssumption == MaxSeen \in Nat

VARIABLES
    firewall,       \* rows of firewalls
    tokenOf,        \* agent_tokens.firewall_id, None before the INSERT
    active,         \* agent_tokens whose status is "active"
    clock,          \* time of the last check-in
    checkIns,       \* history: times of the check-ins of each firewall
    request         \* what each handler is serving

vars == <<firewall, tokenOf, active, clock, checkIns, request>>

Rows == [name : Names \union {None}, status : {"absent", "pending", "active"},
         lastSeen : 0..MaxSeen, deleted : BOOLEAN]

NoRow == [name |-> None, status |-> "absent", lastSeen |-> 0, deleted |-> FALSE]

\* copy: the Firewall the use case read and changed; row: the row update()
\* SELECTed; tokens: the active tokens a revocation found or has locked
Requests == [op : {"idle", "rename", "delete", "revoke", "update", "rotate", "replace",
                   "check_in"},
             firewall : Firewalls \union {None}, copy : Rows, row : Rows,
             tokens : SUBSET Tokens]

Idle == [op |-> "idle", firewall |-> None, copy |-> NoRow, row |-> NoRow, tokens |-> {}]

TypeOK ==
    /\ firewall \in [Firewalls -> Rows]
    /\ tokenOf \in [Tokens -> Firewalls \union {None}]
    /\ active \subseteq {t \in Tokens : tokenOf[t] # None}
    /\ clock \in 0..MaxSeen
    /\ checkIns \in [Firewalls -> SUBSET (1..MaxSeen)]
    /\ request \in [Handlers -> Requests]

Init ==
    /\ firewall = [f \in Firewalls |-> NoRow]
    /\ tokenOf = [t \in Tokens |-> None]
    /\ active = {}
    /\ clock = 0
    /\ checkIns = [f \in Firewalls |-> {}]
    /\ request = [h \in Handlers |-> Idle]

\* Mutant: a deleted firewall is still found.
ExistsDeleted(f) == firewall[f].status # "absent"

\* What get_by_id finds, once the use case has tested deleted_at
Exists(f) == firewall[f].status # "absent" /\ ~firewall[f].deleted

ActiveOf(f) == {t \in active : tokenOf[t] = f}

Begin(h, op, f, copy) ==
    /\ request[h].op = "idle"
    /\ Exists(f)
    /\ request' = [request EXCEPT ![h] =
         [Idle EXCEPT !.op = op, !.firewall = f, !.copy = copy]]
    /\ UNCHANGED <<firewall, tokenOf, active, clock, checkIns>>

-----------------------------------------------------------------------------
(***************************************************************************)
(* Requests of the user.                                                   *)
(***************************************************************************)

\* CreateFirewall: the row and its first token in one commit
CreateFirewall(f, name, t) ==
    /\ firewall[f].status = "absent"
    /\ tokenOf[t] = None
    /\ firewall' = [firewall EXCEPT ![f] = [NoRow EXCEPT !.name = name, !.status = "pending"]]
    /\ tokenOf' = [tokenOf EXCEPT ![t] = f]
    /\ active' = active \union {t}
    /\ UNCHANGED <<clock, checkIns, request>>

\* RenameFirewall up to fw.name = name, and DeleteFirewall's read (its copy
\* gets deleted_at)
RenameFirewall(h, f, name) == Begin(h, "rename", f, [firewall[f] EXCEPT !.name = name])

DeleteFirewall(h, f) == Begin(h, "delete", f, [firewall[f] EXCEPT !.deleted = TRUE])

RotateToken(h, f) == Begin(h, "rotate", f, firewall[f])

\* revoke_all_for_firewall starts: the UPDATE finds the tokens active now
RevokeAll(h) ==
    /\ request[h].op \in {"delete", "rotate"}
    /\ request' = [request EXCEPT
         ![h].op = IF request[h].op = "delete" THEN "revoke" ELSE "replace",
         ![h].tokens = ActiveOf(request[h].firewall)]
    /\ UNCHANGED <<firewall, tokenOf, active, clock, checkIns>>

\* Tokens another request has updated and not committed yet
LockedByOthers(h) ==
    UNION {request[g].tokens : g \in {g \in Handlers \ {h} : request[g].op = "update"}}

SelectForDelete(h) ==
    /\ request[h].op = "revoke"
    /\ request[h].tokens \intersect LockedByOthers(h) = {}
    /\ request' = [request EXCEPT ![h].op = "update",
                                  ![h].row = firewall[request[h].firewall]]
    /\ UNCHANGED <<firewall, tokenOf, active, clock, checkIns>>

SelectForRename(h) ==
    /\ request[h].op = "rename"
    /\ request' = [request EXCEPT ![h].op = "update",
                                  ![h].row = firewall[request[h].firewall]]
    /\ UNCHANGED <<firewall, tokenOf, active, clock, checkIns>>

CommitUpdateKeepingTokens(h) ==
    LET f == request[h].firewall IN
    /\ request[h].op = "update"
    /\ firewall' = [firewall EXCEPT ![f] = Updated(@, request[h].row, request[h].copy)]
    /\ request' = [request EXCEPT ![h] = Idle]
    /\ UNCHANGED <<tokenOf, active, clock, checkIns>>

CommitUpdateActivating(h) ==
    LET f == request[h].firewall
        copy == [request[h].copy EXCEPT !.status = "active"]
    IN
    /\ request[h].op = "update"
    /\ firewall' = [firewall EXCEPT ![f] = Updated(@, request[h].row, copy)]
    /\ active' = active \ request[h].tokens
    /\ request' = [request EXCEPT ![h] = Idle]
    /\ UNCHANGED <<tokenOf, clock, checkIns>>

\* The UPDATE of the firewall's row and the commit, with the revocations
CommitUpdate(h) ==
    LET f == request[h].firewall IN
    /\ request[h].op = "update"
    /\ firewall' = [firewall EXCEPT ![f] = Updated(@, request[h].row, request[h].copy)]
    /\ active' = active \ request[h].tokens
    /\ request' = [request EXCEPT ![h] = Idle]
    /\ UNCHANGED <<tokenOf, clock, checkIns>>

\* The tokens found (those still active) revoked, the new one inserted
CommitRotate(h, t) ==
    /\ request[h].op = "replace"
    /\ request[h].tokens \intersect LockedByOthers(h) = {}
    /\ tokenOf[t] = None
    /\ tokenOf' = [tokenOf EXCEPT ![t] = request[h].firewall]
    /\ active' = (active \ request[h].tokens) \union {t}
    /\ request' = [request EXCEPT ![h] = Idle]
    /\ UNCHANGED <<firewall, clock, checkIns>>

-----------------------------------------------------------------------------
(***************************************************************************)
(* The agent.                                                              *)
(***************************************************************************)

\* get_current_agent: the token of the request is active
Authenticate(h, t) ==
    /\ request[h].op = "idle"
    /\ t \in active
    /\ request' = [request EXCEPT ![h] =
         [Idle EXCEPT !.op = "check_in", !.firewall = tokenOf[t]]]
    /\ UNCHANGED <<firewall, tokenOf, active, clock, checkIns>>

\* IngestSnapshot's record_check_in: a direct UPDATE of whatever row is there
CommitCheckIn(h) ==
    /\ request[h].op = "check_in"
    /\ clock < MaxSeen
    /\ clock' = clock + 1
    /\ checkIns' = [checkIns EXCEPT ![request[h].firewall] = @ \union {clock + 1}]
    /\ firewall' = [firewall EXCEPT ![request[h].firewall].status = "active",
                                    ![request[h].firewall].lastSeen = clock + 1]
    /\ request' = [request EXCEPT ![h] = Idle]
    /\ UNCHANGED <<tokenOf, active>>

\* A request that dies before its commit: its transaction rolls back
Abort(h) ==
    /\ request[h].op # "idle"
    /\ request' = [request EXCEPT ![h] = Idle]
    /\ UNCHANGED <<firewall, tokenOf, active, clock, checkIns>>

UserStep ==
    \/ \E f \in Firewalls, name \in Names, t \in Tokens : CreateFirewall(f, name, t)
    \/ \E h \in Handlers, f \in Firewalls, name \in Names : RenameFirewall(h, f, name)
    \/ \E h \in Handlers, f \in Firewalls : DeleteFirewall(h, f) \/ RotateToken(h, f)

HandlerStep(h) ==
    \/ RevokeAll(h)
    \/ SelectForDelete(h)
    \/ SelectForRename(h)
    \/ CommitUpdate(h)
    \/ \E t \in Tokens : CommitRotate(h, t)
    \/ CommitCheckIn(h)
    \/ Abort(h)

AgentStep == \E h \in Handlers, t \in Tokens : Authenticate(h, t)

Next == UserStep \/ AgentStep \/ \E h \in Handlers : HandlerStep(h)

Spec == Init /\ [][Next]_vars

-----------------------------------------------------------------------------
(***************************************************************************)
(* Safety, with concurrent requests.                                       *)
(***************************************************************************)

Commits(h) == request[h] # Idle /\ request'[h] = Idle /\ <<firewall, active>>' # <<firewall, active>>

\* When a rotation or a deletion commits, every token that was active when it
\* looked is revoked, whatever ran at the same time, and a revoked token never
\* authenticates an agent again.
RevokedForGood ==
    [][/\ \A t \in active' \ active : tokenOf[t] = None
       /\ \A h \in Handlers : Commits(h) => request[h].tokens \intersect active' = {}]_vars

\* However stale renames mix their columns with others' (status and last_seen_at
\* may go back, even apart), what a firewall shows was once true of it: its last
\* seen time is that of a check-in of its own agent, and it is shown active only
\* if there was one.
SeenWasCheckIn ==
    \A f \in Firewalls :
        /\ firewall[f].lastSeen \in checkIns[f] \union {0}
        /\ firewall[f].status = "active" => checkIns[f] # {}

\* The firewall is deleted, and whatever else was asked of it before has ended:
\* what is in flight for it deletes it, or is an agent's check-in
Settled(f) ==
    /\ firewall[f].deleted
    /\ \A h \in Handlers : request[h].firewall = f =>
         request[h].op = "check_in" \/ request[h].copy.deleted

\* A rename or a rotation that read the firewall before its deletion committed
\* may still undo it or add a token (FirewallRepository.update writes the whole
\* copy back); once those have ended, the firewall is gone for good: it is
\* never listed again and no agent gets a token for it.
DeletionSettles ==
    [][\A f \in Firewalls : Settled(f) => Settled(f)' /\ ActiveOf(f)' \subseteq ActiveOf(f)]_vars

=============================================================================
