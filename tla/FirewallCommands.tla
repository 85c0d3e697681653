-------------------------- MODULE FirewallCommands --------------------------
(***************************************************************************)
(* Remote management of a firewall: a user queues a write, confirms it     *)
(* with the password, the agent polls it, applies it and reports, and the  *)
(* backend appends a hash-chained row to remote_change_logs.               *)
(*                                                                         *)
(* Every HTTP request is one database transaction under READ COMMITTED and *)
(* none takes a row lock before it reads, so a request is split where what *)
(* it read may be stale when it writes: a Handler holds a request between  *)
(* its reads and its commit.  FirewallCommandRepository.update_status      *)
(* writes the new status whatever the row holds by then.                   *)
(*                                                                         *)
(* Creating a command (or a rollback) reads and then inserts a fresh row   *)
(* nobody else can name before the response: one step.                     *)
(***************************************************************************)
EXTENDS Naturals

CONSTANTS
    Firewalls,      \* ids of firewalls
    Commands,       \* ids of firewall_commands rows; a log row is named by
                    \* its firewall_command_id, which is UNIQUE
    FirewallOf,     \* firewall_commands.firewall_id, written once
    Handlers,       \* requests the backend serves at the same time
    None,
    PollCommits,    \* does the update made by a poll become durable?
                    \* FALSE: as deployed, a session per request that get_db
                    \* closes with no commit; TRUE: as the repository's tests
                    \* wire the same handlers, one session for all of them,
                    \* where the next commit of any carries it
    MaxStamp,       \* bound: clock readings of successful reports
    MaxRuns         \* bound: executions of one command by the agent

ASSUME FirewallOfAssumption == FirewallOf \in [Commands -> Firewalls]
ASSUME NoneAssumption == None \notin Commands
ASSUME PollCommitsAssumption == PollCommits \in BOOLEAN
ASSUME BoundsAssumption == MaxStamp \in Nat /\ MaxRuns \in Nat

VARIABLES
    status,         \* firewall_commands.status, "absent" before the INSERT
    target,         \* payload.target_change_log_id of a rollback, else None
    confirmed,      \* commands whose confirmed_at is set
    overdue,        \* commands whose expires_at has passed
    logs,           \* rows of remote_change_logs
    chain,          \* the row whose hash a row's record_hash includes
    appliedAt,      \* remote_change_logs.applied_at
    rolledAt,       \* remote_change_logs.rolled_back_at, 0 for NULL
    clock,          \* last reading of datetime.now() by a successful report
    removed,        \* soft-deleted firewalls, their agent token revoked
    request,        \* what each handler is serving
    inbox,          \* commands the agent was handed and has not executed
    runs,           \* times the agent executed a command
    results,        \* outcomes the agent may report for a command
    contested,      \* history: commands that two requests held at one time
    crossed         \* history: commands whose row was being written while
                    \* another of the same firewall was

commandVars == <<status, target, confirmed, overdue>>
logVars == <<logs, chain, appliedAt, rolledAt>>
agentVars == <<inbox, runs, results>>
overlapVars == <<contested, crossed>>
vars == <<commandVars, logVars, clock, removed, request, agentVars, overlapVars>>

Statuses == {"absent", "pending_confirmation", "confirmed", "sent_to_agent",
             "applied", "failed", "expired"}
Outcomes == {"ok", "error"}
Ops == {"idle", "confirm", "expire", "poll", "apply", "append", "fail"}

Requests == [op : Ops, cmd : Commands \union {None}, batch : SUBSET Commands,
             at : 0..MaxStamp, prev : Commands \union {None}]

Serving(op, c, batch, at, prev) ==
    [op |-> op, cmd |-> c, batch |-> batch, at |-> at, prev |-> prev]

Idle == Serving("idle", None, {}, 0, None)

TypeOK ==
    /\ status \in [Commands -> Statuses]
    /\ target \in [Commands -> Commands \union {None}]
    /\ confirmed \in SUBSET Commands
    /\ overdue \in SUBSET Commands
    /\ logs \in SUBSET Commands
    /\ chain \in [Commands -> Commands \union {None}]
    /\ appliedAt \in [Commands -> 0..MaxStamp]
    /\ rolledAt \in [Commands -> 0..MaxStamp]
    /\ clock \in 0..MaxStamp
    /\ removed \in SUBSET Firewalls
    /\ request \in [Handlers -> Requests]
    /\ inbox \in SUBSET Commands
    /\ runs \in [Commands -> 0..MaxRuns]
    /\ results \in [Commands -> SUBSET Outcomes]
    /\ contested \in SUBSET Commands
    /\ crossed \in SUBSET Commands

Init ==
    /\ status = [c \in Commands |-> "absent"]
    /\ target = [c \in Commands |-> None]
    /\ confirmed = {}
    /\ overdue = {}
    /\ logs = {}
    /\ chain = [c \in Commands |-> None]
    /\ appliedAt = [c \in Commands |-> 0]
    /\ rolledAt = [c \in Commands |-> 0]
    /\ clock = 0
    /\ removed = {}
    /\ request = [h \in Handlers |-> Idle]
    /\ inbox = {}
    /\ runs = [c \in Commands |-> 0]
    /\ results = [c \in Commands |-> {}]
    /\ contested = {}
    /\ crossed = {}

-----------------------------------------------------------------------------
(***************************************************************************)
(* History: which requests overlap.  No step reads it.                     *)
(***************************************************************************)

\* A request holds the commands it has read and is about to update
Holds(h, c) ==
    IF request[h].op = "poll" THEN c \in request[h].batch
    ELSE request[h].op # "idle" /\ request[h].cmd = c

\* It is recording a success on firewall f: past its now, not committed
Recording(h, f) ==
    request[h].op \in {"apply", "append"} /\ FirewallOf[request[h].cmd] = f

Contended ==
    {c \in Commands : \E g, h \in Handlers : g # h /\ Holds(g, c) /\ Holds(h, c)}

Crossing ==
    {c \in Commands : \E g, h \in Handlers :
        /\ g # h
        /\ Recording(g, FirewallOf[c]) /\ request[g].cmd = c
        /\ Recording(h, FirewallOf[c])}

\* A request that has just read notes whom it overlaps
Watch ==
    /\ contested' = contested \union Contended'
    /\ crossed' = crossed \union Crossing'

-----------------------------------------------------------------------------
(***************************************************************************)
(* Requests of the user.                                                   *)
(***************************************************************************)

LogsOf(f) == {c \in logs : FirewallOf[c] = f}

\* get_latest_for_firewall: ORDER BY applied_at DESC LIMIT 1
Latest(f) == {c \in LogsOf(f) : \A d \in LogsOf(f) : appliedAt[d] <= appliedAt[c]}

Insert(c, t) ==
    /\ status[c] = "absent"
    /\ FirewallOf[c] \notin removed
    /\ status' = [status EXCEPT ![c] = "pending_confirmation"]
    /\ target' = [target EXCEPT ![c] = t]
    /\ UNCHANGED <<confirmed, overdue, logVars, clock, removed, request, agentVars,
                   overlapVars>>

\* CreateFirewallCommand: a rule command, command_type other than "rollback"
CreateFirewallCommand(c) == Insert(c, None)

RollbackMarkedEarly(c) ==
    \E l \in Latest(FirewallOf[c]) :
        /\ rolledAt[l] = 0
        /\ status[c] = "absent" /\ FirewallOf[c] \notin removed
        /\ status' = [status EXCEPT ![c] = "pending_confirmation"]
        /\ target' = [target EXCEPT ![c] = l]
        /\ rolledAt' = [rolledAt EXCEPT ![l] = clock]
        /\ UNCHANGED <<confirmed, overdue, logs, chain, appliedAt, clock, removed,
                       request, agentVars, overlapVars>>

\* RollbackFirewallCommand: targets the latest change, unless it is rolled back
RollbackFirewallCommand(c) ==
    \E l \in Latest(FirewallOf[c]) : rolledAt[l] = 0 /\ Insert(c, l)

\* expires_at passes; only ConfirmFirewallCommand ever looks at it
TtlElapses(c) ==
    /\ status[c] = "pending_confirmation"
    /\ c \notin overdue
    /\ overdue' = overdue \union {c}
    /\ UNCHANGED <<status, target, confirmed, logVars, clock, removed, request,
                   agentVars, overlapVars>>

ConfirmReadAnyStatus(h, c) ==
    /\ request[h].op = "idle"
    /\ FirewallOf[c] \notin removed
    /\ status[c] # "absent"
    /\ request' = [request EXCEPT ![h] =
         Serving(IF c \in overdue THEN "expire" ELSE "confirm", c, {}, 0, None)]
    /\ UNCHANGED <<commandVars, logVars, clock, removed, agentVars>>
    /\ Watch

\* ConfirmFirewallCommand up to its update_status: an overdue command is to
\* expire whatever the password, one in time is to be confirmed if the
\* password verifies (a wrong one ends the request with nothing changed)
ConfirmRead(h, c) ==
    /\ request[h].op = "idle"
    /\ FirewallOf[c] \notin removed
    /\ status[c] = "pending_confirmation"
    /\ request' = [request EXCEPT ![h] =
         Serving(IF c \in overdue THEN "expire" ELSE "confirm", c, {}, 0, None)]
    /\ UNCHANGED <<commandVars, logVars, clock, removed, agentVars>>
    /\ Watch

ConfirmCommit(h) ==
    /\ request[h].op = "confirm"
    /\ status' = [status EXCEPT ![request[h].cmd] = "confirmed"]
    /\ confirmed' = confirmed \union {request[h].cmd}
    /\ request' = [request EXCEPT ![h] = Idle]
    /\ UNCHANGED <<target, overdue, logVars, clock, removed, agentVars, overlapVars>>

ExpireCommit(h) ==
    /\ request[h].op = "expire"
    /\ status' = [status EXCEPT ![request[h].cmd] = "expired"]
    /\ request' = [request EXCEPT ![h] = Idle]
    /\ UNCHANGED <<target, confirmed, overdue, logVars, clock, removed, agentVars,
                   overlapVars>>

\* DeleteFirewall: its tokens are revoked, so the agent's requests get 401
DeleteFirewall(f) ==
    /\ f \notin removed
    /\ removed' = removed \union {f}
    /\ UNCHANGED <<commandVars, logVars, clock, request, agentVars, overlapVars>>

-----------------------------------------------------------------------------
(***************************************************************************)
(* Requests of the agent.                                                  *)
(***************************************************************************)

PollReadPending(h, f) ==
    /\ request[h].op = "idle"
    /\ f \notin removed
    /\ request' = [request EXCEPT ![h] =
         Serving("poll", None,
                 {c \in Commands : /\ FirewallOf[c] = f
                                   /\ status[c] \in {"pending_confirmation", "confirmed"}},
                 0, None)]
    /\ UNCHANGED <<commandVars, logVars, clock, removed, agentVars>>
    /\ Watch

PollReadInTime(h, f) ==
    /\ request[h].op = "idle"
    /\ f \notin removed
    /\ request' = [request EXCEPT ![h] =
         Serving("poll", None,
                 {c \in Commands \ overdue : FirewallOf[c] = f /\ status[c] = "confirmed"},
                 0, None)]
    /\ UNCHANGED <<commandVars, logVars, clock, removed, agentVars>>
    /\ Watch

\* PollFirewallCommands: list_for_firewall and the filter on "confirmed"
PollRead(h, f) ==
    /\ request[h].op = "idle"
    /\ f \notin removed
    /\ request' = [request EXCEPT ![h] =
         Serving("poll", None,
                 {c \in Commands : FirewallOf[c] = f /\ status[c] = "confirmed"},
                 0, None)]
    /\ UNCHANGED <<commandVars, logVars, clock, removed, agentVars>>
    /\ Watch

\* The end of a poll: its updates become durable or are discarded with the
\* session, and the response reaches the agent or is lost
PollRespond(h, received) ==
    /\ request[h].op = "poll"
    /\ status' = [c \in Commands |-> IF PollCommits /\ c \in request[h].batch
                                     THEN "sent_to_agent" ELSE status[c]]
    /\ inbox' = IF received THEN inbox \union request[h].batch ELSE inbox
    /\ request' = [request EXCEPT ![h] = Idle]
    /\ UNCHANGED <<target, confirmed, overdue, logVars, clock, removed, runs, results,
                   overlapVars>>

\* The agent executes a command it was handed, once for each time it got it
AgentExecute(c, outcome) ==
    /\ c \in inbox
    /\ runs[c] < MaxRuns
    /\ inbox' = inbox \ {c}
    /\ runs' = [runs EXCEPT ![c] = @ + 1]
    /\ results' = [results EXCEPT ![c] = @ \union {outcome}]
    /\ UNCHANGED <<commandVars, logVars, clock, removed, request, overlapVars>>

\* ReportFirewallCommandResult up to now = datetime.now(): the agent reports
\* an outcome it has, perhaps again, and the command must be "sent_to_agent"
ReportRead(h, c, outcome) ==
    /\ request[h].op = "idle"
    /\ FirewallOf[c] \notin removed
    /\ outcome \in results[c]
    /\ status[c] = "sent_to_agent"
    /\ IF outcome = "ok"
       THEN /\ clock < MaxStamp
            /\ clock' = clock + 1
            /\ request' = [request EXCEPT ![h] =
                 Serving("apply", c, {}, clock + 1, None)]
       ELSE /\ request' = [request EXCEPT ![h] = Serving("fail", c, {}, 0, None)]
            /\ UNCHANGED clock
    /\ UNCHANGED <<commandVars, logVars, removed, agentVars>>
    /\ Watch

\* success = False: the command is failed and nothing is logged
FailCommit(h) ==
    /\ request[h].op = "fail"
    /\ status' = [status EXCEPT ![request[h].cmd] = "failed"]
    /\ request' = [request EXCEPT ![h] = Idle]
    /\ UNCHANGED <<target, confirmed, overdue, logVars, clock, removed, agentVars,
                   overlapVars>>

ReportChainUnlinked(h) ==
    /\ request[h].op = "apply"
    /\ request' = [request EXCEPT ![h] =
         Serving("append", request[h].cmd, {}, request[h].at, None)]
    /\ UNCHANGED <<commandVars, logVars, clock, removed, agentVars, overlapVars>>

\* The row the new record_hash will include: the latest committed by now
ReportChain(h) ==
    LET f == FirewallOf[request[h].cmd] IN
    /\ request[h].op = "apply"
    /\ \E p \in IF LogsOf(f) = {} THEN {None} ELSE Latest(f) :
         request' = [request EXCEPT ![h] =
             Serving("append", request[h].cmd, {}, request[h].at, p)]
    /\ UNCHANGED <<commandVars, logVars, clock, removed, agentVars, overlapVars>>

\* mark_rolled_back of the target, when the command is a rollback
Marked(c, at) ==
    IF target[c] = None THEN rolledAt ELSE [rolledAt EXCEPT ![target[c]] = at]

ReportCommitWithoutUnique(h) ==
    LET c == request[h].cmd IN
    /\ request[h].op = "append"
    /\ logs' = logs \union {c}
    /\ chain' = [chain EXCEPT ![c] = request[h].prev]
    /\ appliedAt' = [appliedAt EXCEPT ![c] = request[h].at]
    /\ rolledAt' = Marked(c, request[h].at)
    /\ status' = [status EXCEPT ![c] = "applied"]
    /\ request' = [request EXCEPT ![h] = Idle]
    /\ UNCHANGED <<target, confirmed, overdue, clock, removed, agentVars, overlapVars>>

ReportCommitKeepingStatus(h) ==
    LET c == request[h].cmd IN
    /\ request[h].op = "append"
    /\ c \notin logs
    /\ logs' = logs \union {c}
    /\ chain' = [chain EXCEPT ![c] = request[h].prev]
    /\ appliedAt' = [appliedAt EXCEPT ![c] = request[h].at]
    /\ rolledAt' = Marked(c, request[h].at)
    /\ request' = [request EXCEPT ![h] = Idle]
    /\ UNCHANGED <<commandVars, clock, removed, agentVars, overlapVars>>

ReportCommitRollingStatus(h) ==
    LET c == request[h].cmd IN
    /\ request[h].op = "append"
    /\ c \notin logs
    /\ logs' = logs \union {c}
    /\ chain' = [chain EXCEPT ![c] = request[h].prev]
    /\ appliedAt' = [appliedAt EXCEPT ![c] = request[h].at]
    /\ rolledAt' = Marked(c, request[h].at)
    /\ status' = [d \in Commands |-> CASE d = c -> "applied"
                                       [] d = target[c] -> "rolled_back"
                                       [] OTHER -> status[d]]
    /\ request' = [request EXCEPT ![h] = Idle]
    /\ UNCHANGED <<target, confirmed, overdue, clock, removed, agentVars, overlapVars>>

ReportCommitWithoutLog(h) ==
    LET c == request[h].cmd IN
    /\ request[h].op = "append"
    /\ c \notin logs
    /\ rolledAt' = Marked(c, request[h].at)
    /\ status' = [status EXCEPT ![c] = "applied"]
    /\ request' = [request EXCEPT ![h] = Idle]
    /\ UNCHANGED <<target, confirmed, overdue, logs, chain, appliedAt, clock,
                   removed, agentVars, overlapVars>>

\* success = True: append the row, mark the command applied and, for a
\* rollback, its target rolled back.  A second row for the command breaks the
\* UNIQUE constraint: that request can only Abort.
ReportCommit(h) ==
    LET c == request[h].cmd IN
    /\ request[h].op = "append"
    /\ c \notin logs
    /\ logs' = logs \union {c}
    /\ chain' = [chain EXCEPT ![c] = request[h].prev]
    /\ appliedAt' = [appliedAt EXCEPT ![c] = request[h].at]
    /\ rolledAt' = Marked(c, request[h].at)
    /\ status' = [status EXCEPT ![c] = "applied"]
    /\ request' = [request EXCEPT ![h] = Idle]
    /\ UNCHANGED <<target, confirmed, overdue, clock, removed, agentVars, overlapVars>>

\* A request that dies before its commit (crash, database error, IntegrityError,
\* client gone): the session closes and its transaction rolls back
Abort(h) ==
    /\ request[h].op # "idle"
    /\ request' = [request EXCEPT ![h] = Idle]
    /\ UNCHANGED <<commandVars, logVars, clock, removed, agentVars, overlapVars>>

-----------------------------------------------------------------------------

UserStep ==
    \/ \E c \in Commands : CreateFirewallCommand(c)
    \/ \E c \in Commands : RollbackFirewallCommand(c)
    \/ \E c \in Commands : TtlElapses(c)
    \/ \E h \in Handlers, c \in Commands : ConfirmRead(h, c)
    \/ \E h \in Handlers : ConfirmCommit(h)
    \/ \E h \in Handlers : ExpireCommit(h)
    \/ \E f \in Firewalls : DeleteFirewall(f)

AgentStep ==
    \/ \E h \in Handlers, f \in Firewalls : PollRead(h, f)
    \/ \E h \in Handlers, received \in BOOLEAN : PollRespond(h, received)
    \/ \E c \in Commands, outcome \in Outcomes : AgentExecute(c, outcome)
    \/ \E h \in Handlers, c \in Commands, outcome \in Outcomes : ReportRead(h, c, outcome)
    \/ \E h \in Handlers : FailCommit(h)
    \/ \E h \in Handlers : ReportChain(h)
    \/ \E h \in Handlers : ReportCommit(h)

Next == UserStep \/ AgentStep \/ \E h \in Handlers : Abort(h)

Spec == Init /\ [][Next]_vars

\* A request being served ends, or moves on to its next read
Progress(h) ==
    \/ ConfirmCommit(h) \/ ExpireCommit(h) \/ FailCommit(h)
    \/ ReportChain(h) \/ ReportCommit(h)
    \/ \E received \in BOOLEAN : PollRespond(h, received)
    \/ Abort(h)

\* For liveness only: requests end; an agent's cron polls on (whatever else the
\* backend is serving), it does not lose every response with a command in it,
\* and executes what it was handed
Fairness ==
    /\ \A h \in Handlers : WF_vars(Progress(h))
    /\ \A f \in Firewalls : SF_vars(\E h \in Handlers : PollRead(h, f))
    /\ \A c \in Commands :
         SF_vars(\E h \in Handlers : c \in request[h].batch /\ PollRespond(h, TRUE))
    /\ \A c \in Commands : WF_vars(\E outcome \in Outcomes : AgentExecute(c, outcome))

FairSpec == Spec /\ Fairness

-----------------------------------------------------------------------------
(***************************************************************************)
(* Safety, whatever the number of concurrent requests.                     *)
(***************************************************************************)

\* Nothing reaches the agent, and no command gets past the user, unless a
\* confirmation with the password was committed for it, however confirms,
\* expiries and polls of the same command interleave (pending is the only
\* state ConfirmFirewallCommand starts from, "confirmed" the only one
\* PollFirewallCommands hands out).
DispatchNeedsStepUp ==
    \A c \in Commands :
        (\/ c \in inbox
         \/ runs[c] > 0
         \/ status[c] \in {"confirmed", "sent_to_agent", "applied", "failed"})
        => c \in confirmed

\* A history row is written only for a command the agent really executed with
\* success: no interleaving of reports logs a command that only ever failed.
LogNeedsSuccess == \A c \in logs : "ok" \in results[c]

\* A command the user is shown as applied has its row in the history, also
\* when a late report or a crash hits it (both are one transaction).
AppliedIsLogged == \A c \in Commands : status[c] = "applied" => c \in logs

\* Both ways between what the agent did, the history and what the user is shown.
HistoryIsTruthful == LogNeedsSuccess /\ AppliedIsLogged

\* A row carries rolled_back_at only if a rollback of that very row, on the
\* same firewall, was executed and logged at that time: queueing,
\* confirming or failing a rollback marks nothing.
RolledBackByLoggedRollback ==
    \A c \in Commands : rolledAt[c] # 0 =>
        /\ c \in logs
        /\ \E r \in logs : /\ target[r] = c
                           /\ appliedAt[r] = rolledAt[c]
                           /\ FirewallOf[r] = FirewallOf[c]

\* The hash chain of a firewall links only committed rows of that firewall.
ChainWithinFirewall ==
    \A c \in logs : chain[c] # None =>
        chain[c] \in logs \ {c} /\ FirewallOf[chain[c]] = FirewallOf[c]

\* What the history promises to whoever reads it (RemoteChangeHistory).
History == INSTANCE RemoteChangeHistory WITH
               rows <- logs,
               link <- chain,
               undone <- {c \in Commands : rolledAt[c] # 0}

HistorySpec == History!Spec

-----------------------------------------------------------------------------
(***************************************************************************)
(* What requests promise as long as nobody else touches the same rows:     *)
(* nothing but such an overlap breaks it.                                  *)
(***************************************************************************)

\* record_hash "chains each remote_change_logs row to the previous one for
\* the same firewall" (report_firewall_command_result.py): a row's link is the
\* newest row of its firewall older than itself, whatever is recorded later,
\* unless the row was written while another one of the firewall was.
ChainLinear ==
    \A c \in logs \ crossed :
        LET older == {d \in LogsOf(FirewallOf[c]) : appliedAt[d] < appliedAt[c]} IN
        IF older = {} THEN chain[c] = None
        ELSE chain[c] \in older /\ \A d \in older : appliedAt[d] <= appliedAt[chain[c]]

\* The history and the list of commands agree, a row exactly for a command
\* shown as applied, unless two requests held the command at one time: no
\* lost response, repeated or late report alone makes them differ.
LoggedIffApplied ==
    \A c \in Commands \ contested : c \in logs <=> status[c] = "applied"

\* A command that no two requests held at one time goes forward through the
\* states the use cases document (CommandLifecycle): a stale write needs an
\* overlap, not only a late or repeated request.
Lifecycle == INSTANCE CommandLifecycle WITH state <- status

LifecycleSpec == Lifecycle!Spec

-----------------------------------------------------------------------------
(***************************************************************************)
(* Liveness of the deployed wiring (PollCommits = FALSE, FairSpec).        *)
(***************************************************************************)

\* A confirm that read the command before another confirmed it, too late for
\* its time to live, and that overwrites the confirmation if it commits
ExpiryUnderWay(c) == \E h \in Handlers : request[h].op = "expire" /\ request[h].cmd = c

\* A confirmed command is executed by the agent even if its time passes and
\* responses are lost: it stays confirmed, so every later poll has it.  Only
\* deleting the firewall stops it, or a confirm that was already expiring it
\* when it was confirmed; one that comes later finds it not pending.
ConfirmedIsExecuted ==
    \A c \in Commands :
        status[c] = "confirmed" /\ ~ExpiryUnderWay(c)
            ~> runs[c] > 0 \/ FirewallOf[c] \in removed

-----------------------------------------------------------------------------
(***************************************************************************)
(* What the sources say and a run refutes.                                 *)
(***************************************************************************)

\* "returns commands the user has confirmed and moves them to
\* 'sent_to_agent'" (poll_firewall_commands.py:14): what the agent holds or
\* has executed is no longer confirmed in the database.
PolledCommandsMoved ==
    \A c \in Commands : c \in inbox \/ runs[c] > 0 => status[c] # "confirmed"

=============================================================================
