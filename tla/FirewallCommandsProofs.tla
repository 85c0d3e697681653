----------------------- MODULE FirewallCommandsProofs -----------------------
(***************************************************************************)
(* Theorems about FirewallCommands, for every set of firewalls, commands   *)
(* and concurrent requests, whether or not a poll commits.                 *)
(*                                                                         *)
(* The safety properties are not inductive: a request that has read may    *)
(* commit at any later time, so the invariant must say what it carries.    *)
(* InFlight does, and TargetsLogged and LoggedExists say what rows that    *)
(* name each other may rely on.  The second half adds the overlaps: what a *)
(* request read still holds at its commit unless another one held the same *)
(* rows; the end is about the wiring in which a poll does not commit.      *)
(***************************************************************************)
EXTENDS FirewallCommands, TLAPS

\* What a request remembers stays true until its commit, since no step undoes
\* a confirmation, an outcome or a row of the history.
InFlight ==
    \A h \in Handlers :
        LET r == request[h] IN
        /\ r.op \notin {"idle", "poll"} => r.cmd \in Commands
        /\ r.batch \subseteq confirmed
        /\ r.op \in {"apply", "append", "fail"} => r.cmd \in confirmed
        /\ r.op \in {"apply", "append"} => "ok" \in results[r.cmd] /\ r.at # 0
        /\ r.op = "append" /\ r.prev # None =>
             r.prev \in logs /\ FirewallOf[r.prev] = FirewallOf[r.cmd]

\* A rollback names a row of its firewall.
TargetsLogged ==
    \A c \in Commands : target[c] # None =>
        target[c] \in logs /\ FirewallOf[target[c]] = FirewallOf[c]

\* A logged command exists, so its id is never given to a new one.
LoggedExists == \A c \in logs : status[c] # "absent"

IndInv ==
    /\ TypeOK
    /\ DispatchNeedsStepUp
    /\ LogNeedsSuccess
    /\ AppliedIsLogged
    /\ RolledBackByLoggedRollback
    /\ ChainWithinFirewall
    /\ InFlight
    /\ TargetsLogged
    /\ LoggedExists

-----------------------------------------------------------------------------
(***************************************************************************)
(* Every step keeps the invariant: per action, the conjuncts the step can  *)
(* disturb one by one, the others together.                                *)
(***************************************************************************)

\* A new command, and a rollback of a logged change
LEMMA InsertKeeps ==
    ASSUME IndInv, NEW c \in Commands, NEW t \in LogsOf(FirewallOf[c]) \union {None}, Insert(c, t)
    PROVE  IndInv'
<1>1. TypeOK'
    BY DEF IndInv, TypeOK, Statuses, Insert, commandVars, logVars, agentVars,
           Requests, Serving, Idle, Ops, LogsOf, overlapVars
<1>2. DispatchNeedsStepUp'
    BY DEF IndInv, TypeOK, DispatchNeedsStepUp, Insert, commandVars, logVars,
           agentVars
<1>3. AppliedIsLogged'
    BY DEF IndInv, TypeOK, AppliedIsLogged, Insert, commandVars, logVars,
           agentVars
<1>4. RolledBackByLoggedRollback'
    BY DEF IndInv, TypeOK, RolledBackByLoggedRollback, Insert, commandVars,
           logVars, agentVars, LoggedExists
<1>5. TargetsLogged'
    BY FirewallOfAssumption, NoneAssumption DEF IndInv, TypeOK, TargetsLogged,
           Insert, commandVars, logVars, agentVars, LogsOf
<1>6. LoggedExists'
    BY DEF IndInv, TypeOK, LoggedExists, Insert, commandVars, logVars, agentVars
<1>7. /\ LogNeedsSuccess'
      /\ ChainWithinFirewall'
      /\ InFlight'
    BY DEF IndInv, TypeOK, LogNeedsSuccess, ChainWithinFirewall, InFlight,
           Insert, commandVars, logVars, agentVars
<1>. QED
    BY <1>1, <1>2, <1>3, <1>4, <1>5, <1>6, <1>7 DEF IndInv

\* Time alone changes no row.
LEMMA TtlElapsesKeeps ==
    ASSUME IndInv, NEW c \in Commands, TtlElapses(c)
    PROVE  IndInv'
<1>1. TypeOK'
    BY DEF IndInv, TypeOK, Statuses, TtlElapses, commandVars, logVars, agentVars,
           Requests, Serving, Idle, Ops, overlapVars
<1>2. /\ DispatchNeedsStepUp'
      /\ LogNeedsSuccess'
      /\ AppliedIsLogged'
      /\ RolledBackByLoggedRollback'
      /\ ChainWithinFirewall'
      /\ InFlight'
      /\ TargetsLogged'
      /\ LoggedExists'
    BY DEF IndInv, TypeOK, DispatchNeedsStepUp, LogNeedsSuccess,
           AppliedIsLogged, RolledBackByLoggedRollback, ChainWithinFirewall,
           InFlight, TargetsLogged, LoggedExists, TtlElapses, commandVars,
           logVars, agentVars
<1>. QED
    BY <1>1, <1>2 DEF IndInv

\* A confirmation that has read names an existing command.
LEMMA ConfirmReadKeeps ==
    ASSUME IndInv, NEW h \in Handlers, NEW c \in Commands, ConfirmRead(h, c)
    PROVE  IndInv'
<1>1. TypeOK'
    BY BoundsAssumption DEF IndInv, TypeOK, Statuses, ConfirmRead, commandVars,
           logVars, agentVars, Requests, Serving, Idle, Ops, Watch, Contended,
           Crossing
<1>2. InFlight'
    BY DEF IndInv, TypeOK, InFlight, ConfirmRead, commandVars, logVars,
           agentVars, Requests, Serving, Idle
<1>3. /\ DispatchNeedsStepUp'
      /\ LogNeedsSuccess'
      /\ AppliedIsLogged'
      /\ RolledBackByLoggedRollback'
      /\ ChainWithinFirewall'
      /\ TargetsLogged'
      /\ LoggedExists'
    BY DEF IndInv, TypeOK, DispatchNeedsStepUp, LogNeedsSuccess,
           AppliedIsLogged, RolledBackByLoggedRollback, ChainWithinFirewall,
           TargetsLogged, LoggedExists, ConfirmRead, commandVars, logVars,
           agentVars
<1>. QED
    BY <1>1, <1>2, <1>3 DEF IndInv

\* The stale write of a confirmation comes with its confirmed_at.
LEMMA ConfirmCommitKeeps ==
    ASSUME IndInv, NEW h \in Handlers, ConfirmCommit(h)
    PROVE  IndInv'
<1>1. TypeOK'
    BY BoundsAssumption DEF IndInv, TypeOK, Statuses, ConfirmCommit, commandVars,
           logVars, agentVars, Requests, Serving, Idle, Ops, InFlight, overlapVars
<1>2. DispatchNeedsStepUp'
    BY DEF IndInv, TypeOK, DispatchNeedsStepUp, ConfirmCommit, commandVars,
           logVars, agentVars, InFlight
<1>3. AppliedIsLogged'
    BY DEF IndInv, TypeOK, AppliedIsLogged, ConfirmCommit, commandVars,
           logVars, agentVars, InFlight
<1>4. InFlight'
    BY DEF IndInv, TypeOK, InFlight, ConfirmCommit, commandVars, logVars,
           agentVars, Requests, Serving, Idle
<1>5. LoggedExists'
    BY DEF IndInv, TypeOK, LoggedExists, ConfirmCommit, commandVars, logVars,
           agentVars, InFlight
<1>6. /\ LogNeedsSuccess'
      /\ RolledBackByLoggedRollback'
      /\ ChainWithinFirewall'
      /\ TargetsLogged'
    BY DEF IndInv, TypeOK, LogNeedsSuccess, RolledBackByLoggedRollback,
           ChainWithinFirewall, TargetsLogged, ConfirmCommit, commandVars,
           logVars, agentVars
<1>. QED
    BY <1>1, <1>2, <1>3, <1>4, <1>5, <1>6 DEF IndInv

\* The stale write of an expiry takes nothing from the history.
LEMMA ExpireCommitKeeps ==
    ASSUME IndInv, NEW h \in Handlers, ExpireCommit(h)
    PROVE  IndInv'
<1>1. TypeOK'
    BY BoundsAssumption DEF IndInv, TypeOK, Statuses, ExpireCommit, commandVars,
           logVars, agentVars, Requests, Serving, Idle, Ops, InFlight, overlapVars
<1>2. DispatchNeedsStepUp'
    BY DEF IndInv, TypeOK, DispatchNeedsStepUp, ExpireCommit, commandVars,
           logVars, agentVars, InFlight
<1>3. AppliedIsLogged'
    BY DEF IndInv, TypeOK, AppliedIsLogged, ExpireCommit, commandVars, logVars,
           agentVars, InFlight
<1>4. InFlight'
    BY DEF IndInv, TypeOK, InFlight, ExpireCommit, commandVars, logVars,
           agentVars, Requests, Serving, Idle
<1>5. LoggedExists'
    BY DEF IndInv, TypeOK, LoggedExists, ExpireCommit, commandVars, logVars,
           agentVars, InFlight
<1>6. /\ LogNeedsSuccess'
      /\ RolledBackByLoggedRollback'
      /\ ChainWithinFirewall'
      /\ TargetsLogged'
    BY DEF IndInv, TypeOK, LogNeedsSuccess, RolledBackByLoggedRollback,
           ChainWithinFirewall, TargetsLogged, ExpireCommit, commandVars,
           logVars, agentVars
<1>. QED
    BY <1>1, <1>2, <1>3, <1>4, <1>5, <1>6 DEF IndInv

\* Deleting a firewall leaves its commands and its history.
LEMMA DeleteFirewallKeeps ==
    ASSUME IndInv, NEW f \in Firewalls, DeleteFirewall(f)
    PROVE  IndInv'
<1>1. TypeOK'
    BY DEF IndInv, TypeOK, Statuses, DeleteFirewall, commandVars, logVars,
           agentVars, Requests, Serving, Idle, Ops, overlapVars
<1>2. /\ DispatchNeedsStepUp'
      /\ LogNeedsSuccess'
      /\ AppliedIsLogged'
      /\ RolledBackByLoggedRollback'
      /\ ChainWithinFirewall'
      /\ InFlight'
      /\ TargetsLogged'
      /\ LoggedExists'
    BY DEF IndInv, TypeOK, DispatchNeedsStepUp, LogNeedsSuccess,
           AppliedIsLogged, RolledBackByLoggedRollback, ChainWithinFirewall,
           InFlight, TargetsLogged, LoggedExists, DeleteFirewall, commandVars,
           logVars, agentVars
<1>. QED
    BY <1>1, <1>2 DEF IndInv

\* The batch is confirmed when it is read
LEMMA PollReadKeeps ==
    ASSUME IndInv, NEW h \in Handlers, NEW f \in Firewalls, PollRead(h, f)
    PROVE  IndInv'
<1>1. TypeOK'
    BY BoundsAssumption DEF IndInv, TypeOK, Statuses, PollRead, commandVars,
           logVars, agentVars, Requests, Serving, Idle, Ops, Watch, Contended,
           Crossing
<1>2. InFlight'
    BY DEF IndInv, TypeOK, InFlight, PollRead, commandVars, logVars, agentVars,
           Requests, Serving, Idle, DispatchNeedsStepUp
<1>3. /\ DispatchNeedsStepUp'
      /\ LogNeedsSuccess'
      /\ AppliedIsLogged'
      /\ RolledBackByLoggedRollback'
      /\ ChainWithinFirewall'
      /\ TargetsLogged'
      /\ LoggedExists'
    BY DEF IndInv, TypeOK, DispatchNeedsStepUp, LogNeedsSuccess,
           AppliedIsLogged, RolledBackByLoggedRollback, ChainWithinFirewall,
           TargetsLogged, LoggedExists, PollRead, commandVars, logVars,
           agentVars
<1>. QED
    BY <1>1, <1>2, <1>3 DEF IndInv

\* ... and still is when the agent gets it
LEMMA PollRespondKeeps ==
    ASSUME IndInv, NEW h \in Handlers, NEW received \in BOOLEAN, PollRespond(h, received)
    PROVE  IndInv'
<1>1. TypeOK'
    BY BoundsAssumption DEF IndInv, TypeOK, Statuses, PollRespond, commandVars,
           logVars, agentVars, Requests, Serving, Idle, Ops, overlapVars
<1>2. DispatchNeedsStepUp'
    BY DEF IndInv, TypeOK, DispatchNeedsStepUp, PollRespond, commandVars,
           logVars, agentVars, InFlight
<1>3. AppliedIsLogged'
    BY DEF IndInv, TypeOK, AppliedIsLogged, PollRespond, commandVars, logVars,
           agentVars
<1>4. InFlight'
    BY DEF IndInv, TypeOK, InFlight, PollRespond, commandVars, logVars,
           agentVars, Requests, Serving, Idle
<1>5. LoggedExists'
    BY DEF IndInv, TypeOK, LoggedExists, PollRespond, commandVars, logVars,
           agentVars
<1>6. /\ LogNeedsSuccess'
      /\ RolledBackByLoggedRollback'
      /\ ChainWithinFirewall'
      /\ TargetsLogged'
    BY DEF IndInv, TypeOK, LogNeedsSuccess, RolledBackByLoggedRollback,
           ChainWithinFirewall, TargetsLogged, PollRespond, commandVars,
           logVars, agentVars
<1>. QED
    BY <1>1, <1>2, <1>3, <1>4, <1>5, <1>6 DEF IndInv

\* The agent executes only what a poll handed out.
LEMMA AgentExecuteKeeps ==
    ASSUME IndInv, NEW c \in Commands, NEW outcome \in Outcomes, AgentExecute(c, outcome)
    PROVE  IndInv'
<1>1. TypeOK'
    BY BoundsAssumption DEF IndInv, TypeOK, Statuses, AgentExecute, commandVars,
           logVars, agentVars, Requests, Serving, Idle, Ops, overlapVars
<1>2. DispatchNeedsStepUp'
    BY DEF IndInv, TypeOK, DispatchNeedsStepUp, AgentExecute, commandVars,
           logVars, agentVars
<1>3. LogNeedsSuccess'
    BY DEF IndInv, TypeOK, LogNeedsSuccess, AgentExecute, commandVars, logVars,
           agentVars
<1>4. InFlight'
    BY DEF IndInv, TypeOK, InFlight, AgentExecute, commandVars, logVars,
           agentVars, Requests, Serving, Idle
<1>5. /\ AppliedIsLogged'
      /\ RolledBackByLoggedRollback'
      /\ ChainWithinFirewall'
      /\ TargetsLogged'
      /\ LoggedExists'
    BY DEF IndInv, TypeOK, AppliedIsLogged, RolledBackByLoggedRollback,
           ChainWithinFirewall, TargetsLogged, LoggedExists, AgentExecute,
           commandVars, logVars, agentVars
<1>. QED
    BY <1>1, <1>2, <1>3, <1>4, <1>5 DEF IndInv

\* Only a command sent, so confirmed, is reported on
LEMMA ReportReadKeeps ==
    ASSUME IndInv, NEW h \in Handlers, NEW c \in Commands,
           NEW outcome \in Outcomes, ReportRead(h, c, outcome)
    PROVE  IndInv'
<1>1. TypeOK'
    <2>1. clock' \in 0..MaxStamp /\ request' \in [Handlers -> Requests]
        BY BoundsAssumption DEF IndInv, TypeOK, ReportRead, Requests, Serving, Ops
    <2>2. contested' \in SUBSET Commands /\ crossed' \in SUBSET Commands
        BY DEF IndInv, TypeOK, ReportRead, Watch, Contended, Crossing
    <2>. QED
        BY <2>1, <2>2
        DEF IndInv, TypeOK, ReportRead, commandVars, logVars, agentVars, Statuses
<1>2. InFlight'
    BY BoundsAssumption, NoneAssumption DEF IndInv, TypeOK, InFlight,
           ReportRead, commandVars, logVars, agentVars, Requests, Serving,
           Idle, DispatchNeedsStepUp, Outcomes
<1>3. /\ DispatchNeedsStepUp'
      /\ LogNeedsSuccess'
      /\ AppliedIsLogged'
      /\ RolledBackByLoggedRollback'
      /\ ChainWithinFirewall'
      /\ TargetsLogged'
      /\ LoggedExists'
    BY DEF IndInv, TypeOK, DispatchNeedsStepUp, LogNeedsSuccess,
           AppliedIsLogged, RolledBackByLoggedRollback, ChainWithinFirewall,
           TargetsLogged, LoggedExists, ReportRead, commandVars, logVars,
           agentVars
<1>. QED
    BY <1>1, <1>2, <1>3 DEF IndInv

\* A failure, also a late one, logs nothing and unlogs nothing.
LEMMA FailCommitKeeps ==
    ASSUME IndInv, NEW h \in Handlers, FailCommit(h)
    PROVE  IndInv'
<1>1. TypeOK'
    BY BoundsAssumption DEF IndInv, TypeOK, Statuses, FailCommit, commandVars,
           logVars, agentVars, Requests, Serving, Idle, Ops, InFlight, overlapVars
<1>2. DispatchNeedsStepUp'
    BY DEF IndInv, TypeOK, DispatchNeedsStepUp, FailCommit, commandVars,
           logVars, agentVars, InFlight
<1>3. AppliedIsLogged'
    BY DEF IndInv, TypeOK, AppliedIsLogged, FailCommit, commandVars, logVars,
           agentVars, InFlight
<1>4. InFlight'
    BY DEF IndInv, TypeOK, InFlight, FailCommit, commandVars, logVars,
           agentVars, Requests, Serving, Idle
<1>5. LoggedExists'
    BY DEF IndInv, TypeOK, LoggedExists, FailCommit, commandVars, logVars,
           agentVars, InFlight
<1>6. /\ LogNeedsSuccess'
      /\ RolledBackByLoggedRollback'
      /\ ChainWithinFirewall'
      /\ TargetsLogged'
    BY DEF IndInv, TypeOK, LogNeedsSuccess, RolledBackByLoggedRollback,
           ChainWithinFirewall, TargetsLogged, FailCommit, commandVars,
           logVars, agentVars
<1>. QED
    BY <1>1, <1>2, <1>3, <1>4, <1>5, <1>6 DEF IndInv

\* The link is a committed row of the firewall
LEMMA ReportChainKeeps ==
    ASSUME IndInv, NEW h \in Handlers, ReportChain(h)
    PROVE  IndInv'
<1>1. TypeOK'
    BY BoundsAssumption DEF IndInv, TypeOK, Statuses, ReportChain, commandVars,
           logVars, agentVars, Requests, Serving, Idle, Ops, InFlight, LogsOf,
           Latest, overlapVars
<1>2. InFlight'
    BY NoneAssumption, FirewallOfAssumption DEF IndInv, TypeOK, InFlight,
           ReportChain, commandVars, logVars, agentVars, Requests, Serving,
           Idle, LogsOf, Latest
<1>3. /\ DispatchNeedsStepUp'
      /\ LogNeedsSuccess'
      /\ AppliedIsLogged'
      /\ RolledBackByLoggedRollback'
      /\ ChainWithinFirewall'
      /\ TargetsLogged'
      /\ LoggedExists'
    BY DEF IndInv, TypeOK, DispatchNeedsStepUp, LogNeedsSuccess,
           AppliedIsLogged, RolledBackByLoggedRollback, ChainWithinFirewall,
           TargetsLogged, LoggedExists, ReportChain, commandVars, logVars,
           agentVars
<1>. QED
    BY <1>1, <1>2, <1>3 DEF IndInv

\* The row, the status and the mark on the target change together
LEMMA ReportCommitKeeps ==
    ASSUME IndInv, NEW h \in Handlers, ReportCommit(h)
    PROVE  IndInv'
<1>1. TypeOK'
    BY BoundsAssumption DEF IndInv, TypeOK, Statuses, ReportCommit, commandVars,
           logVars, agentVars, Requests, Serving, Idle, Ops, InFlight, Marked,
           overlapVars
<1>2. DispatchNeedsStepUp'
    BY DEF IndInv, TypeOK, DispatchNeedsStepUp, ReportCommit, commandVars,
           logVars, agentVars, InFlight
<1>3. LogNeedsSuccess'
    BY DEF IndInv, TypeOK, LogNeedsSuccess, ReportCommit, commandVars, logVars,
           agentVars, InFlight
<1>4. AppliedIsLogged'
    BY DEF IndInv, TypeOK, AppliedIsLogged, ReportCommit, commandVars, logVars,
           agentVars, InFlight
<1>5. RolledBackByLoggedRollback'
    BY NoneAssumption, BoundsAssumption DEF IndInv, TypeOK,
           RolledBackByLoggedRollback, ReportCommit, commandVars, logVars,
           agentVars, InFlight, TargetsLogged, Marked
<1>6. ChainWithinFirewall'
    BY NoneAssumption DEF IndInv, TypeOK, ChainWithinFirewall, ReportCommit,
           commandVars, logVars, agentVars, InFlight
<1>7. InFlight'
    BY NoneAssumption DEF IndInv, TypeOK, InFlight, ReportCommit, commandVars,
           logVars, agentVars, Requests, Serving, Idle
<1>8. TargetsLogged'
    BY NoneAssumption DEF IndInv, TypeOK, TargetsLogged, ReportCommit,
           commandVars, logVars, agentVars
<1>9. LoggedExists'
    BY DEF IndInv, TypeOK, LoggedExists, ReportCommit, commandVars, logVars,
           agentVars, InFlight
<1>. QED
    BY <1>1, <1>2, <1>3, <1>4, <1>5, <1>6, <1>7, <1>8, <1>9 DEF IndInv

\* A request that dies takes only what it remembered with it.
LEMMA AbortKeeps ==
    ASSUME IndInv, NEW h \in Handlers, Abort(h)
    PROVE  IndInv'
<1>1. TypeOK'
    BY BoundsAssumption DEF IndInv, TypeOK, Statuses, Abort, commandVars, logVars,
           agentVars, Requests, Serving, Idle, Ops, overlapVars
<1>2. InFlight'
    BY DEF IndInv, TypeOK, InFlight, Abort, commandVars, logVars, agentVars,
           Requests, Serving, Idle
<1>3. /\ DispatchNeedsStepUp'
      /\ LogNeedsSuccess'
      /\ AppliedIsLogged'
      /\ RolledBackByLoggedRollback'
      /\ ChainWithinFirewall'
      /\ TargetsLogged'
      /\ LoggedExists'
    BY DEF IndInv, TypeOK, DispatchNeedsStepUp, LogNeedsSuccess,
           AppliedIsLogged, RolledBackByLoggedRollback, ChainWithinFirewall,
           TargetsLogged, LoggedExists, Abort, commandVars, logVars, agentVars
<1>. QED
    BY <1>1, <1>2, <1>3 DEF IndInv

-----------------------------------------------------------------------------

\* The empty database.
LEMMA InitHolds == Init => IndInv
    BY BoundsAssumption
    DEF Init, IndInv, TypeOK, DispatchNeedsStepUp, LogNeedsSuccess, AppliedIsLogged,
        RolledBackByLoggedRollback, ChainWithinFirewall, InFlight, TargetsLogged,
        LoggedExists, Statuses, Requests, Ops, Serving, Idle

\* Every step of every request, and stuttering.
LEMMA StepKeeps ==
    ASSUME IndInv, [Next]_vars
    PROVE  IndInv'
<1>1. CASE UserStep
    <2>1. ASSUME NEW c \in Commands, CreateFirewallCommand(c)
          PROVE  IndInv'
        BY <2>1, InsertKeeps DEF CreateFirewallCommand
    <2>2. ASSUME NEW c \in Commands, RollbackFirewallCommand(c)
          PROVE  IndInv'
        <3>1. PICK l \in LogsOf(FirewallOf[c]) : Insert(c, l)
            BY <2>2 DEF RollbackFirewallCommand, Latest
        <3>. QED
            BY <3>1, InsertKeeps
    <2>. QED
        BY <1>1, <2>1, <2>2, TtlElapsesKeeps, ConfirmReadKeeps, ConfirmCommitKeeps,
           ExpireCommitKeeps, DeleteFirewallKeeps
        DEF UserStep
<1>2. CASE AgentStep
    BY <1>2, PollReadKeeps, PollRespondKeeps, AgentExecuteKeeps, ReportReadKeeps,
       FailCommitKeeps, ReportChainKeeps, ReportCommitKeeps
    DEF AgentStep
<1>3. CASE \E h \in Handlers : Abort(h)
    BY <1>3, AbortKeeps
<1>4. CASE UNCHANGED vars
    BY <1>4
    DEF vars, commandVars, logVars, agentVars, overlapVars, IndInv, TypeOK,
        DispatchNeedsStepUp, LogNeedsSuccess, AppliedIsLogged, RolledBackByLoggedRollback,
        ChainWithinFirewall, InFlight, TargetsLogged, LoggedExists
<1>. QED
    BY <1>1, <1>2, <1>3, <1>4 DEF Next

\* Whatever requests, agents and crashes do in whatever order, the database and
\* every open request satisfy the inductive invariant.
THEOREM Invariance == Spec => []IndInv
<1>. QED
    BY InitHolds, StepKeeps, PTL DEF Spec

\* The database and the requests stay within their types, in every behaviour.
THEOREM TypeCorrect == Spec => []TypeOK
<1>1. IndInv => TypeOK
    BY DEF IndInv
<1>. QED
    BY <1>1, Invariance, PTL

\* Step-up authentication cannot be bypassed: however many confirms, expiries,
\* polls and reports race on a command, the agent gets it and executes it only
\* after a confirmation of it was committed.
THEOREM StepUp == Spec => []DispatchNeedsStepUp
<1>1. IndInv => DispatchNeedsStepUp
    BY DEF IndInv
<1>. QED
    BY <1>1, Invariance, PTL

\* The change history is truthful: a row stands for a change the agent executed,
\* and an applied command has one.
THEOREM TruthfulHistory == Spec => []HistoryIsTruthful
<1>1. IndInv => HistoryIsTruthful
    BY DEF IndInv, HistoryIsTruthful
<1>. QED
    BY <1>1, Invariance, PTL

\* Whatever is rolled back meanwhile, a roll-back mark is that of a logged
\* rollback of the row, and a row links to a row of its own firewall.
THEOREM MarksAreTruthful ==
    Spec => [](RolledBackByLoggedRollback /\ ChainWithinFirewall)
<1>1. IndInv => RolledBackByLoggedRollback /\ ChainWithinFirewall
    BY DEF IndInv
<1>. QED
    BY <1>1, Invariance, PTL

-----------------------------------------------------------------------------
(***************************************************************************)
(* The transactions implement the permanent history.                       *)
(***************************************************************************)

Undone == {c \in Commands : rolledAt[c] # 0}

\* Only a successful report's commit touches the history; it appends its row.
LEMMA CommitAppends ==
    ASSUME IndInv, NEW h \in Handlers, ReportCommit(h)
    PROVE  History!Next
<1>. DEFINE c == request[h].cmd
            p == request[h].prev
<1>1. c \in Commands /\ request[h].at # 0 /\ p \in logs \union {None}
    BY DEF IndInv, TypeOK, Requests, InFlight, ReportCommit
<1>2. c \notin logs /\ logs' = logs \union {c} /\ chain' = [chain EXCEPT ![c] = p]
    BY DEF ReportCommit
<1>3. CASE target[c] = None
    <2>1. Undone' = Undone \union {}
        BY <1>3 DEF ReportCommit, Marked, Undone
    <2>. QED
        BY <1>1, <1>2, <2>1 DEF History!Next, History!Append, Undone
<1>4. CASE target[c] # None
    <2>1. target[c] \in logs
        BY <1>1, <1>4 DEF IndInv, TargetsLogged
    <2>2. Undone' = Undone \union {target[c]}
        BY <1>1, <1>4, <2>1 DEF ReportCommit, Marked, Undone, IndInv, TypeOK
    <2>. QED
        BY <1>1, <1>2, <2>1, <2>2 DEF History!Next, History!Append, Undone
<1>. QED
    BY <1>3, <1>4

\* Every step appends one row to the history or leaves it alone.
LEMMA StepImplements ==
    ASSUME IndInv, [Next]_vars
    PROVE  [History!Next]_(History!historyVars)
<1>1. CASE \E h \in Handlers : ReportCommit(h)
    BY <1>1, CommitAppends
<1>2. CASE UNCHANGED logVars
    BY <1>2 DEF logVars, History!historyVars
<1>. QED
    BY <1>1, <1>2
    DEF Next, UserStep, AgentStep, vars, CreateFirewallCommand, RollbackFirewallCommand,
        Insert, TtlElapses, ConfirmRead, ConfirmCommit, ExpireCommit, DeleteFirewall,
        PollRead, PollRespond, AgentExecute, ReportRead, FailCommit, ReportChain, Abort

\* remote_change_logs is a permanent history: whatever requests race, crash or
\* repeat, rows are only appended, one per command, none is rewritten, and a
\* change becomes undone exactly when the row of its rollback is appended.
THEOREM HistoryImplemented == Spec => HistorySpec
<1>1. Init => History!Init
    BY DEF Init, History!Init
<1>. QED
    BY <1>1, Invariance, StepImplements, PTL DEF Spec, HistorySpec, History!Spec

-----------------------------------------------------------------------------
(***************************************************************************)
(* What overlapping requests can break: what a request read still holds    *)
(* when it commits, unless another request held the same rows meanwhile.   *)
(***************************************************************************)

OverlapsAreNoted == Contended \subseteq contested /\ Crossing \subseteq crossed

\* What a request is about to write is still a move forward, and the time and
\* the link it took are still the newest of the firewall.
ReadHolds(h) ==
    LET r == request[h] IN
    /\ r.op \in {"confirm", "expire"} /\ r.cmd \notin contested =>
         status[r.cmd] = "pending_confirmation"
    /\ r.op = "poll" => \A c \in r.batch \ contested : status[c] = "confirmed"
    /\ r.op \in {"apply", "append", "fail"} /\ r.cmd \notin contested =>
         status[r.cmd] = "sent_to_agent"
    /\ r.op \in {"apply", "append"} =>
         \A d \in LogsOf(FirewallOf[r.cmd]) :
             r.cmd \notin crossed \/ d \notin crossed => appliedAt[d] < r.at
    /\ r.op = "append" /\ r.cmd \notin crossed =>
         \A d \in LogsOf(FirewallOf[r.cmd]) :
             r.prev # None /\ appliedAt[d] <= appliedAt[r.prev]

\* The clock has reached every time read from it.
TimesArePast ==
    /\ \A d \in logs : appliedAt[d] <= clock
    /\ \A h \in Handlers : request[h].at <= clock

OverlapInv ==
    /\ IndInv
    /\ OverlapsAreNoted
    /\ \A h \in Handlers : ReadHolds(h)
    /\ TimesArePast
    /\ LoggedIffApplied
    /\ ChainLinear

\* The part of a step that all share: the requests stay sound and overlaps are
\* noted for good.
Noted ==
    /\ IndInv'
    /\ OverlapsAreNoted'
    /\ contested \subseteq contested'
    /\ crossed \subseteq crossed'

\* A request that writes and ends, or goes on with the command it has, holds
\* nothing that it did not hold.
LEMMA NoNewOverlap ==
    ASSUME OverlapsAreNoted, UNCHANGED overlapVars,
           \A h \in Handlers :
               \/ request'[h] = request[h]
               \/ request'[h].op = "idle"
               \/ /\ request[h].op = "apply" /\ request'[h].op = "append"
                  /\ request'[h].cmd = request[h].cmd
    PROVE  OverlapsAreNoted'
<1>1. \A h \in Handlers, c \in Commands : Holds(h, c)' => Holds(h, c)
    BY DEF Holds
<1>2. \A h \in Handlers, f \in Firewalls : Recording(h, f)' =>
          Recording(h, f) /\ request'[h].cmd = request[h].cmd
    BY DEF Recording
<1>. QED
    BY <1>1, <1>2, FirewallOfAssumption
    DEF OverlapsAreNoted, Contended, Crossing, overlapVars

LEMMA WatchNotes ==
    ASSUME IndInv, OverlapsAreNoted, [Next]_vars
    PROVE  Noted
<1>1. IndInv'
    BY StepKeeps
<1>2. CASE Watch
    BY <1>1, <1>2 DEF Watch, Noted, OverlapsAreNoted
<1>3. ASSUME UNCHANGED overlapVars,
             \/ request' = request
             \/ \E h \in Handlers : request' = [request EXCEPT ![h] = Idle]
             \/ \E h \in Handlers : ReportChain(h)
      PROVE  Noted
    <2>1. \A h \in Handlers :
              \/ request'[h] = request[h]
              \/ request'[h].op = "idle"
              \/ /\ request[h].op = "apply" /\ request'[h].op = "append"
                 /\ request'[h].cmd = request[h].cmd
        BY <1>3 DEF ReportChain, Serving, Idle, IndInv, TypeOK
    <2>2. OverlapsAreNoted'
        BY <1>3, <2>1, NoNewOverlap
    <2>. QED
        BY <1>1, <1>3, <2>2 DEF Noted, overlapVars
<1>. QED
    BY <1>2, <1>3
    DEF Next, UserStep, AgentStep, vars, CreateFirewallCommand, RollbackFirewallCommand,
        Insert, TtlElapses, ConfirmRead, ConfirmCommit, ExpireCommit, DeleteFirewall,
        PollRead, PollRespond, AgentExecute, ReportRead, FailCommit, ReportChain,
        ReportCommit, Abort

\* A step that leaves statuses and history: only what the requests that moved
\* have read is to be shown.
LEMMA QuietKeeps ==
    ASSUME OverlapInv, Noted, UNCHANGED <<status, logVars>>, clock <= clock',
           \A h \in Handlers : request'[h] = request[h] \/ ReadHolds(h)',
           \A h \in Handlers : request'[h] = request[h] \/ request'[h].at <= clock'
    PROVE  OverlapInv'
<1>. USE DEF logVars
<1>1. ASSUME NEW h \in Handlers, request'[h] = request[h] PROVE ReadHolds(h)'
    BY <1>1 DEF OverlapInv, Noted, ReadHolds, LogsOf
<1>2. TimesArePast'
    BY BoundsAssumption DEF OverlapInv, Noted, IndInv, TypeOK, TimesArePast, Requests
<1>3. LoggedIffApplied' /\ ChainLinear'
    BY DEF OverlapInv, Noted, LoggedIffApplied, ChainLinear, LogsOf
<1>. QED
    BY <1>1, <1>2, <1>3 DEF OverlapInv, Noted

\* A commit that gives commands the request holds a status other than applied.
LEMMA UpdateKeeps ==
    ASSUME OverlapInv, Noted, NEW h \in Handlers,
           request' = [request EXCEPT ![h] = Idle], UNCHANGED <<logVars, clock>>,
           \A c \in Commands :
               status'[c] = status[c] \/ (Holds(h, c) /\ status'[c] # "applied")
    PROVE  OverlapInv'
<1>. USE DEF logVars
<1>1. ASSUME NEW g \in Handlers \ {h}, NEW c \in Commands, Holds(g, c), c \notin contested'
      PROVE  status'[c] = status[c]
    BY <1>1 DEF OverlapInv, Noted, OverlapsAreNoted, Contended
<1>2. ASSUME NEW g \in Handlers \ {h} PROVE ReadHolds(g)'
    <2>1. request'[g] = request[g]
        BY DEF OverlapInv, IndInv, TypeOK
    <2>2. /\ request[g].op \notin {"idle", "poll"} => request[g].cmd \in Commands
          /\ request[g].batch \subseteq Commands
        BY DEF OverlapInv, IndInv, TypeOK, InFlight, Requests
    <2>3. /\ request[g].op \notin {"idle", "poll"} => Holds(g, request[g].cmd)
          /\ request[g].op = "poll" => \A c \in request[g].batch : Holds(g, c)
        BY DEF Holds
    <2>. QED
        BY <1>1, <2>1, <2>2, <2>3 DEF OverlapInv, Noted, ReadHolds, LogsOf
<1>3. ReadHolds(h)'
    BY DEF OverlapInv, IndInv, TypeOK, ReadHolds, Idle, Serving
<1>4. TimesArePast'
    BY BoundsAssumption DEF OverlapInv, IndInv, TypeOK, TimesArePast, Idle, Serving
<1>5. LoggedIffApplied'
    <2>1. ASSUME NEW c \in Commands \ contested, Holds(h, c)
          PROVE  status[c] # "applied"
        BY <2>1 DEF OverlapInv, IndInv, TypeOK, Requests, Ops, ReadHolds, Holds
    <2>. QED
        BY <2>1 DEF OverlapInv, Noted, LoggedIffApplied
<1>6. ChainLinear'
    BY DEF OverlapInv, Noted, ChainLinear, LogsOf
<1>. QED
    BY <1>2, <1>3, <1>4, <1>5, <1>6 DEF OverlapInv, Noted

\* A new command is held by nobody.
LEMMA OverlapInsertKeeps ==
    ASSUME OverlapInv, Noted, NEW c \in Commands, NEW t, Insert(c, t)
    PROVE  OverlapInv'
<1>. USE DEF Insert, logVars
<1>1. ASSUME NEW h \in Handlers PROVE ReadHolds(h)'
    <2>1. \A d \in Commands : d # c => status'[d] = status[d]
        BY DEF OverlapInv, IndInv, TypeOK
    <2>2. request[h].op \notin {"idle", "poll"} => request[h].cmd \in Commands
        BY DEF OverlapInv, IndInv, InFlight
    <2>3. request[h].batch \subseteq Commands
        BY DEF OverlapInv, IndInv, TypeOK, Requests
    <2>. QED
        BY <2>1, <2>2, <2>3 DEF OverlapInv, Noted, ReadHolds, LogsOf
<1>2. TimesArePast' /\ ChainLinear'
    BY DEF OverlapInv, Noted, TimesArePast, ChainLinear, LogsOf
<1>3. LoggedIffApplied'
    BY DEF OverlapInv, Noted, IndInv, TypeOK, LoggedExists, LoggedIffApplied
<1>. QED
    BY <1>1, <1>2, <1>3 DEF OverlapInv, Noted

\* The time a report reads is newer than every row.
LEMMA OverlapReportReadKeeps ==
    ASSUME OverlapInv, Noted, NEW h \in Handlers, NEW c \in Commands,
           NEW outcome \in Outcomes, ReportRead(h, c, outcome)
    PROVE  OverlapInv'
<1>. DEFINE r == request'[h]
<1>1. /\ r \in {Serving("apply", c, {}, clock + 1, None), Serving("fail", c, {}, 0, None)}
      /\ r.op = "apply" => clock' = clock + 1
      /\ \A g \in Handlers \ {h} : request'[g] = request[g]
      /\ UNCHANGED <<status, logVars>>
    BY DEF ReportRead, OverlapInv, IndInv, TypeOK, commandVars, Serving
<1>2. clock \in Nat /\ clock' \in {clock, clock + 1}
    BY BoundsAssumption DEF ReportRead, OverlapInv, IndInv, TypeOK
<1>3. status[c] = "sent_to_agent"
    BY DEF ReportRead
<1>4. \A d \in logs : appliedAt[d] \in Nat /\ appliedAt[d] <= clock
    BY BoundsAssumption DEF OverlapInv, IndInv, TypeOK, TimesArePast
<1>5. ReadHolds(h)'
    BY <1>1, <1>2, <1>3, <1>4 DEF ReadHolds, LogsOf, Serving, logVars
<1>6. r.at <= clock'
    BY <1>1, <1>2 DEF Serving
<1>. QED
    BY <1>1, <1>2, <1>5, <1>6, QuietKeeps

\* The link is the newest row.
LEMMA OverlapReportChainKeeps ==
    ASSUME OverlapInv, Noted, NEW h \in Handlers, ReportChain(h)
    PROVE  OverlapInv'
<1>. DEFINE f == FirewallOf[request[h].cmd]
<1>1. request[h].op = "apply" /\ request[h].cmd \in Commands
    BY DEF ReportChain, OverlapInv, IndInv, InFlight
<1>2. PICK p \in Commands \union {None} :
          /\ p \in IF LogsOf(f) = {} THEN {None} ELSE Latest(f)
          /\ request' = [request EXCEPT ![h] =
                 Serving("append", request[h].cmd, {}, request[h].at, p)]
    BY DEF ReportChain, LogsOf, Latest, OverlapInv, IndInv, TypeOK
<1>3. \A d \in LogsOf(f) : p # None /\ appliedAt[d] <= appliedAt[p]
    BY <1>2, NoneAssumption DEF Latest, LogsOf, OverlapInv, IndInv, TypeOK
<1>4. /\ UNCHANGED <<status, logVars, clock>>
      /\ \A g \in Handlers \ {h} : request'[g] = request[g]
      /\ request'[h] = Serving("append", request[h].cmd, {}, request[h].at, p)
    BY <1>2 DEF ReportChain, OverlapInv, IndInv, TypeOK, commandVars
<1>5. ReadHolds(h)'
    BY <1>1, <1>3, <1>4 DEF OverlapInv, Noted, ReadHolds, LogsOf, Serving, logVars
<1>6. clock \in Nat /\ request'[h].at <= clock'
    BY <1>4, BoundsAssumption DEF OverlapInv, IndInv, TypeOK, TimesArePast, Serving
<1>. QED
    BY <1>4, <1>5, <1>6, QuietKeeps

\* A commit of a row: newer than those of the firewall that were not written
\* meanwhile, and linked to the newest if none was.
LEMMA OverlapReportCommitKeeps ==
    ASSUME OverlapInv, Noted, NEW h \in Handlers, ReportCommit(h)
    PROVE  OverlapInv'
<1>. DEFINE c == request[h].cmd
            f == FirewallOf[c]
            rows(k) == {d \in logs' : FirewallOf[d] = k}
<1>1. /\ request[h].op = "append" /\ c \in Commands /\ c \notin logs
      /\ request[h].at \in Nat /\ request[h].at <= clock /\ clock \in Nat
      /\ \A d \in logs : d \in Commands /\ appliedAt[d] \in Nat
    BY BoundsAssumption DEF ReportCommit, OverlapInv, IndInv, TypeOK, InFlight, TimesArePast, Requests
<1>2. /\ logs' = logs \union {c} /\ clock' = clock
      /\ \A d \in logs : chain'[d] = chain[d] /\ appliedAt'[d] = appliedAt[d]
      /\ chain'[c] = request[h].prev /\ appliedAt'[c] = request[h].at
      /\ \A d \in Commands \ {c} : status'[d] = status[d]
      /\ status'[c] = "applied"
      /\ \A g \in Handlers \ {h} : request'[g] = request[g]
      /\ request'[h] = Idle
    BY <1>1 DEF ReportCommit, OverlapInv, IndInv, TypeOK
<1>3. rows(f) = LogsOf(f) \union {c} /\ \A k : k # f => rows(k) = LogsOf(k)
    BY <1>2 DEF LogsOf
<1>4. ASSUME NEW g \in Handlers \ {h} PROVE ReadHolds(g)'
    <2>. DEFINE r == request[g]
    <2>1. /\ r.op \notin {"idle", "poll"} => r.cmd \in Commands
          /\ r.batch \subseteq Commands
          /\ r.op = "append" /\ r.prev # None => r.prev \in logs
        BY DEF OverlapInv, IndInv, TypeOK, InFlight, Requests
    <2>2. Holds(g, c) => c \in contested
        BY <1>1 DEF OverlapInv, OverlapsAreNoted, Contended, Holds
    <2>3. /\ r.op \in {"confirm", "expire"} /\ r.cmd \notin contested' =>
               status'[r.cmd] = "pending_confirmation"
          /\ r.op = "poll" => \A d \in r.batch \ contested' : status'[d] = "confirmed"
          /\ r.op \in {"apply", "append", "fail"} /\ r.cmd \notin contested' =>
               status'[r.cmd] = "sent_to_agent"
        BY <1>2, <2>1, <2>2 DEF OverlapInv, Noted, ReadHolds, Holds
    <2>4. r.op \in {"apply", "append"} /\ FirewallOf[r.cmd] = f => c \in crossed /\ r.cmd \in crossed
        <3>1. ASSUME r.op \in {"apply", "append"}, FirewallOf[r.cmd] = f
              PROVE  c \in Crossing /\ r.cmd \in Crossing
            BY <1>1, <2>1, <3>1 DEF Crossing, Recording
        <3>. QED
            BY <3>1 DEF OverlapInv, OverlapsAreNoted
    <2>5. ASSUME r.op \in {"apply", "append"}, NEW d \in rows(FirewallOf[r.cmd]),
                 r.cmd \notin crossed' \/ d \notin crossed'
          PROVE  appliedAt'[d] < r.at
        <3>1. d # c
            BY <1>2, <2>4, <2>5 DEF LogsOf, Noted
        <3>2. d \in LogsOf(FirewallOf[r.cmd]) /\ d \in logs
            BY <1>2, <2>5, <3>1 DEF LogsOf
        <3>. QED
            BY <1>2, <2>5, <3>2 DEF OverlapInv, Noted, ReadHolds
    <2>6. ASSUME r.op = "append", r.cmd \notin crossed', NEW d \in rows(FirewallOf[r.cmd])
          PROVE  r.prev # None /\ appliedAt'[d] <= appliedAt'[r.prev]
        <3>1. FirewallOf[r.cmd] # f
            BY <2>4, <2>6 DEF Noted
        <3>2. d \in LogsOf(FirewallOf[r.cmd]) /\ d \in logs
            BY <1>3, <2>6, <3>1 DEF LogsOf
        <3>3. r.prev # None /\ appliedAt[d] <= appliedAt[r.prev]
            BY <2>6, <3>2 DEF OverlapInv, Noted, ReadHolds
        <3>. QED
            BY <1>2, <2>1, <2>6, <3>2, <3>3
    <2>. QED
        BY <1>2, <2>3, <2>5, <2>6 DEF ReadHolds, LogsOf
<1>5. ReadHolds(h)'
    BY <1>2 DEF ReadHolds, Idle, Serving
<1>6. TimesArePast'
    BY <1>1, <1>2 DEF OverlapInv, TimesArePast, Idle, Serving
<1>7. LoggedIffApplied'
    BY <1>1, <1>2 DEF OverlapInv, Noted, LoggedIffApplied
<1>8. ChainLinear'
    <2>. DEFINE older(e) == {d \in rows(FirewallOf[e]) : appliedAt'[d] < appliedAt'[e]}
                Linked(e) ==
                    IF older(e) = {} THEN chain'[e] = None
                    ELSE /\ chain'[e] \in older(e)
                         /\ \A d \in older(e) : appliedAt'[d] <= appliedAt'[chain'[e]]
    <2>1. ASSUME c \notin crossed PROVE Linked(c)
        <3>1. older(c) = LogsOf(f)
            BY <1>1, <1>2, <1>3, <2>1 DEF OverlapInv, ReadHolds, LogsOf
        <3>2. \A d \in older(c) : chain'[c] # None /\ appliedAt[d] <= appliedAt[chain'[c]]
            BY <1>1, <1>2, <2>1, <3>1 DEF OverlapInv, ReadHolds
        <3>3. chain'[c] # None => chain'[c] \in older(c)
            BY <1>1, <1>2, <3>1 DEF OverlapInv, IndInv, InFlight, LogsOf
        <3>4. older(c) \subseteq logs
            BY <3>1 DEF LogsOf
        <3>. QED
            BY <1>2, <3>2, <3>3, <3>4
    <2>2. ASSUME NEW e \in logs \ crossed PROVE Linked(e)
        <3>1. FirewallOf[e] = f => ~(appliedAt'[c] < appliedAt'[e])
            <4>1. ASSUME FirewallOf[e] = f PROVE appliedAt[e] < request[h].at
                BY <1>1, <4>1 DEF OverlapInv, ReadHolds, LogsOf
            <4>. QED
                BY <1>1, <1>2, <4>1
        <3>2. older(e) = {d \in LogsOf(FirewallOf[e]) : appliedAt[d] < appliedAt[e]}
            BY <1>1, <1>2, <1>3, <3>1 DEF LogsOf
        <3>3. older(e) \subseteq logs /\ chain'[e] = chain[e]
            BY <1>2, <3>2 DEF LogsOf
        <3>. QED
            BY <1>2, <3>2, <3>3 DEF OverlapInv, ChainLinear
    <2>. QED
        BY <1>2, <2>1, <2>2 DEF ChainLinear, Noted, LogsOf
<1>. QED
    BY <1>4, <1>5, <1>6, <1>7, <1>8 DEF OverlapInv, Noted

\* A request that reads statuses, or ends with nothing written.
LEMMA OverlapRequestKeeps ==
    ASSUME OverlapInv, Noted, NEW h \in Handlers,
           \/ \E c \in Commands : ConfirmRead(h, c)
           \/ \E f \in Firewalls : PollRead(h, f)
           \/ Abort(h)
    PROVE  OverlapInv'
<1>1. /\ UNCHANGED <<status, logVars, clock>>
      /\ \A g \in Handlers \ {h} : request'[g] = request[g]
    BY DEF ConfirmRead, PollRead, Abort, OverlapInv, IndInv, TypeOK, commandVars
<1>2. ReadHolds(h)' /\ request'[h].at = 0
    BY DEF ConfirmRead, PollRead, Abort, OverlapInv, IndInv, TypeOK, ReadHolds, Serving,
           Idle, commandVars
<1>3. clock \in Nat
    BY BoundsAssumption DEF OverlapInv, IndInv, TypeOK
<1>. QED
    BY <1>1, <1>2, <1>3, QuietKeeps

\* Every step of every request, and stuttering.
LEMMA OverlapStepKeeps ==
    ASSUME OverlapInv, [Next]_vars
    PROVE  OverlapInv'
<1>0. Noted
    BY WatchNotes DEF OverlapInv
<1>1. ASSUME UNCHANGED <<status, logVars, clock, request>> PROVE OverlapInv'
    <2>1. clock \in Nat
        BY BoundsAssumption DEF OverlapInv, IndInv, TypeOK
    <2>. QED
        BY <1>0, <1>1, <2>1, QuietKeeps
<1>2. ASSUME NEW h \in Handlers, ConfirmCommit(h) \/ ExpireCommit(h) \/ FailCommit(h)
      PROVE  OverlapInv'
    <2>1. \A c \in Commands :
              status'[c] = status[c] \/ (Holds(h, c) /\ status'[c] # "applied")
        BY <1>2 DEF ConfirmCommit, ExpireCommit, FailCommit, Holds, OverlapInv, IndInv, TypeOK
    <2>. QED
        BY <1>0, <1>2, <2>1, UpdateKeeps DEF ConfirmCommit, ExpireCommit, FailCommit
<1>3. ASSUME NEW h \in Handlers, NEW received \in BOOLEAN, PollRespond(h, received)
      PROVE  OverlapInv'
    <2>1. \A c \in Commands :
              status'[c] = status[c] \/ (Holds(h, c) /\ status'[c] # "applied")
        BY <1>3 DEF PollRespond, Holds
    <2>. QED
        BY <1>0, <1>3, <2>1, UpdateKeeps DEF PollRespond
<1>4. CASE UserStep
    <2>1. ASSUME NEW c \in Commands, CreateFirewallCommand(c) \/ RollbackFirewallCommand(c)
          PROVE  OverlapInv'
        BY <1>0, <2>1, OverlapInsertKeeps DEF CreateFirewallCommand, RollbackFirewallCommand
    <2>2. ASSUME \/ \E c \in Commands : TtlElapses(c)
                 \/ \E f \in Firewalls : DeleteFirewall(f)
          PROVE  OverlapInv'
        BY <1>1, <2>2 DEF TtlElapses, DeleteFirewall, commandVars
    <2>. QED
        BY <1>0, <1>2, <1>4, <2>1, <2>2, OverlapRequestKeeps DEF UserStep
<1>5. CASE AgentStep
    <2>1. ASSUME NEW c \in Commands, NEW outcome \in Outcomes, AgentExecute(c, outcome)
          PROVE  OverlapInv'
        BY <1>1, <2>1 DEF AgentExecute, commandVars
    <2>. QED
        BY <1>0, <1>2, <1>3, <1>5, <2>1, OverlapRequestKeeps, OverlapReportReadKeeps,
           OverlapReportChainKeeps, OverlapReportCommitKeeps
        DEF AgentStep
<1>6. CASE \E h \in Handlers : Abort(h)
    BY <1>0, <1>6, OverlapRequestKeeps
<1>7. CASE UNCHANGED vars
    BY <1>1, <1>7 DEF vars, commandVars
<1>. QED
    BY <1>4, <1>5, <1>6, <1>7 DEF Next

\* However many requests overlap, what one read still holds at its commit unless
\* another held the same rows, and the overlaps are all noted.
THEOREM OverlapInvariance == Spec => []OverlapInv
<1>1. Init => OverlapInv
    BY InitHolds, BoundsAssumption
    DEF Init, OverlapInv, OverlapsAreNoted, Contended, Crossing, Holds,
        Recording, ReadHolds, TimesArePast, LoggedIffApplied, ChainLinear, LogsOf,
        Serving, Idle
<1>2. OverlapInv /\ [Next]_vars => OverlapInv'
    BY OverlapStepKeeps
<1>. QED
    BY <1>1, <1>2, PTL DEF Spec

\* The history of a firewall is one chain from its newest row back to its first,
\* however many requests are served at a time and however often one is repeated,
\* except at the rows written while another one of the firewall was.
THEOREM HistoryIsOneChain == Spec => []ChainLinear
<1>1. OverlapInv => ChainLinear
    BY DEF OverlapInv
<1>. QED
    BY <1>1, OverlapInvariance, PTL

\* The list of commands and the history show the same changes, except for the
\* commands that two requests held at one time.
THEOREM StatusAgreesWithHistory == Spec => []LoggedIffApplied
<1>1. OverlapInv => LoggedIffApplied
    BY DEF OverlapInv
<1>. QED
    BY <1>1, OverlapInvariance, PTL

\* A step moves a command nobody else holds forward or leaves it.
LEMMA StepIsForward ==
    ASSUME OverlapInv, [Next]_vars
    PROVE  [Lifecycle!Next]_<<status, contested>>
<1>. DEFINE Moved(c) == status'[c] = status[c] \/ <<status[c], status'[c]>> \in Lifecycle!Forward
<1>1. contested \subseteq contested'
    BY WatchNotes DEF OverlapInv, Noted
<1>2. ASSUME NEW c \in Commands, NEW t, Insert(c, t), NEW d \in Commands \ contested
      PROVE  Moved(d)
    BY <1>2 DEF Insert, Lifecycle!Forward, OverlapInv, IndInv, TypeOK
<1>3. ASSUME NEW h \in Handlers,
             ConfirmCommit(h) \/ ExpireCommit(h) \/ FailCommit(h) \/ ReportCommit(h),
             NEW d \in Commands \ contested
      PROVE  Moved(d)
    BY <1>3 DEF ConfirmCommit, ExpireCommit, FailCommit, ReportCommit, OverlapInv, IndInv,
                TypeOK, ReadHolds, Lifecycle!Forward
<1>4. ASSUME NEW h \in Handlers, NEW received \in BOOLEAN, PollRespond(h, received),
             NEW d \in Commands \ contested
      PROVE  Moved(d)
    BY <1>4 DEF PollRespond, OverlapInv, ReadHolds, Lifecycle!Forward
<1>5. ASSUME UNCHANGED status, NEW d \in Commands \ contested
      PROVE  Moved(d)
    BY <1>5
<1>6. ASSUME NEW d \in Commands \ contested
      PROVE  Moved(d)
    <2>. HIDE DEF Moved
    <2>. QED
        BY <1>2, <1>3, <1>4, <1>5, <1>6
        DEF Next, UserStep, AgentStep, vars, commandVars, CreateFirewallCommand,
            RollbackFirewallCommand, TtlElapses, ConfirmRead, DeleteFirewall, PollRead,
            AgentExecute, ReportRead, ReportChain, Abort
<1>. QED
    BY <1>1, <1>6 DEF Lifecycle!Next

\* A command that no two requests held at one time lives the documented life:
\* it only goes forward, enters a state once and keeps its last one.
THEOREM LifecycleImplemented == Spec => LifecycleSpec
<1>1. Init => Lifecycle!Init
    BY DEF Init, Lifecycle!Init
<1>2. OverlapInv /\ [Next]_vars => [Lifecycle!Next]_<<status, contested>>
    BY StepIsForward
<1>. QED
    BY <1>1, <1>2, OverlapInvariance, PTL DEF Spec, LifecycleSpec, Lifecycle!Spec

-----------------------------------------------------------------------------
(***************************************************************************)
(* The deployed wiring, where the update a poll makes is discarded.        *)
(***************************************************************************)

\* No command gets to where a report is accepted, so no request writes history.
NothingReported ==
    /\ \A c \in Commands : status[c] \in {"absent", "pending_confirmation", "confirmed", "expired"}
    /\ \A h \in Handlers : request[h].op \in {"idle", "confirm", "expire", "poll"}
    /\ \A c \in Commands : target[c] = None
    /\ logs = {}

LEMMA ServingFields ==
    ASSUME NEW op, NEW c, NEW batch, NEW at, NEW prev
    PROVE  Serving(op, c, batch, at, prev).op = op
    BY DEF Serving

LEMMA NothingReportedStep ==
    ASSUME ~PollCommits, TypeOK, NothingReported, [Next]_vars
    PROVE  NothingReported'
<1>. USE DEF TypeOK, NothingReported
<1>1. Idle.op = "idle"
    BY ServingFields DEF Idle
<1>2. ASSUME NEW c \in Commands, Insert(c, None) PROVE NothingReported'
    BY <1>2 DEF Insert, logVars
<1>3. ASSUME NEW c \in Commands, RollbackFirewallCommand(c) PROVE FALSE
    BY <1>3 DEF RollbackFirewallCommand, Latest, LogsOf
<1>4. ASSUME NEW h \in Handlers, NEW c \in Commands, ConfirmRead(h, c) PROVE NothingReported'
    <2>. DEFINE op == IF c \in overdue THEN "expire" ELSE "confirm"
                r == Serving(op, c, {}, 0, None)
    <2>1. request' = [request EXCEPT ![h] = r]
        BY <1>4 DEF ConfirmRead
    <2>2. r.op \in {"confirm", "expire"}
        BY ServingFields
    <2>. HIDE DEF r
    <2>. QED
        BY <1>4, <2>1, <2>2 DEF ConfirmRead, commandVars, logVars
<1>5. ASSUME NEW h \in Handlers, ConfirmCommit(h) \/ ExpireCommit(h) PROVE NothingReported'
    BY <1>1, <1>5 DEF ConfirmCommit, ExpireCommit, logVars
<1>6. ASSUME NEW h \in Handlers, NEW f \in Firewalls, PollRead(h, f) PROVE NothingReported'
    <2>. DEFINE batch == {c \in Commands : FirewallOf[c] = f /\ status[c] = "confirmed"}
                r == Serving("poll", None, batch, 0, None)
    <2>1. request' = [request EXCEPT ![h] = r]
        BY <1>6 DEF PollRead
    <2>2. r.op = "poll"
        BY ServingFields
    <2>. HIDE DEF r
    <2>. QED
        BY <1>6, <2>1, <2>2 DEF PollRead, commandVars, logVars
<1>7. ASSUME NEW h \in Handlers, NEW received \in BOOLEAN, PollRespond(h, received)
      PROVE  NothingReported'
    BY <1>1, <1>7 DEF PollRespond, logVars
<1>8. ASSUME NEW h \in Handlers, Abort(h) PROVE NothingReported'
    BY <1>1, <1>8 DEF Abort, commandVars, logVars
<1>9. ASSUME NEW h \in Handlers,
             \/ \E c \in Commands, outcome \in Outcomes : ReportRead(h, c, outcome)
             \/ FailCommit(h) \/ ReportChain(h) \/ ReportCommit(h)
      PROVE  FALSE
    BY <1>9 DEF ReportRead, FailCommit, ReportChain, ReportCommit
<1>10. CASE UNCHANGED <<status, request, target, logs>>
    BY <1>10
<1>. QED
    BY <1>2, <1>3, <1>4, <1>5, <1>6, <1>7, <1>8, <1>9, <1>10
    DEF Next, UserStep, AgentStep, CreateFirewallCommand, TtlElapses, DeleteFirewall,
        AgentExecute, vars, commandVars, logVars

\* As the API is wired, the agent can execute commands but no report of it is
\* ever accepted: no command is sent_to_agent, applied or failed, the history
\* stays empty and so no rollback can be queued.
THEOREM DeployedHistoryIsEmpty ==
    ASSUME ~PollCommits
    PROVE  Spec => []NothingReported
<1>1. Init => NothingReported
    BY ServingFields DEF Init, NothingReported, Idle
<1>2. TypeOK /\ NothingReported /\ [Next]_vars => NothingReported'
    BY NothingReportedStep
<1>. QED
    BY <1>1, <1>2, TypeCorrect, PTL DEF Spec
=============================================================================
