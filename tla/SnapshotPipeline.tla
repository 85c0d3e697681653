-------------------------- MODULE SnapshotPipeline --------------------------
(***************************************************************************)
(* From the agent's snapshot to findings and alerts.  The API stores a     *)
(* snapshot as "queued".  A worker takes a batch of queued snapshots with  *)
(* FOR UPDATE SKIP LOCKED, marks one "processing" and commits (which gives *)
(* up the locks on the rest of its batch), runs the checks, commits their  *)
(* findings, e-mails the organization's channels, commits the deliveries,  *)
(* marks the snapshot "done" and goes on with the batch it listed.         *)
(*                                                                         *)
(* An exception anywhere rolls back what is not committed and ends the     *)
(* cycle: the rest of the batch is still queued, the snapshot at hand      *)
(* stays "processing" and no query ever lists it again.                    *)
(***************************************************************************)
EXTENDS Naturals, Sequences, FiniteSets

CONSTANTS
    Snapshots,      \* ids of snapshots
    Firewalls,      \* ids of firewalls, of one organization
    FirewallOf,     \* snapshots.firewall_id
    Findings,       \* ids of findings; bound: how many can ever be created
    Channels,       \* ids of e-mail channels of the organization
    Workers,        \* worker processes
    None,
    Checks,         \* check types in the order the worker registers them
    MaxYield,       \* findings one run of a check may return
    BatchSize,      \* _BATCH_SIZE
    MaxCrashes      \* bound: crashes and unexpected exceptions

ASSUME FirewallOfAssumption == FirewallOf \in [Snapshots -> Firewalls]
ASSUME ChecksAssumption ==
    /\ Checks \in Seq(DOMAIN MaxYield)
    /\ \A k \in DOMAIN MaxYield : MaxYield[k] \in Nat
ASSUME BatchAssumption == BatchSize \in Nat \ {0} /\ MaxCrashes \in Nat
ASSUME NoneAssumption == None \notin Snapshots

VARIABLES
    state,          \* snapshots.processing_status, "arriving" before the
                    \* commit of the row
    arrived,        \* snapshots by received_at
    before,         \* history: what was stored when a snapshot began to arrive
    finding,        \* findings.status, "absent" before its commit
    origin,         \* findings.snapshot_id and check_type
    owed,           \* history: channels that existed when a finding was committed
    channels,       \* active alert_channels
    delivered,      \* alert_deliveries: <<finding, channel, status>>
    emails,         \* e-mails that left for a finding and a channel
    worker,         \* what each worker is doing, and its open transaction
    locks,          \* rows a worker holds FOR UPDATE
    crashes

dbVars == <<state, arrived, before, finding, origin, owed, channels, delivered>>
vars == <<dbVars, emails, worker, locks, crashes>>

Pairs == Findings \X Channels
Deliveries == Findings \X Channels \X {"sent", "failed"}
Origins == [snapshot : Snapshots, check : DOMAIN MaxYield]
NoOrigin == [snapshot |-> None, check |-> None]

Stages == {"idle", "mark", "load", "check", "alert", "send", "finish"}

\* batch: snapshots listed that the loop has not come to; hand: the one it
\* is at; next: the check to run; made, sent: rows it has not committed
Activities == [stage : Stages, batch : SUBSET Snapshots, hand : Snapshots \union {None},
               prev : Snapshots \union {None}, next : 1..Len(Checks) + 1,
               made : SUBSET Findings, sent : SUBSET Deliveries, to : SUBSET Channels]

Resting == [stage |-> "idle", batch |-> {}, hand |-> None, prev |-> None, next |-> 1,
            made |-> {}, sent |-> {}, to |-> {}]

TypeOK ==
    /\ state \in [Snapshots -> {"absent", "arriving", "queued", "processing", "done"}]
    /\ arrived \in Seq(Snapshots)
    /\ before \in [Snapshots -> SUBSET Snapshots]
    /\ finding \in [Findings -> {"absent", "open", "resolved"}]
    /\ origin \in [Findings -> Origins \union {NoOrigin}]
    /\ owed \in [Findings -> SUBSET Channels]
    /\ channels \subseteq Channels
    /\ delivered \subseteq Deliveries
    /\ emails \in [Pairs -> Nat]
    /\ worker \in [Workers -> Activities]
    /\ locks \in [Workers -> SUBSET Snapshots]
    /\ crashes \in 0..MaxCrashes

Init ==
    /\ state = [s \in Snapshots |-> "absent"]
    /\ arrived = <<>>
    /\ before = [s \in Snapshots |-> {}]
    /\ finding = [f \in Findings |-> "absent"]
    /\ origin = [f \in Findings |-> NoOrigin]
    /\ owed = [f \in Findings |-> {}]
    /\ channels = {}
    /\ delivered = {}
    /\ emails = [p \in Pairs |-> 0]
    /\ worker = [w \in Workers |-> Resting]
    /\ locks = [w \in Workers |-> {}]
    /\ crashes = 0

-----------------------------------------------------------------------------
(***************************************************************************)
(* The API: snapshots come in, users add channels and resolve findings.    *)
(***************************************************************************)

\* received_at is the time at which the request's transaction began, with the
\* look-up of the agent's token, so requests may commit in another order
BeginIngest(s) ==
    /\ state[s] = "absent"
    /\ state' = [state EXCEPT ![s] = "arriving"]
    /\ arrived' = Append(arrived, s)
    /\ before' = [before EXCEPT ![s] =
         {t \in Snapshots : state[t] \notin {"absent", "arriving"}}]
    /\ UNCHANGED <<finding, origin, owed, channels, delivered, emails, worker, locks, crashes>>

\* IngestSnapshot commits the row; a request that dies never does
IngestSnapshot(s) ==
    /\ state[s] = "arriving"
    /\ state' = [state EXCEPT ![s] = "queued"]
    /\ UNCHANGED <<arrived, before, finding, origin, owed, channels, delivered, emails,
                   worker, locks, crashes>>

CreateAlertChannel(c) ==
    /\ c \notin channels
    /\ channels' = channels \union {c}
    /\ UNCHANGED <<state, arrived, before, finding, origin, owed, delivered, emails, worker,
                   locks, crashes>>

ResolveFinding(f) ==
    /\ finding[f] # "absent"
    /\ finding' = [finding EXCEPT ![f] = "resolved"]
    /\ UNCHANGED <<state, arrived, before, origin, owed, channels, delivered, emails, worker,
                   locks, crashes>>

-----------------------------------------------------------------------------
(***************************************************************************)
(* The worker.                                                             *)
(***************************************************************************)

AtHand(w) == worker[w].hand

LockedByOthers(w) == UNION {locks[v] : v \in Workers \ {w}}

IsBefore(s, t) == \E i, j \in DOMAIN arrived : i < j /\ arrived[i] = s /\ arrived[j] = t

\* ORDER BY received_at LIMIT _BATCH_SIZE
Oldest(rows) == {s \in rows : Cardinality({t \in rows : IsBefore(t, s)}) < BatchSize}

QueuedForUnfiltered(w) ==
    Oldest({s \in Snapshots : state[s] \notin {"absent", "arriving"} /\ s \notin LockedByOthers(w)})

\* The result of list_queued, without the rows others have locked
QueuedFor(w) ==
    Oldest({s \in Snapshots : state[s] = "queued" /\ s \notin LockedByOthers(w)})

\* list_queued locks the rows it returns
ListQueued(w) ==
    /\ worker[w].stage = "idle"
    /\ QueuedFor(w) # {}
    /\ worker' = [worker EXCEPT ![w] = [Resting EXCEPT !.stage = "mark",
                                                       !.batch = QueuedFor(w)]]
    /\ locks' = [locks EXCEPT ![w] = QueuedFor(w)]
    /\ UNCHANGED <<dbVars, emails, crashes>>

ComesLast(s, batch) == \A t \in batch \ {s} : IsBefore(t, s)

\* The loop goes over its batch in the order it was listed
ComesFirst(s, batch) == \A t \in batch \ {s} : IsBefore(s, t)

\* update_status(.., "processing") and commit, whatever the row's status is by
\* now; it waits for a lock, and the commit gives up all of its own
MarkProcessing(w) ==
    /\ worker[w].stage = "mark"
    /\ \E s \in worker[w].batch :
         /\ ComesFirst(s, worker[w].batch)
         /\ s \notin LockedByOthers(w)
         /\ state' = [state EXCEPT ![s] = "processing"]
         /\ worker' = [worker EXCEPT ![w].stage = "load", ![w].hand = s, ![w].batch = @ \ {s}]
    /\ locks' = [locks EXCEPT ![w] = {}]
    /\ UNCHANGED <<arrived, before, finding, origin, owed, channels, delivered, emails, crashes>>

\* get_previous_for_firewall: the newest other snapshot that is done (a null
\* previous when there is none)
PreviousOf(s) ==
    LET done == {p \in Snapshots \ {s} : FirewallOf[p] = FirewallOf[s] /\ state[p] = "done"}
    IN IF done = {} THEN {None}
       ELSE {p \in done : \A q \in done \ {p} : IsBefore(q, p)}

LoadContext(w) ==
    /\ worker[w].stage = "load"
    /\ \E p \in PreviousOf(AtHand(w)) :
         worker' = [worker EXCEPT ![w].stage = "check", ![w].prev = p, ![w].next = 1]
    /\ UNCHANGED <<dbVars, emails, locks, crashes>>

OpenOf(fw, k) == {f \in Findings : /\ finding[f] = "open"
                                   /\ FirewallOf[origin[f].snapshot] = fw
                                   /\ origin[f].check = k}

\* Ids not used by a row, committed or not
Unused == {f \in Findings : /\ finding[f] = "absent"
                            /\ \A v \in Workers : f \notin worker[v].made}

\* The check found that it already has one open finding and is skipped
SkipCheck(w) ==
    /\ worker[w].stage = "check"
    /\ worker[w].next <= Len(Checks)
    /\ Cardinality(OpenOf(FirewallOf[AtHand(w)], Checks[worker[w].next])) = 1
    /\ worker' = [worker EXCEPT ![w].next = @ + 1]
    /\ UNCHANGED <<dbVars, emails, locks, crashes>>

RunCheckAlways(w) ==
    LET k == Checks[worker[w].next] IN
    /\ worker[w].stage = "check"
    /\ worker[w].next <= Len(Checks)
    /\ \E found \in SUBSET Unused :
         /\ Cardinality(found) <= MaxYield[k]
         /\ worker' = [worker EXCEPT ![w].next = @ + 1, ![w].made = @ \union found]
         /\ origin' = [f \in Findings |-> IF f \in found
                                          THEN [snapshot |-> AtHand(w), check |-> k]
                                          ELSE origin[f]]
    /\ UNCHANGED <<state, arrived, before, finding, owed, channels, delivered, emails, locks,
                   crashes>>

\* No open finding of the check: it runs, and what it returns is created in
\* the worker's transaction (origin records what the row will be)
RunCheck(w) ==
    LET k == Checks[worker[w].next] IN
    /\ worker[w].stage = "check"
    /\ worker[w].next <= Len(Checks)
    /\ OpenOf(FirewallOf[AtHand(w)], k) = {}
    /\ \E found \in SUBSET Unused :
         /\ Cardinality(found) <= MaxYield[k]
         /\ worker' = [worker EXCEPT ![w].next = @ + 1, ![w].made = @ \union found]
         /\ origin' = [f \in Findings |-> IF f \in found
                                          THEN [snapshot |-> AtHand(w), check |-> k]
                                          ELSE origin[f]]
    /\ UNCHANGED <<state, arrived, before, finding, owed, channels, delivered, emails, locks,
                   crashes>>

RolledBackAndDone(w) ==
    /\ worker' = [worker EXCEPT ![w] = Resting]
    /\ locks' = [locks EXCEPT ![w] = {}]
    /\ origin' = [f \in Findings |-> IF f \in worker[w].made /\ finding[f] = "absent"
                                     THEN NoOrigin ELSE origin[f]]
    /\ state' = [s \in Snapshots |-> IF s = AtHand(w) THEN "done" ELSE state[s]]
    /\ UNCHANGED <<arrived, before, finding, owed, channels, delivered, emails>>

\* The transaction of a worker is lost: it starts a new cycle
RolledBack(w) ==
    /\ worker' = [worker EXCEPT ![w] = Resting]
    /\ locks' = [locks EXCEPT ![w] = {}]
    /\ origin' = [f \in Findings |-> IF f \in worker[w].made /\ finding[f] = "absent"
                                     THEN NoOrigin ELSE origin[f]]
    /\ UNCHANGED <<state, arrived, before, finding, owed, channels, delivered, emails>>

CheckRaisesOnAny(w) ==
    /\ worker[w].stage = "check"
    /\ worker[w].next <= Len(Checks)
    /\ Cardinality(OpenOf(FirewallOf[AtHand(w)], Checks[worker[w].next])) > 0
    /\ RolledBack(w)
    /\ UNCHANGED crashes

\* get_open_by_check_type reads with scalar_one_or_none(), which raises when
\* several findings of the check are open: the cycle fails
CheckRaises(w) ==
    /\ worker[w].stage = "check"
    /\ worker[w].next <= Len(Checks)
    /\ Cardinality(OpenOf(FirewallOf[AtHand(w)], Checks[worker[w].next])) > 1
    /\ RolledBack(w)
    /\ UNCHANGED crashes

CommitFindingsAllOpen(w) ==
    /\ worker[w].stage = "check"
    /\ worker[w].next > Len(Checks)
    /\ finding' = [f \in Findings |-> IF f \in worker[w].made THEN "open" ELSE finding[f]]
    /\ owed' = [f \in Findings |-> IF f \in worker[w].made THEN channels ELSE owed[f]]
    /\ worker' = [worker EXCEPT
         ![w].stage = "alert", ![w].made = {f \in Findings : finding'[f] = "open"}]
    /\ UNCHANGED <<state, arrived, before, origin, channels, delivered, emails, locks, crashes>>

\* AnalyzeSnapshot commits what the checks created
CommitFindings(w) ==
    /\ worker[w].stage = "check"
    /\ worker[w].next > Len(Checks)
    /\ finding' = [f \in Findings |-> IF f \in worker[w].made THEN "open" ELSE finding[f]]
    /\ owed' = [f \in Findings |-> IF f \in worker[w].made THEN channels ELSE owed[f]]
    /\ worker' = [worker EXCEPT
         ![w].stage = IF worker[w].made = {} THEN "finish" ELSE "alert"]
    /\ UNCHANGED <<state, arrived, before, origin, channels, delivered, emails, locks, crashes>>

\* DeliverAlerts lists the active channels of the firewall's organization
ListChannels(w) ==
    /\ worker[w].stage = "alert"
    /\ worker' = [worker EXCEPT ![w].stage = IF channels = {} THEN "finish" ELSE "send",
                                ![w].to = channels]
    /\ UNCHANGED <<dbVars, emails, locks, crashes>>

Unsent(w) == {p \in worker[w].made \X worker[w].to :
                \A d \in worker[w].sent : <<d[1], d[2]>> # p}

SendAlertAssumed(w, p, status) ==
    /\ worker[w].stage = "send"
    /\ p \in Unsent(w)
    /\ worker' = [worker EXCEPT ![w].sent = @ \union {<<p[1], p[2], "sent">>}]
    /\ emails' = IF status = "sent" THEN [emails EXCEPT ![p] = @ + 1] ELSE emails
    /\ UNCHANGED <<dbVars, locks, crashes>>

\* _send_one: the e-mail leaves or fails, which is caught and recorded
SendAlert(w, p, status) ==
    /\ worker[w].stage = "send"
    /\ p \in Unsent(w)
    /\ emails' = IF status = "sent" THEN [emails EXCEPT ![p] = @ + 1] ELSE emails
    /\ worker' = [worker EXCEPT ![w].sent = @ \union {<<p[1], p[2], status>>}]
    /\ UNCHANGED <<dbVars, locks, crashes>>

CommitAlerts(w) ==
    /\ worker[w].stage = "send"
    /\ Unsent(w) = {}
    /\ delivered' = delivered \union worker[w].sent
    /\ worker' = [worker EXCEPT ![w].stage = "finish"]
    /\ UNCHANGED <<state, arrived, before, finding, origin, owed, channels, emails, locks, crashes>>

\* update_status(.., "done"), commit, and on with the batch as it was listed
Finish(w) ==
    LET rest == worker[w].batch IN
    /\ worker[w].stage = "finish"
    /\ state' = [state EXCEPT ![AtHand(w)] = "done"]
    /\ worker' = [worker EXCEPT ![w] =
         [Resting EXCEPT !.stage = IF rest = {} THEN "idle" ELSE "mark", !.batch = rest]]
    /\ UNCHANGED <<arrived, before, finding, origin, owed, channels, delivered, emails, locks,
                   crashes>>

\* The process dies, or the cycle meets an exception, and starts again
Crash(w) ==
    /\ worker[w].stage # "idle"
    /\ crashes < MaxCrashes
    /\ crashes' = crashes + 1
    /\ RolledBack(w)

WorkerStep(w) ==
    \/ ListQueued(w)
    \/ MarkProcessing(w)
    \/ LoadContext(w)
    \/ SkipCheck(w)
    \/ RunCheck(w)
    \/ CheckRaises(w)
    \/ CommitFindings(w)
    \/ ListChannels(w)
    \/ \E p \in Pairs, status \in {"sent", "failed"} : SendAlert(w, p, status)
    \/ CommitAlerts(w)
    \/ Finish(w)

UserStep ==
    \/ \E s \in Snapshots : BeginIngest(s) \/ IngestSnapshot(s)
    \/ \E c \in Channels : CreateAlertChannel(c)
    \/ \E f \in Findings : ResolveFinding(f)

Next ==
    \/ UserStep
    \/ \E w \in Workers : WorkerStep(w) \/ Crash(w)

Spec == Init /\ [][Next]_vars

\* run() loops for ever: a worker that can go on does
FairSpec == Spec /\ \A w \in Workers : WF_vars(WorkerStep(w))

-----------------------------------------------------------------------------
(***************************************************************************)
(* Safety, with any number of workers and crashes.                         *)
(***************************************************************************)

\* However often a snapshot is analyzed, and whatever crashes between the
\* e-mail and the commit of its delivery, a channel gets at most one e-mail
\* for a finding: alerts go out for the findings a run created, never again.
EmailedAtMostOnce == \A p \in Pairs : emails[p] <= 1

\* A delivery recorded as sent is one whose e-mail left, and a committed
\* finding has one delivery at most for a channel.
DeliveryTruthful ==
    \A d \in delivered :
        /\ finding[d[1]] # "absent"
        /\ d[3] = "sent" => emails[<<d[1], d[2]>>] = 1
        /\ <<d[1], d[2], IF d[3] = "sent" THEN "failed" ELSE "sent">> \notin delivered

-----------------------------------------------------------------------------
(***************************************************************************)
(* Safety with the one worker of docker-compose.yml.                       *)
(***************************************************************************)

\* "repeated runs never duplicate findings" (analyze_snapshot.py:24): open
\* findings of a check on a firewall come from one run, so from one snapshot.
NoRepeatedFinding ==
    \A f, g \in Findings :
        LET fw == FirewallOf[origin[f].snapshot] IN
        /\ finding[f] = "open" /\ finding[g] = "open"
        /\ origin[f].check = origin[g].check
        /\ FirewallOf[origin[g].snapshot] = fw
        => origin[f].snapshot = origin[g].snapshot

\* The configuration drift of a snapshot is never computed against one that
\* began to arrive when the snapshot was already stored, also after crashes
\* left some unprocessed: only requests that overlapped can be compared
\* backwards.
PreviousIsEarlier ==
    \A w \in Workers :
        worker[w].stage # "idle" /\ worker[w].prev # None
        => AtHand(w) \notin before[worker[w].prev]

\* A snapshot shown as done has had its alerts attempted: each of its findings
\* has a delivery for every channel there was when it was committed.
DoneIsAlerted ==
    \A f \in Findings :
        finding[f] # "absent" /\ state[origin[f].snapshot] = "done"
        => \A c \in owed[f] : \E status \in {"sent", "failed"} : <<f, c, status>> \in delivered

\* Batches, crashes and the locks that a commit gives up leave a queue, first
\* in first out (SnapshotQueue): snapshots are served one at a time, each is
\* started once, after those that were stored when it began to arrive, and one
\* that is done is never processed again.
Queue == INSTANCE SnapshotQueue WITH
             serving <- {AtHand(w) : w \in Workers} \ {None}

QueueSpec == Queue!Spec

-----------------------------------------------------------------------------
(***************************************************************************)
(* Liveness with one worker (FairSpec).                                    *)
(***************************************************************************)

\* A cycle ended while it processed s, and no worker has it at hand
Abandoned(s) ==
    /\ state[s] = "processing"
    /\ \A w \in Workers : AtHand(w) # s

\* Every snapshot the agent got a 202 for is processed to the end, except one
\* at hand when the process crashed or when several findings of a check were
\* open: a failed cycle costs no other snapshot, of its batch or later ones.
QueuedIsProcessed ==
    \A s \in Snapshots :
        state[s] = "queued" ~>
            \/ state[s] = "done"
            \/ /\ Abandoned(s)
               /\ \/ crashes > 0
                  \/ \E fw \in Firewalls, k \in DOMAIN MaxYield :
                         Cardinality(OpenOf(fw, k)) > 1

-----------------------------------------------------------------------------
(***************************************************************************)
(* What the sources say and a run refutes.                                 *)
(***************************************************************************)

\* "a check that already has an open Finding of its check_type for this
\* firewall is skipped" (analyze_snapshot.py:23): a worker about to run a check
\* with an open finding goes on to the next check, unless the process crashes.
OpenFindingIsSkipped ==
    [][\A w \in Workers :
          /\ worker[w].stage = "check" /\ worker[w].next <= Len(Checks)
          /\ OpenOf(FirewallOf[AtHand(w)], Checks[worker[w].next]) # {}
          /\ worker'[w] # worker[w] /\ crashes' = crashes
          => worker'[w].next = worker[w].next + 1]_vars

=============================================================================
