# FireAudit: TLA+ models, model checking and proofs

FireAudit audits pfSense firewalls and, on the Pro tier, writes to them. An
agent on each firewall pushes snapshots to a FastAPI backend and polls it for
commands; a worker analyzes the snapshots, records findings and e-mails
alerts; users manage firewalls, confirm remote commands and pay through
Stripe. Paths below are under `src/backend/app` unless they say otherwise.

## 1. The system

| Component | State | Operations that change it |
|---|---|---|
| Remote commands (`use_cases/*_firewall_command*.py`, `routers/commands.py`, `routers/agent.py`) | `firewall_commands`, `remote_change_logs` | create, rollback, confirm (or expire), poll, report |
| Agent (`src/agent`, a stub) | what it was handed and executed | execute, report |
| Snapshot pipeline (`ingest_snapshot.py`, `workers/snapshot_worker.py`, `analyze_snapshot.py`, `deliver_alerts.py`) | `snapshots`, `findings`, `alert_channels`, `alert_deliveries`, row locks | ingest, list and lock a batch, mark, check, commit, send, finish, resolve, add channel |
| Billing (`process_stripe_webhook.py`, `create_checkout_session.py`) | `subscriptions`, `webhook_events` | open a checkout session, process an event |
| Firewall registry (`create_/rename_/delete_firewall.py`, `rotate_token.py`, `deps_auth.py`) | `firewalls`, `agent_tokens` | create, rename, delete, rotate, authenticate, check in |
| Sessions (`login_user.py`, `refresh_session.py`, `logout_user.py`, `*password_reset*`, `routers/auth.py`) | `users.password_hash`, `refresh_tokens`, `password_reset_tokens`, attempt lists in memory | login, refresh, logout, request and use a reset |
| Accounts (`register_account.py`, `create_organization.py`, migration 0004, `deps_auth.py`) | `accounts`, `organizations`, `users`, `subscriptions.tier`, the context a request loads | register, add an organization, backfill, load the context, test the tier |
| Alerts and views (`routers/alerts.py`, `routers/firewalls.py`) | `alert_channels`, `alert_rules` | create a channel or a rule (nothing evaluates rules), show firewalls, findings, rules, tunnels |
| Analysis checks (`application/checks`) | none: functions of a snapshot, its predecessor, the firewall's row and the clock | |
| Attempt limiters (`routers/auth.py`) | lists of times in the memory of the API process | check, restart |
| Pages of firewalls (`list_firewalls.py`) | none in the backend; a cursor at the reader | list a page |
| Browser client (`src/frontend/lib/api`, `login/page.tsx`) | tokens in localStorage, one refresh promise for each tab | log in, request, refresh, retry after 401, give up |

How they interact. Everything is shared through PostgreSQL. A request of the
API is one transaction: `get_db` (`infrastructure/database.py`) gives it a
session and closes it, and what no use case committed is rolled back. The
isolation is READ COMMITTED, and apart from the worker's `FOR UPDATE SKIP
LOCKED` no read takes a lock. Repositories write in two ways: a direct
`UPDATE`, or read-modify-write of an ORM row, which SELECTs the row again (the
session's identity map is weak and a repository keeps no row) and updates the
columns whose value changed (`OrmUpdate.tla`). The worker is another process:
it commits several times for each snapshot. Stripe calls the webhook until it
answers 200; mail leaves through SMTP inside the worker's transaction.

The API process also keeps the limiters' lists in memory, and the browser keeps
its session in storage that all tabs share.

What is hard. Any two requests interleave between their reads and their
commit, so a checked status, tier or row may be stale when it is written; a
request, the worker or the agent may die between two steps; responses, events
and reports are lost, repeated and reordered. `PROJECT.json` lists the hazards
by line.

What makes each part correct. Commands: nothing reaches the agent without a
password confirmation; the history is append-only, truthful and chained.
Pipeline: every snapshot is analyzed once, no finding is repeated, each
finding's alert is attempted once for every channel. Billing: an event acts
once, the plan follows Stripe. Registry: one live token for a firewall, none
once deleted, deletion is final. Sessions: a replaced token is dead, a reset ends
the sessions before it, a browser keeps a session that was not ended. Accounts:
complete and unique, users reach only their own rows, alerts need a paid tier.
Checks: what they report is true of the firewall and nothing changes unseen.

## 2. The modules

| Module | What it is |
|---|---|
| `FirewallCommands` | commands, change history and the agent, requests split at their reads, and which of them overlapped |
| `RemoteChangeHistory` | abstract: an append-only history with links and undone marks |
| `CommandLifecycle` | abstract: the states a command that no two requests held goes through |
| `FirewallCommandsProofs` | inductive invariants and theorems of the module and of its two refinements |
| `SnapshotPipeline` | ingest, worker, analysis, alerts |
| `SnapshotQueue` | abstract: the queue of snapshots, in the order they become visible allows |
| `Billing` | checkout sessions, Stripe and its webhook |
| `BillingHistory` | the same with history of overlaps and of the last event recorded |
| `BillingProofs` | inductive invariants and theorems of both |
| `FirewallRegistry` | firewalls, agent tokens, check-ins |
| `OrmUpdate` | what a read-modify-write of a row writes; used by `Billing`, `FirewallRegistry` and `AnalysisChecks` |
| `Sessions` | refresh tokens, logins, password reset |
| `Accounts` | registration, organizations, the subscription migration, users' contexts, the tier guard, alert channels and rules, views |
| `AnalysisChecks` | the six checks around one worker, with the queue, the clock and renames |
| `AttemptLimiter` | the sliding window of `auth.py` |
| `FirewallPages` | pages by cursor of a list that changes |
| `BrowserClient` | tokens, refreshes and logins of several tabs |
| other `*Proofs` | inductive invariants and theorems of the module they are named after |
| `SmallPartsProofs` | the same for the four modules above that share no state |
| `NaturalSets` | a lemma on sets of numbers that its proofs use |
| `MC*` | the instances TLC checks; `MCSmallParts` checks those four |

### FirewallCommands

A `Handler` is a request the backend is serving. `request[h]` holds what it has
read: `ConfirmRead` is `ConfirmFirewallCommand.execute` up to the write,
`ConfirmCommit` and `ExpireCommit` its two ends; `PollRead` is
`list_for_firewall` and the filter, `PollRespond` the updates and the answer;
`ReportRead` tests the status and reads the clock, `ReportChain` reads the
latest row, `ReportCommit` writes row, status and mark in one transaction and
`FailCommit` the failure. `Abort` is a request that dies. Creating a command
reads and inserts a fresh row and is one step. `update_status` overwrites
whatever the row holds by the time of the commit, as in the code.

The hash of a row is abstracted to the row it links to; payloads and states
are left out. Users' passwords are abstracted: a request whose password does
not verify changes nothing, and is no step.

`PollCommits` says whether a poll's update becomes durable. FALSE is the deployed
wiring: `PollFirewallCommands` gets no unit of work and nothing commits, so
commands never become `sent_to_agent`, every poll hands them out again and no
report is accepted. TRUE is the wiring of the repository's own integration tests,
`tests/conftest.py:51`, which give all requests one session, so that a later
commit carries the poll's update; only there the reports and the history of
`report_firewall_command_result.py` are reached at all. The theorems hold for both
values; nothing is claimed of how often a command is executed.

Two history variables, which no guard reads, say who overlapped: `contested`, the
commands that two requests held at one time, from read to write, and `crossed`,
those whose row was being written while another of the firewall was. A reading
step notes them (`Watch`). `ChainLinear`, `LoggedIffApplied` and `LifecycleSpec`
say that nothing but such an overlap breaks the chain, the agreement of status and
history, and the lifecycle: a late, lost or repeated request alone does not.

### SnapshotPipeline

A snapshot comes in in two steps. `BeginIngest` is the start of the request's
transaction, whose time `received_at` is (`models.py:149`, a server default), and
`IngestSnapshot` its commit, so ingests that overlap, of different firewalls above
all, become visible in another order than that of their `received_at`. `arrived`
is the order of `received_at`; `before` is history, what was stored when an ingest
began, which is all that the worker's order can respect.

A worker's `stage` is the point of `_process_batch` it is at. `ListQueued` takes
the locks; `batch` is what it listed and has not come to, a set, since `ORDER BY
received_at` orders it (`Oldest`, `ComesFirst`). `MarkProcessing` takes the first
of them in `hand` and commits, which gives up the locks on the whole batch;
`SkipCheck`, `RunCheck` and `CheckRaises` are the three outcomes of
`get_open_by_check_type`; `CommitFindings`, `ListChannels`, `SendAlert`,
`CommitAlerts` and `Finish` follow the code's order of commits. `Crash` (the
process dies, or an unexpected exception) and `CheckRaises` roll back what is not
committed and start a new cycle; e-mails that left stay sent. `owed` is a history
variable: the channels that existed when a finding was committed. `MaxYield` says
how many findings a check may return in one run: one for `agent_offline` and
`config_drift`, one for each offender for the others.

### Billing

Stripe is external: a paid checkout session becomes a subscription of a
customer of its own, and each change emits an event. `ReceiveEvent` is a
delivery that `exists()` does not know, `SelectSubscription` the read of
`update_from_stripe_event`, `CommitEvent` the write of the changed columns with
the row of `webhook_events`. The UNIQUE event id makes a second commit of an
event impossible: that request can only `Abort`. Events are delivered in any order.

An update may carry `current_period_end` (`period`). `process_stripe_webhook.py:70`
makes it a time with a zone, and `models.py:277` declares the column without one,
unlike every other time the code writes: asyncpg refuses the UPDATE, on every
delivery. `Writable` keeps such an event from being committed, and since no event
gets to write the column it is left out of the row. That is the finding of
`billing_period`, and why `EventsProcessed` speaks of writable events.

`BillingHistory` adds two history variables: `contested`, the accounts whose row
two different events had selected at one time, and `last`, the last recorded event
of an account that says anything of its plan.

### FirewallRegistry

`Begin` is the read that `RenameFirewall`, `DeleteFirewall` and `RotateToken`
share. `RevokeAll` is the start of the revoking UPDATE, which finds the active
tokens there are then; it waits for rows another request has updated
(`LockedByOthers`) and skips those revoked meanwhile. `SelectForRename` and
`SelectForDelete` are the second read, in `FirewallRepository.update`, and
`CommitUpdate` writes every field in which the stale copy differs from it.
`FirewallCommands` abstracts the same deletion to one step (`removed`): there,
only whether requests still get through matters.

### Sessions

`LoginRead`, `RefreshRead`, `LogoutRead` and `ResetRead` are the tests of the
four use cases; nothing they read is locked. `RefreshRevoke` is the UPDATE of
the token in hand, which waits for a row another request has updated (`Locked`)
and, as in the code, tests nothing again; `RefreshCommit` adds the successor and
commits both. `ResetUpdate` takes the user's row, so two resets of a user follow
each other; `ResetSweep` is the start of `revoke_all_for_user`, which sees the
tokens committed by then, and `ResetCommit` the end of the transaction. A token
is a model value that is generated once; passwords are versions, counted up by
resets; a token's expiry may come at any time (`lapsed`). `RequestPasswordReset`
reads and inserts a fresh row and is one step; the mail after its commit
changes nothing here. Access tokens are signed and checked by their own time
only, so nothing here ends them, and they are left out.

`parent`, `under` and `late` are history variables. `late` is defined by the
requests' times alone: a token is late when its request overlapped a reset of
its user, from the read that verified the password or the token to the commit,
or when it continues a late session. The code has no way to refuse these, and
the property is that it misses no other.

### Accounts

A request of a user loads an `AuthContext` first (`GetCurrentUser`): the tier and
the organizations in `request[h]` are copies and may be stale in the step that
follows, which is the rest of the request with its commit. `_org_id_from_ctx`
takes the first of a set of UUIDs, which may be any of them. Registration is
split at its test of the e-mail (`RegisterRead`), its INSERTs (`RegisterInsert`,
which wait for another request that holds the address) and its commit, which
makes account, organization, user and subscription visible at once.
`CreateOrganization` is split at its count; no route calls it. `Backfill` is the
INSERT of migration 0004 over the accounts from before it (`Legacy`), which may
run while the API serves, as the deployment runs `alembic upgrade head` beside it.
Names, passwords and a rule's metric, operator and threshold are left out.
`shown`, `missed` and `paid` are history.

### AnalysisChecks

Each check is an operator with the check's name. Around them one firewall's
snapshots wait in a queue; `Ingest` also checks the firewall in, `LoadContext`
reads firewall and predecessor, and `RunChecks` evaluates at a later `now`.
`CycleFails` loses the snapshot at hand, which stays `processing`. `agent.py`
pushes one snapshot and waits for the answer, so an ingest is one step here;
overlapping ones are in `FirewallRegistry` and `SnapshotPipeline`. A rename reads
the row, SELECTs it again and writes back what the copy has and the row has not
(`RenameRead`, `RenameSelect`, `RenameCommit`), `last_seen_at` and
`pfsense_version` included. `checkedIn` is history, when the agent last checked
in, and a report is `outdated` when the row said something else. Of the
suppression by open findings, config drift is kept, since it decides what is
compared with what; the others' is in `SnapshotPipeline`. A rule has the six
fields checks look at and its description, which stands for all its other fields;
what a set of rules does to a `Packet` is the action of the first that matches. A
certificate is its expiry; sections no check looks into are compared only. `base`
is history: the payload the user knows of.

### AttemptLimiter, FirewallPages, BrowserClient

`RateLimitCheck` is one step, since the function has no await. `accepted` is
history, the times of all attempts let through; the list of a key, `attempts`, is
the set of their numbers it still holds. `FirewallPages` follows `next_cursor`
while ids, which are random, come and go; `Smallest` is `ORDER BY id LIMIT n`. In
`BrowserClient` what a tab does for one answer is one step, because a promise and
all that await it run before the tab takes another answer; `stored` is shared by
the tabs. A pair of tokens is the number of its issue, so access tokens expire in
order. `Rotate` lets two requests for one token both succeed when they overlap, as
`Sessions` finds. `Login` in one tab stores its pair and leaves what the other
tabs have out as it is (`login/page.tsx:50`), so an answer to a refresh of an
earlier session may come after it. `session` tells whose session a pair is of and
`login` which is the last; `causes` collects what may have cost the user that one,
and starts anew with it.

## 3. The runs

Passing runs:

| Run | Question | Instance and why it is enough |
|---|---|---|
| `concurrent` | every interleaving of two requests: step-up, truthful history, `RemoteChangeHistory`, and for what did not overlap one chain, row iff applied, and `CommandLifecycle` | 2 handlers, 2 commands, 3 clock readings: each pair of stale writes on one command, two reports crossing, and a change with its rollback |
| `deployed_live` | deployed wiring: a confirmed command is executed, unless a confirm that had found it past its time is under way | `FairSpec`, 2 handlers, 2 firewalls with a command each, so one agent's polls must not starve the other's and two confirms meet at the expiry |
| `one_worker` | the deployed single worker with a crash and overlapping ingests: no repeated finding, alerts attempted, no e-mail twice and no delivery invented, snapshots taken as a queue (`SnapshotQueue`), every one processed but the one at hand when a cycle failed | `FairSpec`, 2 snapshots of one firewall, which may become visible in either order, in one batch or two, 3 findings, 2 checks, one of which may return two; the queue does not look at the firewall, and the drift compares snapshots of one |
| `billing_concurrent` | two webhook requests, any order, repeats: no event acts twice or on another account; the plan is consistent and mirrors Stripe but for what overlapped | 2 accounts, 2 sessions, 3 events, so the newest may be recorded after two that came out of order |
| `billing_live` | events that can be written are processed | `FairSpec`, 2 handlers, 2 subscriptions of one account, 2 events |
| `registry_concurrent` | three requests on one firewall: revocation and deletion stay, last seen was a check-in | 3 handlers, since a rename can bring back what two others did between its reads; 2 tokens |
| `sessions` | two requests of one user: what a refresh and a password reset end | 3 refresh tokens, so a session refreshed beside a second one, or twice; one link, used twice at the same time; symmetry of tokens, links and handlers |
| `accounts` | registrations, the migration, Stripe and users' requests: complete, unique, separate accounts; alerts need payment | 2 addresses, an old account and two new ones, 2 organizations, 2 handlers: two registrations of one address, a guard that read a tier before it changed |
| `small_parts` | four parts on their own: the checks while snapshots wait, the limiter's window, the pages of a changing list, a session in two tabs | 2 payloads (rules that shadow and repeat each other under different descriptions; certificates that expire in time or are unreadable), 3 times with thresholds of 1, so a report may be early or late, and one rename; 2 attempts in a window of 3; 4 ids, pages of 1 and 2; 2 tabs with 2 requests each and 3 pairs, so a rotation can be followed by a second, by a race or by a login |

Runs that find what the sources say refuted (`findings` in `PROJECT.json`
quotes them): `deployed` (a polled command stays confirmed), `poison` (two
open findings make a check raise), `billing_period` (an update that carries
`current_period_end` is never processed).

The models have other behaviours that a comment of the sources seems to exclude.
They have no run of their own: two reports at the same time chain to one row
(`report_firewall_command_result.py:29`), which `ChainLinear` says of `crossed`
rows only; two confirms around the expiry leave `expired` over `confirmed`
(`confirm_firewall_command.py:78`), which `ConfirmedIsExecuted` and
`CommandLifecycle` except; two uses of one reset link at the same time both change
the password (`reset_password.py:52`), and two refreshes of one token both get a
successor (`refresh_session.py:56`); a rollback applies after a newer change was
reported (`rollback_firewall_command.py:32` against the comment at
`report_firewall_command_result.py:100`, which accepts it); confirming moves a
command to `confirmed` and not to `sent_to_agent`
(`create_firewall_command.py:24`); two workers repeat a finding
(`analyze_snapshot.py:24`; one worker is deployed); two checkout sessions opened
on the free tier are both paid (`create_checkout_session.py:36`); events recorded
out of order leave the plan of the last recorded one, which is why `MirrorsStripe`
waits for the newest; a deletion and a checkout committed together leave a
subscription Pro and canceled (`repositories.py:606`), which `PlanIsConsistent`
says of `contested` accounts only; a rename that read before a deletion committed
writes the row back and un-deletes the firewall (`repositories.py:315`, against
`test_firewalls.py:98`), which is why `DeletionSettles` speaks of the requests
that do not overlap it; the same write sets a status and a time of check-in that
belong to different moments, and with such a time a snapshot just received is
reported as of an agent that is offline.

What the checks do not do is also visible. `agent_offline` "detects a firewall
whose agent has not checked in recently" (`agent_offline.py:1`), but it runs only
on a snapshot, which is itself a check-in: an agent that stays silent is never
reported. What it reports is a snapshot that waited longer than the threshold, or
an outdated row (`FreshIsNotOffline`); the tests put an old `last_seen_at` beside
a fresh snapshot by hand (`test_analyze_snapshot_worker.py:47`). `config_drift`
names a section `vpn` that payloads call `vpn_tunnels`, so drift there is never
seen; a change made while a drift finding is open is not reported. An alert rule's
`firewall_id` is tested by the foreign key alone, so a rule may name any
organization's firewall; `RuleOfOneOrganization` is about channels.

In the browser a session that was still valid is lost in four ways, and
`SessionIsKept` says in no other: the answer to a refresh is lost, or the tab that
awaits it unloaded; a retry is answered 401, because the new access token expired
before it arrived; two tabs refresh with the same token; the answer to a refresh
finds that another token has been stored since, of a login in another tab
(`login/page.tsx:50`), and overwrites or clears it (`client.ts:79`).

Bounds. `MaxStamp`, `MaxRuns`, `MaxEvents`, `MaxSeen`, `MaxCrashes`, `MaxIssued`,
`MaxQueue`, `MaxChecksTime` and `MaxLimiterTime` cap counters, clocks and the
queue; `MaxVersion`, `Findings`, `Tokens`, `Refreshes`, `Commands`, `Accounts`,
`Ids`, `Renames` and `Checkouts` cap what is ever created, so behaviours end and
the configurations set `CHECK_DEADLOCK FALSE`: the real system stops for want of
requests. Two concurrent requests are what every stale write here needs, except in
`FirewallRegistry`, which is checked with three; elsewhere a third adds only
repetitions of the pairs. No configuration uses symmetry with a liveness property.

Fairness. `FirewallCommands`: a request being served ends; the agent's cron polls
each live firewall again and again whatever else the backend serves (strong
fairness), not all the responses that carry a command are lost (strong, since a
loss is always possible), and it executes what it was handed. `SnapshotPipeline`:
a worker that can go on does, `run()` being an endless loop; the snapshot at hand
when a cycle fails stays `processing`, and the property excepts exactly that one.
`Billing`: requests end, Stripe delivers again until it gets 200 (comment at
`process_stripe_webhook.py:45`), and not every delivery of an event whose commit
the database can take fails on the way (strong). Of an event it never can take
nothing is assumed: `CommitEvent` is not enabled for it, and `EventsProcessed`
leaves it out.

## 4. The proofs

`FirewallCommandsProofs` proves, for every finite or infinite set of firewalls,
commands and handlers, for both values of `PollCommits` and any bounds (the
assumptions are the four ASSUMEs of `FirewallCommands`):

- `TypeCorrect`: `Spec => []TypeOK`;
- `StepUp`: `Spec => []DispatchNeedsStepUp`;
- `TruthfulHistory`: `HistoryIsTruthful`, which is `LogNeedsSuccess` and
  `AppliedIsLogged`;
- `MarksAreTruthful`: `RolledBackByLoggedRollback` and `ChainWithinFirewall`;
- `HistoryImplemented`: `Spec => HistorySpec`, the refinement of
  `RemoteChangeHistory`.

The argument. The properties alone are not inductive: a request that has read
may commit at any later time over a changed row. `InFlight` says what a request
remembers and why it stays true: a batch was confirmed when read and no step
takes a confirmation back; a report in flight has its success recorded at the
agent for ever; the row it links to is never removed. `TargetsLogged` and
`LoggedExists` say that a rollback's target is a row of its firewall and that an
id with a row is never given to a new command. `IndInv` is the conjunction; one
lemma per action shows it kept (`StepKeeps`), with a step for each conjunct the
action can disturb, and the refinement follows from `CommitAppends` (a
successful report appends) and `StepImplements` (nothing else touches the
history). TLC checked `IndInv` on the instance of `concurrent` first.

Its second half is about what requests that overlap can break, again for any
number of handlers, commands and firewalls and for both values of `PollCommits`:
`HistoryIsOneChain` (`ChainLinear`), `StatusAgreesWithHistory`
(`LoggedIffApplied`) and `LifecycleImplemented`, the refinement of
`CommandLifecycle`. `OverlapInv` adds to `IndInv` that what a request read still
holds when it writes (`ReadHolds`: the status it moves from, the time newer than
every row, the link to the newest one) unless the command is `contested` or the
rows are `crossed`, that every overlap has been noted (`OverlapsAreNoted`), and
that no time read is ahead of the clock (`TimesArePast`). A request that updates a
command makes the copies of all others stale, but then they held it too; one that
commits a row outdates the link of all others, but then they were recording too.
TLC checked `OverlapInv` on the instance of `concurrent`.

Its last theorem is about the deployed wiring (`~PollCommits`):
`DeployedHistoryIsEmpty` says what the finding of the run `deployed` comes to. No
command is ever `sent_to_agent`, `applied` or `failed`, `remote_change_logs` stays
empty, and so no rollback can be queued; TLC checked it on that run's instance.

`SessionsProofs` proves, for any users, tokens, links and handlers (from the
two ASSUMEs of `Sessions`): `SessionsTypeCorrect`, `ReplacedTokensAreDead`
(`RotationRevokes`) and `ResetEndsSessions` (`OnlyLateSessionsSurvive`). Again
the requests in flight carry the argument. `Refreshing`: the session a request
opens or continues is current, or a reset overlapped the request. `Resetting`:
the lock on the user's row admits one reset at a time, and a live token of its
user that its sweep did not find is late. So when a reset commits, every live
token is revoked or late, and every request still in flight becomes late. A
login, a refresh's commit and a reset's commit are the three steps that need
more than one conjunct; `NewTokenKeeps` serves the first two. TLC checked this
`IndInv` too, on the instance of `sessions`.

The others follow the same plan: `IndInv` is a conjunction of named parts,
each with a comment that says why the code keeps it, one lemma shows each action
keeps it, and the theorems are read from it. Their assumptions are the ASSUMEs of
the modules; sets are of any size (only `Ids`, the firewalls of `FirewallPages`, is
assumed finite), requests, workers and crashes of any number.

- `FirewallRegistryProofs`: a stale copy was once a row, so what it writes back
  was true once. `RevocationIsFinal`, `DeletionIsFinal` and `SeenWasCheckInAlways`
  follow from what each kind of copy can still undo.
- `BillingProofs`, for any order and repetition of events and any number of
  deliveries at a time: every event, sent or in a request's hands, is of a
  checkout that was paid, and of that checkout's account. `ProIsPaid`,
  `IdempotentByEvent`, `CustomerIdsStay`. The others are of `BillingHistory`.
  `PlansAreConsistent`: the row a request selected is still the row when it
  commits (`RowIsCurrent`), unless two events held it, so it writes tier and
  status together. `PlanMirrorsStripe`: the last event of a checkout that says
  anything says what Stripe holds (`LastEventSays`), and a row follows the last
  recorded one of its account (`RowFollows`); so a row mirrors Stripe when the two
  are the same event.
- `AccountsProofs`: what a request in flight holds (a fresh account, its address,
  organizations of its user's account) stays true until its commit; a tier above
  free in a context means the account paid. Five theorems, one for each property
  of `accounts`.
- `SnapshotPipelineProofs`, for any number of workers: a finding that is not
  committed is in the transaction of one worker, and an e-mail leaves only in the
  transaction that owns its finding. `EmailsAreNotRepeated`,
  `DeliveriesAreTruthful`, `PipelineTypeCorrect`.
- `SnapshotPipelineProofs`, for the one worker of `docker-compose.yml`
  (`OneWorker`: any two workers are the same), with ingests of any firewalls that
  overlap in any way. `OrderInv` says that a snapshot in the batch has only
  started ones before it, but for the batch, that snapshots are started after all
  they came behind (`before`) and that the one at hand came behind none started
  later; it needs that what `ORDER BY .. LIMIT` leaves out is younger than what it
  returns (`OldestAreInFront`, by counting). From it `PreviousIsAlwaysEarlier` and
  `QueueImplemented`, the refinement of `SnapshotQueue`. `RunInv` says that a
  snapshot has findings only from its own run, of checks that had none open, and
  which alerts that run owes at each stage: `FindingsAreNotRepeated` and
  `DoneIsAlwaysAlerted`. TLC checked both with three snapshots of two firewalls in
  batches of two and a crash. With two workers each of the four properties fails:
  the first commit gives up the locks on the rest of the batch.
- `SmallPartsProofs`, pages: the cursor divides the ids: what stayed below it was
  listed once, nothing above it yet (`PagesAreComplete`).
- `SmallPartsProofs`, limiter: times never go back, so what a list has dropped has
  left the window for good and what is in the window are the last attempts, which
  is why counting them is exact (`LimiterIsExact`).
- `SmallPartsProofs`, browser: a new pair is known to the tab that awaits it and
  to nobody else, so as long as none of the four causes has occurred the storage
  holds a token of the last login's session, one tab at most presents it, and it
  or what that tab awaits is live (`StoredIsPresented`); a login or the end of an
  earlier session leaves this so (`SessionIsKeptAlways`).
- `SmallPartsProofs`, checks: what waits was received when the agent last checked
  in or before, and the row that is loaded says so unless a rename changed it; the
  predecessor's tracked sections are those the user knows of; a report is a
  function of its payload and its time, and that function is monotone; rules with
  the same six fields match the same packets, so what is not the first of its
  group never decides (`VerdictOfKept`). `FreshIsNeverOffline`,
  `DriftIsNeverSilent`, `CertificatesNeverRecover`, `RuleFindingsAreExactAlways`.

Those of `SmallPartsProofs` use facts that need induction over data, that a set of
naturals has a least element (`NaturalSets`), or counting in finite sets; both
come from the library's theorems that take no operator. TLC checked each inductive
invariant on a small instance before it was proved.

Every invariant, action property and refinement that a passing run checks is
stated by a theorem. Only model-checked are the liveness properties
`ConfirmedIsExecuted`, `QueuedIsProcessed` and `EventsProcessed`: leads-to under
fairness and ENABLED are out of the prover's reach.

## 5. Not modelled

- The agent in the repository is a stub that executes nothing; the agent in
  `FirewallCommands` is external, one that does what the API expects.
- Construction of objects, routers, settings (`api/deps.py`, `main.py`,
  `core/config.py`): no state; the tier guard in `deps.py` is in `Accounts`.
- The pages of the frontend: rendering of what the API returns. Its client and
  storage are `BrowserClient`.
- Wording of e-mails and errors, serialization, password hashing and signatures
  (a wrong one changes nothing), audit logs (no code writes them).
- Migrations other than the backfill of 0004, deployment files and tests: read
  for constraints, the number of workers and what is promised.
- Listings that only read and concern one organization (`list_firewall_commands`,
  the history, `get_subscription`, `me`, the billing portal): they change nothing
  and `Accounts` checks who is shown what for the pages of firewalls and alerts.

What could still be added: `Sessions` with `BrowserClient` composed in one
specification.
