--------------------------- MODULE AnalysisChecks ---------------------------
(***************************************************************************)
(* The six checks a worker runs on a snapshot, for one firewall: what each *)
(* looks at, and what becomes of it while snapshots wait in the queue,     *)
(* time passes, and users rename the firewall and resolve findings.  One   *)
(* worker (the interleavings of several are in SnapshotPipeline), and an   *)
(* agent that pushes a snapshot and waits for its answer, as agent.py does *)
(* (overlapping check-ins are in FirewallRegistry).  Names are told apart  *)
(* from those of the other small modules by "Checks".                      *)
(***************************************************************************)
EXTENDS Naturals, Sequences, FiniteSets, OrmUpdate

CONSTANTS
    Payloads,       \* what agents send, see PayloadAssumption
    KnownCves,      \* known_cves.json: a version's CVEs
    OfflineAfter,   \* agent_offline_threshold_minutes
    ExpiringWithin, \* expiring_cert_threshold_days
    Renames,        \* requests that rename the firewall
    Packets,        \* what may reach the firewall: its MatchFields
    None,
    MaxChecksTime, MaxQueue     \* bounds: the clock, snapshots waiting

\* What a rule is matched by
MatchFields == {"interface", "source", "destination", "port", "protocol"}

\* A payload as SnapshotPayload leaves it.  A rule is a dict of any fields: the
\* six that checks look at (None where one is missing), and its description
\* for all the others.  A certificate is the time it expires, None if that is
\* missing or unreadable.
PayloadAssumption ==
    \A p \in Payloads :
        /\ DOMAIN p = {"rules", "certificates", "interfaces", "system", "vpn_tunnels",
                       "pfsense_version"}
        /\ Len(p.rules) \in Nat /\ DOMAIN p.rules = 1..Len(p.rules)
        /\ \A i \in DOMAIN p.rules :
             DOMAIN p.rules[i] = MatchFields \union {"action", "description"}
        /\ \A i \in DOMAIN p.certificates : p.certificates[i] \in Nat \union {None}
ASSUME PayloadAssumption
ASSUME NoneIsNoPayload == None \notin Payloads
ASSUME ThresholdAssumption == {OfflineAfter, ExpiringWithin, MaxChecksTime, MaxQueue} \subseteq Nat

VARIABLES
    now,
    queue,          \* snapshots with their received_at
    firewall,       \* its row: last_seen_at and pfsense_version
    checkedIn,      \* history: when the agent last checked in
    renaming,       \* what each rename has read of the row, or None
    atHand,         \* the snapshot being analyzed and the firewall as loaded, or None
    previous,       \* payload of the newest done snapshot, or None
    driftOpen,      \* is a config_drift finding open?
    report,         \* what the checks of the last analysis returned, or None
    base            \* history: the payload the user knows of, or None

rowVars == <<firewall, checkedIn, renaming>>
checksVars == <<now, queue, rowVars, atHand, previous, driftOpen, report, base>>

ChecksInit ==
    /\ now = 0
    /\ queue = <<>>
    /\ firewall = [seen |-> None, version |-> None]
    /\ checkedIn = None
    /\ renaming = [r \in Renames |-> None]
    /\ atHand = None
    /\ previous = None
    /\ driftOpen = FALSE
    /\ report = None
    /\ base = None

-----------------------------------------------------------------------------
(***************************************************************************)
(* The checks: what run() returns.                                         *)
(***************************************************************************)

\* Mutant: the boundary belongs to the wrong side.
AgentOfflineAtCutoff(seen) == seen # None /\ seen + OfflineAfter <= now

\* agent_offline, from the firewall's last_seen_at
AgentOffline(seen) == seen # None /\ seen + OfflineAfter < now

\* risky_rule: a finding for each any-any rule that allows
RiskyRules(p) ==
    {i \in DOMAIN p.rules :
        /\ p.rules[i].action \in {"allow", "pass"}
        /\ p.rules[i].source = "any" /\ p.rules[i].destination = "any"}

\* Mutant: certificates that have expired already are passed over.
ExpiringCertsNotExpired(p) ==
    {[index |-> i, severity |-> "high"] : i \in {i \in DOMAIN p.certificates :
        /\ p.certificates[i] # None
        /\ p.certificates[i] <= now + ExpiringWithin
        /\ p.certificates[i] > now}}

\* expiring_cert: one for each that has expired or soon will
ExpiringCerts(p) ==
    {[index |-> i, severity |-> IF p.certificates[i] <= now THEN "critical" ELSE "high"] :
        i \in {i \in DOMAIN p.certificates :
                 /\ p.certificates[i] # None
                 /\ p.certificates[i] <= now + ExpiringWithin}}

\* known_cve: of the version in the payload, else of the firewall's
Cves(p, v) ==
    LET used == IF p.pfsense_version # None THEN p.pfsense_version ELSE v IN
    IF used \in DOMAIN KnownCves THEN KnownCves[used] ELSE {}

\* Mutant: what a rule is called is part of what it is.
RuleKeyWithDescription(rule) == rule

\* The six fields two rules must share
RuleKey(rule) == <<rule.interface, rule.source, rule.destination, rule.port, rule.protocol,
                   rule.action>>

\* duplicate_rule: the groups of two and more
DuplicateRules(p) ==
    LET groups == {{j \in DOMAIN p.rules : RuleKey(p.rules[j]) = RuleKey(p.rules[i])} :
                      i \in DOMAIN p.rules}
    IN {g \in groups : Cardinality(g) >= 2}

\* Mutant: a section less.
TrackedSectionsWithoutCertificates == {"rules", "interfaces", "system"}

\* _TRACKED_SECTIONS that a payload has: the section "vpn" is named
\* "vpn_tunnels" there, so it is None on both sides of every comparison
TrackedSections == {"rules", "interfaces", "certificates", "system"}

\* config_drift
ConfigDrift(p, before) ==
    IF before = None THEN {} ELSE {s \in TrackedSections : p[s] # before[s]}

-----------------------------------------------------------------------------
(***************************************************************************)
(* Around them.                                                            *)
(***************************************************************************)

ChecksTick ==
    /\ now < MaxChecksTime
    /\ now' = now + 1
    /\ UNCHANGED <<queue, rowVars, atHand, previous, driftOpen, report, base>>

\* IngestSnapshot with record_check_in
Ingest(p) ==
    /\ Len(queue) < MaxQueue
    /\ queue' = Append(queue, [payload |-> p, at |-> now])
    /\ firewall' = [seen |-> now,
                    version |-> IF p.pfsense_version # None THEN p.pfsense_version
                                ELSE firewall.version]
    /\ checkedIn' = now
    /\ UNCHANGED <<now, renaming, atHand, previous, driftOpen, report, base>>

\* RenameFirewall up to fw.name = name.  A request that dies stays where it is.
\* (DeleteFirewall reads and writes the row back the same way, but no snapshot
\* comes in after it.)
RenameRead(r) ==
    /\ renaming[r] = None
    /\ renaming' = [renaming EXCEPT ![r] = [copy |-> firewall, row |-> None]]
    /\ UNCHANGED <<now, queue, firewall, checkedIn, atHand, previous, driftOpen, report, base>>

\* FirewallRepository.update SELECTs the row again ...
RenameSelect(r) ==
    /\ renaming[r] # None
    /\ renaming[r].row = None
    /\ renaming' = [renaming EXCEPT ![r].row = firewall]
    /\ UNCHANGED <<now, queue, firewall, checkedIn, atHand, previous, driftOpen, report, base>>

\* ... and writes back what the copy has that the row has not
RenameCommit(r) ==
    /\ renaming[r] # None
    /\ renaming[r].row # None
    /\ firewall' = Updated(firewall, renaming[r].row, renaming[r].copy)
    /\ renaming' = [renaming EXCEPT ![r] = None]
    /\ UNCHANGED <<now, queue, checkedIn, atHand, previous, driftOpen, report, base>>

\* The oldest snapshot with its firewall and predecessor, as of now
LoadContext ==
    /\ atHand = None
    /\ queue # <<>>
    /\ atHand' = [payload |-> Head(queue).payload, at |-> Head(queue).at,
                  seen |-> firewall.seen, version |-> firewall.version,
                  outdated |-> firewall.seen # checkedIn, before |-> previous]
    /\ queue' = Tail(queue)
    /\ UNCHANGED <<now, rowVars, previous, driftOpen, report, base>>

\* AnalyzeSnapshot, and the snapshot is done.  Drift is not computed while a
\* finding of it is open; of the others every run is taken (what an open one
\* suppresses is in SnapshotPipeline).
RunChecks ==
    /\ atHand # None
    /\ LET p == atHand.payload IN
       /\ report' = [payload |-> p, at |-> atHand.at, ran |-> now,
                     outdated |-> atHand.outdated, offline |-> AgentOffline(atHand.seen),
                     risky |-> RiskyRules(p),
                     certificates |-> ExpiringCerts(p), cves |-> Cves(p, atHand.version),
                     duplicates |-> DuplicateRules(p)]
       /\ driftOpen' = (driftOpen \/ ConfigDrift(p, atHand.before) # {})
       /\ previous' = p
       /\ base' = IF driftOpen' \/ base = None THEN p ELSE base
    /\ atHand' = None
    /\ UNCHANGED <<now, queue, rowVars>>

\* The cycle fails: the snapshot stays "processing" and is nobody's predecessor
CycleFails ==
    /\ atHand # None
    /\ atHand' = None
    /\ UNCHANGED <<now, queue, rowVars, previous, driftOpen, report, base>>

ResolveDrift ==
    /\ driftOpen
    /\ driftOpen' = FALSE
    /\ UNCHANGED <<now, queue, rowVars, atHand, previous, report, base>>

ChecksNext ==
    \/ ChecksTick
    \/ \E p \in Payloads : Ingest(p)
    \/ \E r \in Renames : RenameRead(r) \/ RenameSelect(r) \/ RenameCommit(r)
    \/ LoadContext
    \/ RunChecks
    \/ CycleFails
    \/ ResolveDrift

ChecksSpec == ChecksInit /\ [][ChecksNext]_checksVars

-----------------------------------------------------------------------------
(***************************************************************************)
(* Safety.                                                                 *)
(***************************************************************************)

\* A snapshot that is analyzed within the threshold of its arrival is not
\* reported as of an agent that is offline, unless a rename had written an older
\* last_seen_at over that of the last check-in.
FreshIsNotOffline ==
    report # None /\ report.offline => report.ran > report.at + OfflineAfter \/ report.outdated

\* While no config_drift finding is open, the tracked sections are those of
\* the first snapshot, or of the last one analyzed under an open finding:
\* changes never add up unseen, also when snapshots in between are lost.
NoSilentDrift ==
    ~driftOpen /\ previous # None =>
        \A s \in {"rules", "interfaces", "certificates", "system"} : previous[s] = base[s]

Severity(r, i) ==
    IF [index |-> i, severity |-> "critical"] \in r.certificates THEN 2
    ELSE IF [index |-> i, severity |-> "high"] \in r.certificates THEN 1
    ELSE 0

\* From one analysis to a later one, an unchanged certificate is never judged
\* milder, and never missed once it was found.
CertificatesOnlyGetWorse ==
    [][report # None /\ report.payload.certificates = report'.payload.certificates =>
         \A i \in DOMAIN report.payload.certificates : Severity(report', i) >= Severity(report, i)
      ]_report

\* What a rule's action and two fields let through, hosts being "lan" and "wan"
LetsThrough(rule) ==
    LET hosts(field) == IF field = "any" THEN {"lan", "wan"} ELSE {field}
    IN IF rule.action \in {"allow", "pass"} THEN hosts(rule.source) \X hosts(rule.destination)
       ELSE {}

Matches(rule, packet) == \A f \in MatchFields : rule[f] \in {"any", packet[f]}

\* The action of the first rule of those in kept that matches, if one does
IsVerdict(rules, kept, packet, action) ==
    \E i \in kept :
        /\ Matches(rules[i], packet)
        /\ \A j \in kept : Matches(rules[j], packet) => i <= j
        /\ action = rules[i].action

\* "one of them is redundant" (duplicate_rule.py:3): when of every finding all
\* but the first rule are deleted, no two rules are left that match and do the
\* same, and what becomes of a packet is what it was.  risky_rule names exactly
\* the rules that let everything through.
RuleFindingsAreExact ==
    report # None =>
        LET rules == report.payload.rules
            kept == {i \in DOMAIN rules :
                       \A g \in report.duplicates : i \in g => \A j \in g : i <= j}
        IN /\ \A i, j \in kept :
                (\A f \in MatchFields \union {"action"} : rules[i][f] = rules[j][f]) => i = j
           /\ \A packet \in Packets : \A action \in {rules[i].action : i \in DOMAIN rules} :
                IsVerdict(rules, kept, packet, action)
                <=> IsVerdict(rules, DOMAIN rules, packet, action)
           /\ report.risky = {i \in DOMAIN rules :
                                LetsThrough(rules[i]) = {"lan", "wan"} \X {"lan", "wan"}}

=============================================================================
