------------------------------- MODULE Accounts -------------------------------
(***************************************************************************)
(* Accounts, their organizations, and what their users reach: firewalls,   *)
(* alert channels and alert rules.                                         *)
(*                                                                         *)
(* Every request is one READ COMMITTED transaction.  A request of a user   *)
(* first loads its AuthContext (get_current_user), then works with that    *)
(* copy: the tier and the organizations in it may be stale.  An account    *)
(* with several organizations works in whichever one its set yields first. *)
(***************************************************************************)
EXTENDS Naturals

CONSTANTS
    Emails,         \* addresses, as CITEXT compares them
    Accounts,       \* ids of accounts, each with the one user it registers
    Organizations, Firewalls, Channels,     \* ids
    Legacy,         \* accounts from before migration 0004
    Handlers,       \* requests the backend serves at the same time
    None

ASSUME LegacyAssumption == Legacy \subseteq Accounts
ASSUME NoneAssumption ==
    None \notin Emails \union Accounts \union Organizations \union Firewalls \union Channels
ASSUME NoTierAssumption == None \notin {"free", "pro", "premium"}
\* Ids of different tables are different
ASSUME ItemsAssumption == Firewalls \intersect Channels = {}

VARIABLES
    type,           \* accounts.account_type, "absent" before the INSERT
    email,          \* users.email of the account's user
    tier,           \* subscriptions.tier of the account, None without a row
    accountOf,      \* organizations.account_id
    organizationOf, \* firewalls.organization_id and alert_channels.organization_id
    deleted,        \* firewalls whose deleted_at is set
    rules,          \* alert_rules
    migrated,       \* has migration 0004 run?
    request,        \* what each handler is serving
    shown, missed,  \* history: rows a user was shown, live ones he was denied
    paid            \* history: accounts that ever were above the free tier

rowVars == <<type, email, tier, accountOf, organizationOf, deleted, rules, migrated>>
historyVars == <<shown, missed, paid>>
vars == <<rowVars, historyVars, request>>

AccountTypes == {"individual", "multiempresa"}
Tiers == {"free", "pro", "premium"}
Items == Firewalls \union Channels

Rules == [organization : Organizations, channel : Channels,
          firewall : Firewalls \union {None}, creator : Accounts]

\* "registered": its rows are inserted and not committed; "context": its
\* AuthContext is loaded (organizations and tier are copies)
Requests == [op : {"idle", "register", "registered", "organize", "context"},
             type : AccountTypes, email : Emails \union {None},
             account : Accounts \union {None}, organization : Organizations \union {None},
             organizations : SUBSET Organizations, tier : Tiers]

Idle == [op |-> "idle", type |-> "individual", email |-> None, account |-> None,
         organization |-> None, organizations |-> {}, tier |-> "free"]

TypeOK ==
    /\ type \in [Accounts -> AccountTypes \union {"absent"}]
    /\ email \in [Accounts -> Emails \union {None}]
    /\ tier \in [Accounts -> Tiers \union {None}]
    /\ accountOf \in [Organizations -> Accounts \union {None}]
    /\ organizationOf \in [Items -> Organizations \union {None}]
    /\ deleted \subseteq Firewalls
    /\ rules \subseteq Rules
    /\ migrated \in BOOLEAN
    /\ request \in [Handlers -> Requests]
    /\ shown \subseteq Accounts \X Items
    /\ missed \subseteq Accounts \X Firewalls
    /\ paid \subseteq Accounts

OrganizationsOf(a) == {o \in Organizations : accountOf[o] = a}

\* Accounts from before the migration have their user and organizations
Init ==
    /\ type \in [Accounts -> AccountTypes \union {"absent"}]
    /\ email \in [Accounts -> Emails \union {None}]
    /\ accountOf \in [Organizations -> Legacy \union {None}]
    /\ \A a \in Accounts : /\ type[a] = "absent" <=> a \notin Legacy
                           /\ email[a] = None <=> a \notin Legacy
                           /\ type[a] = "individual" =>
                                \E o \in Organizations : OrganizationsOf(a) = {o}
    /\ \A a, b \in Legacy : email[a] = email[b] => a = b
    /\ tier = [a \in Accounts |-> None]
    /\ organizationOf = [i \in Items |-> None]
    /\ deleted = {}
    /\ rules = {}
    /\ migrated = FALSE
    /\ request = [h \in Handlers |-> Idle]
    /\ shown = {} /\ missed = {} /\ paid = {}

Step(h, op, next) == request[h].op = op /\ request' = [request EXCEPT ![h] = next]

-----------------------------------------------------------------------------
(***************************************************************************)
(* Registration, organizations, the migration.                             *)
(***************************************************************************)

\* get_by_email finds nobody
RegisterRead(h, t, e) ==
    /\ \A a \in Accounts : email[a] # e
    /\ Step(h, "idle", [Idle EXCEPT !.op = "register", !.type = t, !.email = e])
    /\ UNCHANGED <<rowVars, historyVars>>

\* Ids are generated once
FreshAccount(a) == type[a] = "absent" /\ \A g \in Handlers : request[g].account # a
FreshOrganization(o) == accountOf[o] = None /\ \A g \in Handlers : request[g].organization # o

\* Mutant: the INSERT of the user meets no UNIQUE constraint.
RegisterInsertAnyway(h, a, o) ==
    /\ FreshAccount(a)
    /\ o # None <=> request[h].type = "individual"
    /\ o # None => FreshOrganization(o)
    /\ Step(h, "register", [request[h] EXCEPT !.op = "registered", !.account = a,
                                              !.organization = o])
    /\ UNCHANGED <<rowVars, historyVars>>

\* The INSERTs.  users.email is UNIQUE: this one waits for another request
\* that holds the address, and can only Abort once the address is committed.
RegisterInsert(h, a, o) ==
    /\ FreshAccount(a)
    /\ o # None <=> request[h].type = "individual"
    /\ o # None => FreshOrganization(o)
    /\ \A b \in Accounts : email[b] # request[h].email
    /\ \A g \in Handlers \ {h} :
           request[g].op = "registered" => request[g].email # request[h].email
    /\ Step(h, "register", [request[h] EXCEPT !.op = "registered", !.account = a,
                                              !.organization = o])
    /\ UNCHANGED <<rowVars, historyVars>>

\* Account, organization (of an individual), user and subscription at once
RegisterCommit(h) ==
    LET r == request[h] IN
    /\ Step(h, "registered", Idle)
    /\ type' = [type EXCEPT ![r.account] = r.type]
    /\ email' = [email EXCEPT ![r.account] = r.email]
    /\ tier' = [tier EXCEPT ![r.account] = "free"]
    /\ accountOf' = [o \in Organizations |->
                       IF o = r.organization THEN r.account ELSE accountOf[o]]
    /\ UNCHANGED <<organizationOf, deleted, rules, migrated, historyVars>>

\* Mutant: an individual account gets as many organizations as it likes.
CreateOrganizationUnlimited(h, a) ==
    /\ type[a] # "absent"
    /\ Step(h, "idle", [Idle EXCEPT !.op = "organize", !.account = a])
    /\ UNCHANGED <<rowVars, historyVars>>

\* CreateOrganization (no route calls it): refused to an individual account
\* that has one
CreateOrganization(h, a) ==
    /\ type[a] # "absent"
    /\ type[a] = "individual" => OrganizationsOf(a) = {}
    /\ Step(h, "idle", [Idle EXCEPT !.op = "organize", !.account = a])
    /\ UNCHANGED <<rowVars, historyVars>>

CreateOrganizationCommit(h, o) ==
    /\ FreshOrganization(o)
    /\ Step(h, "organize", Idle)
    /\ accountOf' = [accountOf EXCEPT ![o] = request[h].account]
    /\ UNCHANGED <<type, email, tier, organizationOf, deleted, rules, migrated, historyVars>>

\* Migration 0004, run once while the API is serving: a subscription for
\* every account without one
Backfill ==
    /\ ~migrated
    /\ migrated' = TRUE
    /\ tier' = [a \in Accounts |->
                  IF type[a] # "absent" /\ tier[a] = None THEN "free" ELSE tier[a]]
    /\ UNCHANGED <<type, email, accountOf, organizationOf, deleted, rules, historyVars, request>>

\* A Stripe event is processed (Billing): free or pro, never premium
TierChanges(a, t) ==
    /\ tier[a] # None
    /\ tier' = [tier EXCEPT ![a] = t]
    /\ paid' = IF t = "free" THEN paid ELSE paid \union {a}
    /\ UNCHANGED <<type, email, accountOf, organizationOf, deleted, rules, migrated,
                   shown, missed, request>>

-----------------------------------------------------------------------------
(***************************************************************************)
(* Requests of a user.                                                     *)
(***************************************************************************)

\* get_current_user, for a token of the account's user: without a subscription
\* it answers 500
GetCurrentUser(h, a) ==
    /\ email[a] # None
    /\ tier[a] # None
    /\ Step(h, "idle", [Idle EXCEPT !.op = "context", !.account = a,
                          !.organizations = OrganizationsOf(a), !.tier = tier[a]])
    /\ UNCHANGED <<rowVars, historyVars>>

TierOrder == [free |-> 0, pro |-> 1, premium |-> 2]

\* Mutant: the guard lets every tier through.
RequireNoTier(h, least) == TierOrder[request[h].tier] >= TierOrder["free"]

\* require_tier: the tier of the context, not of the row
RequireTier(h, least) == TierOrder[request[h].tier] >= TierOrder[least]

\* _org_id_from_ctx: the first of a set of UUIDs, which may be any of them
Organization(h) == request[h].organizations

\* Mutant: the organization of the firewall is not compared.
LiveAnywhere(f, o) == organizationOf[f] # None /\ f \notin deleted

Live(f, o) == organizationOf[f] = o /\ f \notin deleted

\* What a page about a firewall answers: the firewall, or 404
View(h, f, o) ==
    LET a == request[h].account IN
    /\ Step(h, "context", Idle)
    /\ shown' = IF Live(f, o) THEN shown \union {<<a, f>>} ELSE shown
    /\ missed' = IF ~Live(f, o) /\ \E p \in OrganizationsOf(a) : Live(f, p)
                 THEN missed \union {<<a, f>>} ELSE missed
    /\ UNCHANGED <<rowVars, paid>>

GetFirewall(h, f) == \E o \in Organization(h) : View(h, f, o)

ListFindings(h, f) == RequireTier(h, "pro") /\ \E o \in Organization(h) : View(h, f, o)

GetFirewallRules(h, f) == RequireTier(h, "pro") /\ \E o \in Organization(h) : View(h, f, o)

GetFirewallVpnTunnels(h, f) == RequireTier(h, "pro") /\ \E o \in Organization(h) : View(h, f, o)

\* Lists show what belongs to the organization; without one they are empty
List(h, items) ==
    /\ Step(h, "context", Idle)
    /\ shown' = shown \union ({request[h].account} \X items)
    /\ UNCHANGED <<rowVars, missed, paid>>

ListFirewalls(h) ==
    \E o \in Organization(h) : List(h, {f \in Firewalls : Live(f, o)})

ListAlertChannels(h) ==
    /\ RequireTier(h, "pro")
    /\ \E o \in Organization(h) : List(h, {c \in Channels : organizationOf[c] = o})

ListAlertRules(h) ==
    /\ RequireTier(h, "pro")
    /\ \E o \in Organization(h) :
         List(h, {r.channel : r \in {r \in rules : r.organization = o}})

\* The INSERT of a firewall or a channel, and its commit
Insert(h, i) ==
    /\ organizationOf[i] = None
    /\ Step(h, "context", Idle)
    /\ \E o \in Organization(h) : organizationOf' = [organizationOf EXCEPT ![i] = o]
    /\ UNCHANGED <<type, email, tier, accountOf, deleted, rules, migrated, historyVars>>

CreateFirewall(h, f) == Insert(h, f)

CreateAlertChannel(h, c) == RequireTier(h, "pro") /\ Insert(h, c)

\* DeleteFirewall, its requests not split here (see FirewallRegistry)
DeleteFirewall(h, f) ==
    /\ Step(h, "context", Idle)
    /\ \E o \in Organization(h) : Live(f, o)
    /\ deleted' = deleted \union {f}
    /\ UNCHANGED <<type, email, tier, accountOf, organizationOf, rules, migrated, historyVars>>

\* Mutant: any existing channel will do.
CreateAlertRuleOfAnyChannel(h, c, f) ==
    /\ RequireTier(h, "pro")
    /\ Step(h, "context", Idle)
    /\ f # None => organizationOf[f] # None
    /\ organizationOf[c] # None
    /\ \E o \in Organization(h) :
         rules' = rules \union {[organization |-> o, channel |-> c, firewall |-> f,
                                 creator |-> request[h].account]}
    /\ UNCHANGED <<type, email, tier, accountOf, organizationOf, deleted, migrated, historyVars>>

\* The channel must be of the same organization; of the firewall only the
\* foreign key asks anything: that its row exists
CreateAlertRule(h, c, f) ==
    /\ RequireTier(h, "pro")
    /\ Step(h, "context", Idle)
    /\ f # None => organizationOf[f] # None
    /\ \E o \in Organization(h) :
         /\ organizationOf[c] = o
         /\ rules' = rules \union {[organization |-> o, channel |-> c, firewall |-> f,
                                    creator |-> request[h].account]}
    /\ UNCHANGED <<type, email, tier, accountOf, organizationOf, deleted, migrated, historyVars>>

\* A request that is refused, or dies: its transaction rolls back
Abort(h) ==
    /\ request[h].op # "idle"
    /\ request' = [request EXCEPT ![h] = Idle]
    /\ UNCHANGED <<rowVars, historyVars>>

AccountStep(h) ==
    \/ \E t \in AccountTypes, e \in Emails : RegisterRead(h, t, e)
    \/ \E a \in Accounts, o \in Organizations \union {None} : RegisterInsert(h, a, o)
    \/ RegisterCommit(h)
    \/ \E a \in Accounts : CreateOrganization(h, a) \/ GetCurrentUser(h, a)
    \/ \E o \in Organizations : CreateOrganizationCommit(h, o)
    \/ Abort(h)

FirewallStep(h) ==
    \/ ListFirewalls(h)
    \/ \E f \in Firewalls :
        \/ CreateFirewall(h, f)
        \/ DeleteFirewall(h, f)
        \/ GetFirewall(h, f)
        \/ ListFindings(h, f)
        \/ GetFirewallRules(h, f)
        \/ GetFirewallVpnTunnels(h, f)

AlertStep(h) ==
    \/ ListAlertChannels(h)
    \/ ListAlertRules(h)
    \/ \E c \in Channels :
        \/ CreateAlertChannel(h, c)
        \/ \E f \in Firewalls \union {None} : CreateAlertRule(h, c, f)

Next ==
    \/ \E h \in Handlers : AccountStep(h) \/ FirewallStep(h) \/ AlertStep(h)
    \/ Backfill
    \/ \E a \in Accounts, t \in {"free", "pro"} : TierChanges(a, t)

Spec == Init /\ [][Next]_vars

-----------------------------------------------------------------------------
(***************************************************************************)
(* Safety, with concurrent requests and stale contexts.                    *)
(***************************************************************************)

\* Registrations with one address at the same time leave one account: an
\* address has one, and no account lacks its user.
OneAccountPerEmail ==
    /\ \A a, b \in Accounts : email[a] = email[b] /\ email[a] # None => a = b
    /\ \A a \in Accounts : type[a] # "absent" <=> email[a] # None

\* An individual account has exactly one organization, and every account a
\* subscription, unless it is an old one the migration has yet to reach: no
\* request of a registered user ends in SUBSCRIPTION_MISSING after it.
AccountIsComplete ==
    \A a \in Accounts : type[a] # "absent" =>
        /\ type[a] = "individual" => \E o \in Organizations : OrganizationsOf(a) = {o}
        /\ tier[a] # None \/ (a \in Legacy /\ ~migrated)

\* Every page and list shows rows of the user's own account, also a list of
\* rules, which shows channels other requests attached to them; and the user of
\* an individual account is never answered 404 for a firewall of his that is
\* live, however old the organizations in his context are.
UsersSeeTheirOwn ==
    /\ \A s \in shown : \E o \in OrganizationsOf(s[1]) : organizationOf[s[2]] = o
    /\ \A m \in missed : type[m[1]] # "individual"

\* A rule's channel is of the rule's organization, and that of its creator's
\* account.
RuleOfOneOrganization ==
    \A r \in rules :
        /\ organizationOf[r.channel] = r.organization
        /\ accountOf[r.organization] = r.creator

\* Channels and rules exist only in accounts that were above the free tier
\* once, whenever the tier was read and changed.
AlertsWerePaid ==
    \A c \in Channels : organizationOf[c] # None => accountOf[organizationOf[c]] \in paid

=============================================================================
