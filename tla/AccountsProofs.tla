---------------------------- MODULE AccountsProofs ----------------------------
(***************************************************************************)
(* Theorems about Accounts, for every number of accounts, organizations    *)
(* and concurrent requests.  Who belongs to whom never changes once it is  *)
(* written; the invariant says what the requests in flight may rely on     *)
(* because of that, however old the copies in their contexts are.          *)
(***************************************************************************)
EXTENDS Accounts, TLAPS

\* Organizations and their rows belong to accounts that exist.
OwnersExist ==
    /\ \A o \in Organizations : accountOf[o] # None => type[accountOf[o]] # "absent"
    /\ \A i \in Items : organizationOf[i] # None => accountOf[organizationOf[i]] # None

\* A tier above free is remembered.
PaidIsRemembered == \A a \in Accounts : tier[a] \in {"pro", "premium"} => a \in paid

\* Only accounts of several organizations miss firewalls of another of them.
MissedBySeveral == \A m \in missed : type[m[1]] = "multiempresa"

\* The rows a registration inserted are its own and not yet committed.
RegistersAnew(r) ==
    /\ r.account \in Accounts /\ type[r.account] = "absent"
    /\ \A b \in Accounts : email[b] # r.email
    /\ r.organization # None <=> r.type = "individual"
    /\ r.organization # None => accountOf[r.organization] = None

\* A context names organizations of its account, all of them if it is an
\* individual one, and a tier the account had.
ContextWasTrue(r) ==
    /\ r.account \in Accounts /\ type[r.account] # "absent"
    /\ r.organizations \subseteq OrganizationsOf(r.account)
    /\ type[r.account] = "individual" => r.organizations = OrganizationsOf(r.account)
    /\ r.tier # "free" => r.account \in paid

Sound(r) ==
    /\ r.op \in {"register", "registered"} => r.email \in Emails
    /\ r.op = "registered" => RegistersAnew(r)
    /\ r.op = "organize" => r.account \in Accounts /\ type[r.account] = "multiempresa"
    /\ r.op = "context" => ContextWasTrue(r)

\* Two registrations in flight have nothing in common.
Apart(r, q) ==
    r.op = "registered" /\ q.op = "registered" =>
        /\ r.account # q.account /\ r.email # q.email
        /\ r.organization # None => r.organization # q.organization

InFlight ==
    /\ \A h \in Handlers : Sound(request[h])
    /\ \A g, h \in Handlers : g # h => Apart(request[g], request[h])

RowsInv ==
    /\ OneAccountPerEmail
    /\ AccountIsComplete
    /\ OwnersExist
    /\ PaidIsRemembered
    /\ MissedBySeveral
    /\ UsersSeeTheirOwn
    /\ RuleOfOneOrganization
    /\ AlertsWerePaid

IndInv == TypeOK /\ RowsInv /\ InFlight

-----------------------------------------------------------------------------

LEMMA IdleIsARequest == Idle \in Requests /\ Idle.op = "idle"
    BY DEF Idle, Requests, AccountTypes, Tiers

LEMMA InitHolds == Init => IndInv
<1>. SUFFICES ASSUME Init PROVE IndInv
    OBVIOUS
<1>1. TypeOK
    BY IdleIsARequest, LegacyAssumption DEF Init, TypeOK, Tiers
<1>2. OneAccountPerEmail
    BY DEF Init, OneAccountPerEmail
<1>3. AccountIsComplete
    BY DEF Init, AccountIsComplete
<1>4. OwnersExist
    BY LegacyAssumption DEF Init, OwnersExist, Items
<1>5. /\ PaidIsRemembered /\ MissedBySeveral /\ UsersSeeTheirOwn /\ RuleOfOneOrganization
      /\ AlertsWerePaid
    BY NoTierAssumption DEF Init, PaidIsRemembered, MissedBySeveral, UsersSeeTheirOwn,
                            RuleOfOneOrganization, AlertsWerePaid, Items
<1>6. InFlight
    BY IdleIsARequest DEF Init, InFlight, Sound, Apart
<1>. QED
    BY <1>1, <1>2, <1>3, <1>4, <1>5, <1>6 DEF IndInv, RowsInv

\* A step of one request that leaves every row alone.
LEMMA RequestKept ==
    ASSUME IndInv, UNCHANGED <<rowVars, historyVars>>,
           NEW h \in Handlers, NEW r \in Requests, request' = [request EXCEPT ![h] = r],
           Sound(r), \A g \in Handlers \ {h} : Apart(request[g], r) /\ Apart(r, request[g])
    PROVE  IndInv'
<1>1. TypeOK'
    BY DEF IndInv, TypeOK, rowVars, historyVars
<1>2. RowsInv'
    BY DEF IndInv, RowsInv, OneAccountPerEmail, AccountIsComplete, OwnersExist,
           PaidIsRemembered, MissedBySeveral, UsersSeeTheirOwn, RuleOfOneOrganization,
           AlertsWerePaid, OrganizationsOf, rowVars, historyVars
<1>3. \A g \in Handlers : request'[g] = IF g = h THEN r ELSE request[g]
    BY DEF IndInv, TypeOK
<1>4. (\A g \in Handlers : Sound(request[g]))'
    BY <1>3 DEF IndInv, InFlight, Sound, RegistersAnew, ContextWasTrue, OrganizationsOf,
                rowVars, historyVars
<1>5. (\A f, g \in Handlers : f # g => Apart(request[f], request[g]))'
    BY <1>3 DEF IndInv, InFlight, Apart
<1>. QED
    BY <1>1, <1>2, <1>4, <1>5 DEF IndInv, InFlight

LEMMA AccountReadsKeep ==
    ASSUME IndInv, NEW h \in Handlers,
           \/ \E t \in AccountTypes, e \in Emails : RegisterRead(h, t, e)
           \/ \E a \in Accounts : CreateOrganization(h, a) \/ GetCurrentUser(h, a)
           \/ Abort(h)
    PROVE  IndInv'
<1>1. ASSUME NEW r \in Requests, request' = [request EXCEPT ![h] = r], Sound(r),
             r.op # "registered", UNCHANGED <<rowVars, historyVars>>
      PROVE  IndInv'
    BY <1>1, RequestKept DEF Apart
<1>2. ASSUME NEW t \in AccountTypes, NEW e \in Emails, RegisterRead(h, t, e) PROVE IndInv'
    <2>. DEFINE r == [Idle EXCEPT !.op = "register", !.type = t, !.email = e]
    <2>1. r \in Requests /\ r.op = "register" /\ r.email = e
        BY IdleIsARequest DEF Requests
    <2>2. request' = [request EXCEPT ![h] = r] /\ UNCHANGED <<rowVars, historyVars>>
        BY <1>2 DEF RegisterRead, Step
    <2>. HIDE DEF r
    <2>3. Sound(r)
        BY <2>1 DEF Sound
    <2>. QED
        BY <1>1, <2>1, <2>2, <2>3
<1>3. ASSUME NEW a \in Accounts, CreateOrganization(h, a) PROVE IndInv'
    <2>. DEFINE r == [Idle EXCEPT !.op = "organize", !.account = a]
    <2>1. r \in Requests /\ r.op = "organize" /\ r.account = a
        BY IdleIsARequest DEF Requests
    <2>2. request' = [request EXCEPT ![h] = r] /\ UNCHANGED <<rowVars, historyVars>>
        BY <1>3 DEF CreateOrganization, Step
    <2>3. type[a] = "multiempresa"
        BY <1>3 DEF CreateOrganization, IndInv, RowsInv, AccountIsComplete, TypeOK, AccountTypes
    <2>. HIDE DEF r
    <2>4. Sound(r)
        BY <2>1, <2>3 DEF Sound
    <2>. QED
        BY <1>1, <2>1, <2>2, <2>4
<1>4. ASSUME NEW a \in Accounts, GetCurrentUser(h, a) PROVE IndInv'
    <2>. DEFINE r == [Idle EXCEPT !.op = "context", !.account = a,
                        !.organizations = OrganizationsOf(a), !.tier = tier[a]]
    <2>1. tier[a] \in Tiers /\ OrganizationsOf(a) \subseteq Organizations
        BY <1>4 DEF GetCurrentUser, IndInv, TypeOK, OrganizationsOf
    <2>2. /\ r \in Requests /\ r.op = "context" /\ r.account = a
          /\ r.organizations = OrganizationsOf(a) /\ r.tier = tier[a]
        BY <2>1, IdleIsARequest DEF Requests
    <2>3. request' = [request EXCEPT ![h] = r] /\ UNCHANGED <<rowVars, historyVars>>
        BY <1>4 DEF GetCurrentUser, Step
    <2>. HIDE DEF r
    <2>4. type[a] # "absent" /\ (tier[a] # "free" => a \in paid)
        BY <1>4, <2>1 DEF GetCurrentUser, IndInv, RowsInv, OneAccountPerEmail,
                          PaidIsRemembered, Tiers
    <2>5. Sound(r)
        BY <2>2, <2>4 DEF Sound, ContextWasTrue
    <2>. QED
        BY <1>1, <2>2, <2>3, <2>5
<1>5. CASE Abort(h)
    <2>1. Sound(Idle)
        BY IdleIsARequest DEF Sound
    <2>. QED
        BY <1>1, <1>5, <2>1, IdleIsARequest DEF Abort
<1>. QED
    BY <1>2, <1>3, <1>4, <1>5

\* The INSERT of the e-mail waited for every other registration of it.
LEMMA RegisterInsertKeeps ==
    ASSUME IndInv, NEW h \in Handlers, NEW a \in Accounts,
           NEW o \in Organizations \union {None}, RegisterInsert(h, a, o)
    PROVE  IndInv'
<1>. DEFINE r == [request[h] EXCEPT !.op = "registered", !.account = a, !.organization = o]
<1>1. /\ r \in Requests /\ r.op = "registered" /\ r.account = a /\ r.organization = o
      /\ r.email = request[h].email /\ r.type = request[h].type
    BY DEF IndInv, TypeOK, Requests
<1>2. request' = [request EXCEPT ![h] = r] /\ UNCHANGED <<rowVars, historyVars>>
    BY DEF RegisterInsert, Step
<1>. HIDE DEF r
<1>3. Sound(request[h]) /\ request[h].op = "register"
    BY DEF RegisterInsert, Step, IndInv, InFlight
<1>4. Sound(r)
    BY <1>1, <1>3 DEF Sound, RegistersAnew, RegisterInsert, FreshAccount, FreshOrganization
<1>5. \A g \in Handlers \ {h} : Apart(request[g], r) /\ Apart(r, request[g])
    BY <1>1 DEF Apart, RegisterInsert, FreshAccount, FreshOrganization
<1>. QED
    BY <1>1, <1>2, <1>4, <1>5, RequestKept

-----------------------------------------------------------------------------
(***************************************************************************)
(* The commits that give accounts and organizations an owner.              *)
(***************************************************************************)

\* What has an owner keeps it.
LEMMA OwnershipKept ==
    ASSUME IndInv, TypeOK', UNCHANGED <<organizationOf, rules, shown, missed, paid>>,
           \A o \in Organizations : accountOf[o] # None => accountOf'[o] = accountOf[o],
           \A b \in Accounts : type[b] # "absent" => type'[b] = type[b],
           \A o \in Organizations :
               accountOf[o] = None => accountOf'[o] = None \/ type'[accountOf'[o]] # "absent"
    PROVE  /\ OwnersExist' /\ MissedBySeveral' /\ UsersSeeTheirOwn'
           /\ RuleOfOneOrganization' /\ AlertsWerePaid'
<1>1. \A i \in Items : organizationOf[i] # None =>
          organizationOf[i] \in Organizations /\ accountOf[organizationOf[i]] # None
    BY DEF IndInv, TypeOK, RowsInv, OwnersExist
<1>2. OwnersExist'
    BY <1>1 DEF IndInv, TypeOK, RowsInv, OwnersExist
<1>3. MissedBySeveral'
    BY DEF IndInv, TypeOK, RowsInv, MissedBySeveral
<1>4. UsersSeeTheirOwn'
    <2>1. ASSUME NEW s \in shown PROVE \E o \in OrganizationsOf(s[1])' : organizationOf'[s[2]] = o
        <3>1. PICK o \in OrganizationsOf(s[1]) : organizationOf[s[2]] = o
            BY DEF IndInv, RowsInv, UsersSeeTheirOwn
        <3>2. s[1] # None
            BY NoneAssumption DEF IndInv, TypeOK
        <3>. QED
            BY <3>1, <3>2 DEF OrganizationsOf
    <2>. QED
        BY <1>3, <2>1 DEF UsersSeeTheirOwn, MissedBySeveral
<1>5. RuleOfOneOrganization'
    <2>1. \A r \in rules : r.organization \in Organizations /\ r.creator # None
        BY NoneAssumption DEF IndInv, TypeOK, Rules
    <2>. QED
        BY <2>1 DEF IndInv, RowsInv, RuleOfOneOrganization
<1>6. AlertsWerePaid'
    BY <1>1 DEF IndInv, RowsInv, AlertsWerePaid, Items
<1>. QED
    BY <1>2, <1>3, <1>4, <1>5, <1>6

LEMMA RegisterCommitKeeps ==
    ASSUME IndInv, NEW h \in Handlers, RegisterCommit(h)
    PROVE  IndInv'
<1>1. PICK r \in Requests, a \in Accounts :
          /\ r = request[h] /\ a = r.account
          /\ r.op = "registered" /\ r.email \in Emails /\ RegistersAnew(r)
          /\ type[a] = "absent" /\ email[a] = None
    BY DEF RegisterCommit, Step, IndInv, TypeOK, InFlight, Sound, RegistersAnew, RowsInv,
           OneAccountPerEmail
<1>2. /\ type' = [type EXCEPT ![a] = r.type] /\ email' = [email EXCEPT ![a] = r.email]
      /\ tier' = [tier EXCEPT ![a] = "free"]
      /\ accountOf' = [o \in Organizations |-> IF o = r.organization THEN a ELSE accountOf[o]]
      /\ UNCHANGED <<organizationOf, deleted, rules, migrated, shown, missed, paid>>
      /\ request' = [request EXCEPT ![h] = Idle]
    BY <1>1 DEF RegisterCommit, Step, historyVars
<1>3. /\ r.type \in AccountTypes /\ r.type # "absent"
      /\ r.organization \in Organizations \union {None}
      /\ a # None /\ r.email # None
    BY <1>1, NoneAssumption DEF Requests, AccountTypes
<1>4. TypeOK'
    BY <1>1, <1>2, <1>3, IdleIsARequest DEF IndInv, TypeOK, Tiers
<1>5. /\ type'[a] = r.type /\ tier'[a] = "free" /\ email'[a] = r.email
      /\ \A b \in Accounts \ {a} :
            type'[b] = type[b] /\ tier'[b] = tier[b] /\ email'[b] = email[b]
    BY <1>1, <1>2 DEF IndInv, TypeOK
<1>6. \A o \in Organizations :
          accountOf'[o] = IF o = r.organization THEN a ELSE accountOf[o]
    BY <1>2
<1>7. r.organization # None => accountOf[r.organization] = None
    BY <1>1 DEF RegistersAnew
<1>8. \A o \in Organizations : accountOf[o] # None => accountOf'[o] = accountOf[o]
    BY <1>6, <1>7, NoneAssumption
<1>9. \A b \in Accounts \ {a} : OrganizationsOf(b)' = OrganizationsOf(b)
    BY <1>6, <1>7, NoneAssumption DEF OrganizationsOf
<1>10. \A o \in Organizations : accountOf'[o] = a <=> o = r.organization
    BY <1>1, <1>3, <1>6 DEF IndInv, RowsInv, OwnersExist
<1>11. OwnersExist' /\ MissedBySeveral' /\ UsersSeeTheirOwn' /\ RuleOfOneOrganization'
       /\ AlertsWerePaid'
    <2>1. \A b \in Accounts : type[b] # "absent" => type'[b] = type[b]
        BY <1>1, <1>5
    <2>2. \A o \in Organizations :
              accountOf[o] = None => accountOf'[o] = None \/ type'[accountOf'[o]] # "absent"
        BY <1>3, <1>5, <1>6
    <2>. QED
        BY <1>2, <1>4, <1>8, <2>1, <2>2, OwnershipKept
<1>12. OneAccountPerEmail'
    <2>1. \A b \in Accounts : email[b] # r.email
        BY <1>1 DEF RegistersAnew
    <2>. QED
        BY <1>3, <1>5, <2>1 DEF IndInv, RowsInv, OneAccountPerEmail
<1>13. AccountIsComplete'
    <2>1. ASSUME NEW b \in Accounts \ {a}, type'[b] # "absent"
          PROVE  /\ type'[b] = "individual" => \E o \in Organizations : OrganizationsOf(b)' = {o}
                 /\ tier'[b] # None \/ (b \in Legacy /\ ~migrated')
        BY <1>2, <1>5, <1>9, <2>1 DEF IndInv, RowsInv, AccountIsComplete
    <2>2. type'[a] = "individual" => \E o \in Organizations : OrganizationsOf(a)' = {o}
        BY <1>1, <1>3, <1>5, <1>10 DEF RegistersAnew, OrganizationsOf
    <2>3. tier'[a] # None
        BY <1>5, NoTierAssumption
    <2>. QED
        BY <2>1, <2>2, <2>3 DEF AccountIsComplete
<1>14. PaidIsRemembered'
    BY <1>2, <1>5 DEF IndInv, RowsInv, PaidIsRemembered
<1>15. InFlight'
    <2>1. \A g \in Handlers : request'[g] = IF g = h THEN Idle ELSE request[g]
        BY <1>2 DEF IndInv, TypeOK
    <2>2. (\A f, g \in Handlers : f # g => Apart(request[f], request[g]))'
        BY <2>1, IdleIsARequest DEF IndInv, InFlight, Apart
    <2>3. ASSUME NEW g \in Handlers \ {h} PROVE Sound(request[g])'
        <3>1. PICK q \in Requests : q = request[g] /\ q = request'[g] /\ Sound(q) /\ Apart(r, q)
            BY <1>1, <2>1 DEF IndInv, InFlight, TypeOK
        <3>2. q.op = "registered" => RegistersAnew(q)'
            <4>. SUFFICES ASSUME q.op = "registered" PROVE RegistersAnew(q)'
                OBVIOUS
            <4>1. RegistersAnew(q) /\ q.account # a /\ q.email # r.email
                  /\ (q.organization # None => q.organization # r.organization)
                BY <1>1, <3>1 DEF Sound, Apart
            <4>2. q.organization # None => accountOf'[q.organization] = None
                BY <1>6, <4>1 DEF RegistersAnew, Requests
            <4>. QED
                BY <1>5, <4>1, <4>2 DEF RegistersAnew
        <3>3. q.op = "organize" => type'[q.account] = "multiempresa"
            BY <1>1, <1>5, <3>1 DEF Sound
        <3>4. q.op = "context" => ContextWasTrue(q)'
            BY <1>1, <1>2, <1>5, <1>9, <3>1 DEF Sound, ContextWasTrue
        <3>. QED
            BY <3>1, <3>2, <3>3, <3>4 DEF Sound
    <2>4. Sound(request[h])'
        BY <2>1, IdleIsARequest DEF Sound
    <2>. QED
        BY <2>2, <2>3, <2>4 DEF InFlight
<1>. QED
    BY <1>4, <1>11, <1>12, <1>13, <1>14, <1>15 DEF IndInv, RowsInv

LEMMA OrganizationKeeps ==
    ASSUME IndInv, NEW h \in Handlers, NEW o \in Organizations, CreateOrganizationCommit(h, o)
    PROVE  IndInv'
<1>1. PICK a \in Accounts : a = request[h].account /\ type[a] = "multiempresa"
    BY DEF CreateOrganizationCommit, Step, IndInv, InFlight, Sound
<1>2. /\ accountOf' = [accountOf EXCEPT ![o] = a] /\ accountOf[o] = None
      /\ request' = [request EXCEPT ![h] = Idle]
      /\ UNCHANGED <<type, email, tier, organizationOf, deleted, rules, migrated, shown,
                     missed, paid>>
      /\ \A g \in Handlers : request[g].organization # o
    BY <1>1 DEF CreateOrganizationCommit, Step, FreshOrganization, historyVars
<1>3. TypeOK'
    BY <1>2, IdleIsARequest DEF IndInv, TypeOK
<1>4. \A p \in Organizations : accountOf'[p] = IF p = o THEN a ELSE accountOf[p]
    BY <1>2 DEF IndInv, TypeOK
<1>5. OwnersExist' /\ MissedBySeveral' /\ UsersSeeTheirOwn' /\ RuleOfOneOrganization'
      /\ AlertsWerePaid'
    <2>1. \A p \in Organizations : accountOf[p] # None => accountOf'[p] = accountOf[p]
        BY <1>2, <1>4
    <2>2. \A p \in Organizations :
              accountOf[p] = None => accountOf'[p] = None \/ type'[accountOf'[p]] # "absent"
        BY <1>1, <1>2, <1>4
    <2>. QED
        BY <1>2, <1>3, <2>1, <2>2, OwnershipKept
<1>6. \A b \in Accounts \ {a} : OrganizationsOf(b)' = OrganizationsOf(b)
    BY <1>2, <1>4, NoneAssumption DEF OrganizationsOf
<1>7. OrganizationsOf(a) \subseteq OrganizationsOf(a)'
    BY <1>4 DEF OrganizationsOf
<1>8. OneAccountPerEmail' /\ PaidIsRemembered'
    BY <1>2 DEF IndInv, RowsInv, OneAccountPerEmail, PaidIsRemembered
<1>9. AccountIsComplete'
    BY <1>1, <1>2, <1>6 DEF IndInv, RowsInv, AccountIsComplete
<1>10. InFlight'
    <2>1. \A g \in Handlers : request'[g] = IF g = h THEN Idle ELSE request[g]
        BY <1>2 DEF IndInv, TypeOK
    <2>2. (\A f, g \in Handlers : f # g => Apart(request[f], request[g]))'
        BY <2>1, IdleIsARequest DEF IndInv, InFlight, Apart
    <2>3. ASSUME NEW g \in Handlers \ {h} PROVE Sound(request[g])'
        <3>1. PICK q \in Requests : q = request[g] /\ q = request'[g] /\ Sound(q)
            BY <2>1 DEF IndInv, InFlight, TypeOK
        <3>2. q.op = "registered" => RegistersAnew(q)'
            BY <1>2, <1>4, <3>1 DEF Sound, RegistersAnew, Requests
        <3>3. q.op = "context" => ContextWasTrue(q)'
            BY <1>1, <1>2, <1>6, <1>7, <3>1 DEF Sound, ContextWasTrue
        <3>. QED
            BY <1>2, <3>1, <3>2, <3>3 DEF Sound
    <2>4. Sound(request[h])'
        BY <2>1, IdleIsARequest DEF Sound
    <2>. QED
        BY <2>2, <2>3, <2>4 DEF InFlight
<1>. QED
    BY <1>3, <1>5, <1>8, <1>9, <1>10 DEF IndInv, RowsInv

-----------------------------------------------------------------------------
(***************************************************************************)
(* Steps that leave accounts and organizations alone.                      *)
(***************************************************************************)

LEMMA FlightKept ==
    ASSUME IndInv, UNCHANGED <<type, email, accountOf>>, paid \subseteq paid',
           \/ UNCHANGED request
           \/ \E h \in Handlers : request' = [request EXCEPT ![h] = Idle]
    PROVE  InFlight' /\ request' \in [Handlers -> Requests] /\ OneAccountPerEmail'
<1>1. \A g \in Handlers : request'[g] \in {request[g], Idle}
    BY DEF IndInv, TypeOK
<1>2. (\A f, g \in Handlers : f # g => Apart(request[f], request[g]))'
    BY <1>1, IdleIsARequest DEF IndInv, InFlight, Apart
<1>3. ASSUME NEW g \in Handlers PROVE Sound(request[g])'
    <2>1. PICK q : q = request'[g] /\ Sound(q)
        BY <1>1, IdleIsARequest DEF IndInv, InFlight, Sound
    <2>. QED
        BY <2>1 DEF Sound, RegistersAnew, ContextWasTrue, OrganizationsOf
<1>4. request' \in [Handlers -> Requests]
    BY IdleIsARequest DEF IndInv, TypeOK
<1>5. OneAccountPerEmail'
    BY DEF IndInv, RowsInv, OneAccountPerEmail
<1>. QED
    BY <1>2, <1>3, <1>4, <1>5 DEF InFlight

LEMMA TiersKeep ==
    ASSUME IndInv, Backfill \/ \E a \in Accounts, t \in {"free", "pro"} : TierChanges(a, t)
    PROVE  IndInv'
<1>1. /\ UNCHANGED <<type, email, accountOf, organizationOf, deleted, rules, shown, missed>>
      /\ UNCHANGED request /\ paid \subseteq paid' /\ paid' \subseteq Accounts
      /\ (migrated => migrated') /\ migrated' \in BOOLEAN
      /\ tier' \in [Accounts -> Tiers \union {None}]
    BY DEF Backfill, TierChanges, historyVars, IndInv, TypeOK, Tiers
<1>2. InFlight' /\ OneAccountPerEmail'
    BY <1>1, FlightKept
<1>3. TypeOK'
    BY <1>1 DEF IndInv, TypeOK
<1>4. AccountIsComplete'
    <2>1. \A a \in Accounts : type[a] # "absent" =>
              \/ tier'[a] # None
              \/ a \in Legacy /\ ~migrated'
        BY NoTierAssumption DEF IndInv, TypeOK, RowsInv, AccountIsComplete, Backfill, TierChanges
    <2>. QED
        BY <1>1, <2>1 DEF IndInv, RowsInv, AccountIsComplete, OrganizationsOf
<1>5. PaidIsRemembered'
    <2>1. CASE Backfill
        BY <2>1 DEF IndInv, RowsInv, PaidIsRemembered, Backfill, historyVars
    <2>2. ASSUME NEW a \in Accounts, NEW t \in {"free", "pro"}, TierChanges(a, t)
          PROVE  PaidIsRemembered'
        BY <2>2 DEF IndInv, TypeOK, RowsInv, PaidIsRemembered, TierChanges
    <2>. QED
        BY <2>1, <2>2
<1>6. OwnersExist' /\ MissedBySeveral' /\ UsersSeeTheirOwn' /\ RuleOfOneOrganization'
      /\ AlertsWerePaid'
    BY <1>1 DEF IndInv, RowsInv, OwnersExist, MissedBySeveral, UsersSeeTheirOwn,
                RuleOfOneOrganization, AlertsWerePaid, OrganizationsOf
<1>. QED
    BY <1>2, <1>3, <1>4, <1>5, <1>6 DEF IndInv, RowsInv

\* What a page or a list shows is of an organization in the context.
LEMMA ShowingKeeps ==
    ASSUME IndInv, NEW h \in Handlers, UNCHANGED <<rowVars, paid>>,
           request[h].op = "context", request' = [request EXCEPT ![h] = Idle],
           NEW o \in request[h].organizations, NEW items,
           items \subseteq {i \in Items : organizationOf[i] = o},
           shown' \subseteq shown \union ({request[h].account} \X items),
           \/ UNCHANGED missed
           \/ /\ type[request[h].account] # "individual"
              /\ \E f \in Firewalls : missed' = missed \union {<<request[h].account, f>>}
    PROVE  IndInv'
<1>1. PICK a \in Accounts : /\ a = request[h].account /\ type[a] # "absent"
                            /\ o \in OrganizationsOf(a)
    BY DEF IndInv, InFlight, Sound, ContextWasTrue
<1>2. UNCHANGED <<type, email, tier, accountOf, organizationOf, deleted, rules, migrated, paid>>
    BY DEF rowVars
<1>3. InFlight' /\ request' \in [Handlers -> Requests] /\ OneAccountPerEmail'
    BY <1>2, FlightKept
<1>4. shown' \subseteq Accounts \X Items /\ missed' \subseteq Accounts \X Firewalls
    BY <1>1 DEF IndInv, TypeOK
<1>5. TypeOK'
    BY <1>2, <1>3, <1>4 DEF IndInv, TypeOK
<1>6. MissedBySeveral'
    BY <1>1, <1>2 DEF IndInv, TypeOK, RowsInv, MissedBySeveral, AccountTypes
<1>7. \A s \in shown' : \E p \in OrganizationsOf(s[1]) : organizationOf[s[2]] = p
    BY <1>1 DEF IndInv, RowsInv, UsersSeeTheirOwn
<1>8. UsersSeeTheirOwn'
    BY <1>2, <1>6, <1>7 DEF UsersSeeTheirOwn, MissedBySeveral, OrganizationsOf
<1>9. AccountIsComplete' /\ OwnersExist' /\ PaidIsRemembered' /\ RuleOfOneOrganization'
      /\ AlertsWerePaid'
    BY <1>2 DEF IndInv, RowsInv, AccountIsComplete, OwnersExist, PaidIsRemembered,
                RuleOfOneOrganization, AlertsWerePaid, OrganizationsOf
<1>. QED
    BY <1>3, <1>5, <1>6, <1>8, <1>9 DEF IndInv, RowsInv

LEMMA ViewKeeps ==
    ASSUME IndInv, NEW h \in Handlers, NEW f \in Firewalls,
           NEW o \in request[h].organizations, View(h, f, o)
    PROVE  IndInv'
<1>1. PICK a \in Accounts : a = request[h].account /\ Sound(request[h])
                            /\ request[h].op = "context" /\ ContextWasTrue(request[h])
    BY DEF View, Step, IndInv, InFlight, Sound, ContextWasTrue
<1>2. type[a] = "individual" => \A p \in OrganizationsOf(a) : p = o
    BY <1>1 DEF ContextWasTrue, IndInv, RowsInv, AccountIsComplete
<1>3. \/ UNCHANGED missed
      \/ type[a] # "individual" /\ missed' = missed \union {<<a, f>>}
    BY <1>1, <1>2 DEF View
<1>. DEFINE items == IF Live(f, o) THEN {f} ELSE {}
<1>4. items \subseteq {i \in Items : organizationOf[i] = o}
    BY DEF Live, Items
<1>5. shown' \subseteq shown \union ({a} \X items)
    BY <1>1 DEF View
<1>6. request' = [request EXCEPT ![h] = Idle] /\ UNCHANGED <<rowVars, paid>>
    BY DEF View, Step
<1>. HIDE DEF items
<1>7. shown' \subseteq shown \union ({request[h].account} \X items)
    BY <1>1, <1>5
<1>8. \/ UNCHANGED missed
      \/ /\ type[request[h].account] # "individual"
         /\ \E g \in Firewalls : missed' = missed \union {<<request[h].account, g>>}
    BY <1>1, <1>3
<1>. QED
    BY <1>1, <1>4, <1>6, <1>7, <1>8, ShowingKeeps

LEMMA ListKeeps ==
    ASSUME IndInv, NEW h \in Handlers,
           ListFirewalls(h) \/ ListAlertChannels(h) \/ ListAlertRules(h)
    PROVE  IndInv'
<1>1. \A r \in rules : r.channel \in Items /\ organizationOf[r.channel] = r.organization
    BY DEF IndInv, TypeOK, RowsInv, RuleOfOneOrganization, Rules, Items
<1>2. PICK o \in request[h].organizations, items \in SUBSET Items :
          items \subseteq {i \in Items : organizationOf[i] = o} /\ List(h, items)
    <2>1. CASE ListFirewalls(h)
        BY <2>1 DEF ListFirewalls, Organization, Live, Items
    <2>2. CASE ListAlertChannels(h)
        BY <2>2 DEF ListAlertChannels, Organization, Items
    <2>3. CASE ListAlertRules(h)
        <3>1. PICK o \in request[h].organizations :
                  List(h, {r.channel : r \in {r \in rules : r.organization = o}})
            BY <2>3 DEF ListAlertRules, Organization
        <3>2. {r.channel : r \in {r \in rules : r.organization = o}}
                  \subseteq {i \in Items : organizationOf[i] = o}
            BY <1>1
        <3>. QED
            BY <3>1, <3>2
    <2>. QED
        BY <2>1, <2>2, <2>3
<1>3. /\ request[h].op = "context" /\ request' = [request EXCEPT ![h] = Idle]
      /\ UNCHANGED <<rowVars, paid, missed>>
      /\ shown' \subseteq shown \union ({request[h].account} \X items)
    BY <1>2 DEF List, Step
<1>. QED
    BY <1>2, <1>3, ShowingKeeps

\* A new firewall or channel is of an organization in the context.
LEMMA InsertKeeps ==
    ASSUME IndInv, NEW h \in Handlers, NEW i \in Items, Insert(h, i),
           i \in Channels => TierOrder[request[h].tier] >= TierOrder["pro"]
    PROVE  IndInv'
<1>1. PICK o \in request[h].organizations : organizationOf' = [organizationOf EXCEPT ![i] = o]
    BY DEF Insert, Organization
<1>2. PICK a \in Accounts : /\ a = request[h].account /\ o \in OrganizationsOf(a)
                            /\ request[h].tier # "free" => a \in paid
    BY DEF Insert, Step, IndInv, InFlight, Sound, ContextWasTrue
<1>3. o \in Organizations /\ accountOf[o] = a /\ a # None /\ o # None
    BY <1>2, NoneAssumption DEF OrganizationsOf
<1>4. i \in Channels => a \in paid
    <2>1. request[h].tier \in Tiers
        BY DEF IndInv, TypeOK, Requests
    <2>. QED
        BY <1>2, <2>1 DEF Tiers, TierOrder
<1>5. organizationOf[i] = None /\ request' = [request EXCEPT ![h] = Idle]
      /\ UNCHANGED <<type, email, tier, accountOf, deleted, rules, migrated, shown, missed, paid>>
    BY DEF Insert, Step, historyVars
<1>6. InFlight' /\ request' \in [Handlers -> Requests] /\ OneAccountPerEmail'
    BY <1>5, FlightKept
<1>7. TypeOK'
    BY <1>1, <1>3, <1>5, <1>6 DEF IndInv, TypeOK
<1>8. \A j \in Items : organizationOf'[j] = IF j = i THEN o ELSE organizationOf[j]
    BY <1>1 DEF IndInv, TypeOK
<1>9. OwnersExist'
    BY <1>3, <1>5, <1>8 DEF IndInv, RowsInv, OwnersExist
<1>10. UsersSeeTheirOwn'
    <2>1. \A s \in shown : s[2] \in Items /\ s[2] # i
        BY <1>5, NoneAssumption
           DEF IndInv, TypeOK, RowsInv, UsersSeeTheirOwn, OrganizationsOf
    <2>. QED
        BY <1>5, <1>8, <2>1 DEF IndInv, RowsInv, UsersSeeTheirOwn, OrganizationsOf
<1>11. RuleOfOneOrganization'
    <2>1. \A r \in rules : r.channel \in Items /\ r.channel # i
        BY <1>5, NoneAssumption
           DEF IndInv, TypeOK, RowsInv, RuleOfOneOrganization, Rules, Items
    <2>. QED
        BY <1>5, <1>8, <2>1 DEF IndInv, RowsInv, RuleOfOneOrganization
<1>12. AlertsWerePaid'
    BY <1>3, <1>4, <1>5, <1>8 DEF IndInv, RowsInv, AlertsWerePaid, Items
<1>13. AccountIsComplete' /\ PaidIsRemembered' /\ MissedBySeveral'
    BY <1>5 DEF IndInv, RowsInv, AccountIsComplete, PaidIsRemembered, MissedBySeveral,
                OrganizationsOf
<1>. QED
    BY <1>6, <1>7, <1>9, <1>10, <1>11, <1>12, <1>13 DEF IndInv, RowsInv

LEMMA DeleteFirewallKeeps ==
    ASSUME IndInv, NEW h \in Handlers, NEW f \in Firewalls, DeleteFirewall(h, f)
    PROVE  IndInv'
<1>1. /\ request' = [request EXCEPT ![h] = Idle] /\ deleted' = deleted \union {f}
      /\ UNCHANGED <<type, email, tier, accountOf, organizationOf, rules, migrated, shown,
                     missed, paid>>
    BY DEF DeleteFirewall, Step, historyVars
<1>2. InFlight' /\ request' \in [Handlers -> Requests] /\ OneAccountPerEmail'
    BY <1>1, FlightKept
<1>3. TypeOK'
    BY <1>1, <1>2 DEF IndInv, TypeOK
<1>. QED
    BY <1>1, <1>2, <1>3
       DEF IndInv, RowsInv, AccountIsComplete, OwnersExist, PaidIsRemembered, MissedBySeveral,
           UsersSeeTheirOwn, RuleOfOneOrganization, AlertsWerePaid, OrganizationsOf

LEMMA CreateAlertRuleKeeps ==
    ASSUME IndInv, NEW h \in Handlers, NEW c \in Channels, NEW f \in Firewalls \union {None},
           CreateAlertRule(h, c, f)
    PROVE  IndInv'
<1>1. PICK o \in request[h].organizations :
          /\ organizationOf[c] = o
          /\ rules' = rules \union {[organization |-> o, channel |-> c, firewall |-> f,
                                     creator |-> request[h].account]}
    BY DEF CreateAlertRule, Organization
<1>2. /\ request[h].account \in Accounts /\ o \in Organizations
      /\ accountOf[o] = request[h].account
    BY DEF CreateAlertRule, Step, IndInv, InFlight, Sound, ContextWasTrue, OrganizationsOf
<1>3. request' = [request EXCEPT ![h] = Idle]
      /\ UNCHANGED <<type, email, tier, accountOf, organizationOf, deleted, migrated, shown,
                     missed, paid>>
    BY DEF CreateAlertRule, Step, historyVars
<1>4. InFlight' /\ request' \in [Handlers -> Requests] /\ OneAccountPerEmail'
    BY <1>3, FlightKept
<1>5. TypeOK'
    BY <1>1, <1>2, <1>3, <1>4 DEF IndInv, TypeOK, Rules
<1>6. RuleOfOneOrganization'
    BY <1>1, <1>2, <1>3 DEF IndInv, RowsInv, RuleOfOneOrganization
<1>. QED
    BY <1>3, <1>4, <1>5, <1>6
       DEF IndInv, RowsInv, AccountIsComplete, OwnersExist, PaidIsRemembered, MissedBySeveral,
           UsersSeeTheirOwn, AlertsWerePaid, OrganizationsOf

-----------------------------------------------------------------------------

LEMMA StepKeeps == IndInv /\ [Next]_vars => IndInv'
<1>. SUFFICES ASSUME IndInv, [Next]_vars PROVE IndInv'
    OBVIOUS
<1>1. ASSUME NEW h \in Handlers, AccountStep(h) PROVE IndInv'
    BY <1>1, AccountReadsKeep, RegisterInsertKeeps, RegisterCommitKeeps, OrganizationKeeps
       DEF AccountStep
<1>2. ASSUME NEW h \in Handlers, FirewallStep(h) PROVE IndInv'
    <2>1. ASSUME NEW f \in Firewalls, CreateFirewall(h, f) PROVE IndInv'
        <3>1. f \in Items /\ f \notin Channels
            BY ItemsAssumption DEF Items
        <3>. QED
            BY <2>1, <3>1, InsertKeeps DEF CreateFirewall
    <2>2. ASSUME NEW f \in Firewalls,
                 \/ GetFirewall(h, f) \/ ListFindings(h, f)
                 \/ GetFirewallRules(h, f) \/ GetFirewallVpnTunnels(h, f)
          PROVE  IndInv'
        BY <2>2, ViewKeeps DEF GetFirewall, ListFindings, GetFirewallRules,
                               GetFirewallVpnTunnels, Organization
    <2>. QED
        BY <1>2, <2>1, <2>2, ListKeeps, DeleteFirewallKeeps DEF FirewallStep
<1>3. ASSUME NEW h \in Handlers, AlertStep(h) PROVE IndInv'
    <2>1. ASSUME NEW c \in Channels, CreateAlertChannel(h, c) PROVE IndInv'
        BY <2>1, InsertKeeps DEF CreateAlertChannel, RequireTier, Items
    <2>. QED
        BY <1>3, <2>1, ListKeeps, CreateAlertRuleKeeps DEF AlertStep
<1>4. CASE UNCHANGED vars
    <2>1. UNCHANGED <<type, email, tier, accountOf, organizationOf, deleted, rules, migrated,
                      shown, missed, paid, request>>
        BY <1>4 DEF vars, rowVars, historyVars
    <2>2. InFlight' /\ OneAccountPerEmail'
        BY <2>1, FlightKept
    <2>. QED
        BY <2>1, <2>2
           DEF IndInv, TypeOK, RowsInv, AccountIsComplete, OwnersExist, PaidIsRemembered,
               MissedBySeveral, UsersSeeTheirOwn, RuleOfOneOrganization, AlertsWerePaid,
               OrganizationsOf
<1>. QED
    BY <1>1, <1>2, <1>3, <1>4, TiersKeep DEF Next

THEOREM AccountsInvariance == Spec => []IndInv
    BY InitHolds, StepKeeps, PTL DEF Spec

\* Rows and requests are well typed.
THEOREM AccountsTypeCorrect == Spec => []TypeOK
    BY AccountsInvariance, PTL DEF IndInv

\* However registrations interleave, an address has one account.
THEOREM AddressesAreUnique == Spec => []OneAccountPerEmail
    BY AccountsInvariance, PTL DEF IndInv, RowsInv

\* Whatever fails on the way, and while the migration fills in, an account has
\* its user, its subscription and, if individual, its one organization.
THEOREM RegistrationIsWhole == Spec => []AccountIsComplete
    BY AccountsInvariance, PTL DEF IndInv, RowsInv

\* Whatever is stale in their contexts, users see their own accounts' rows only.
THEOREM AccountsAreApart == Spec => []UsersSeeTheirOwn
    BY AccountsInvariance, PTL DEF IndInv, RowsInv

\* Alert rules join rows of one organization.
THEOREM RulesStayWithin == Spec => []RuleOfOneOrganization
    BY AccountsInvariance, PTL DEF IndInv, RowsInv

\* The tier guard, which tests a copy, lets nobody through who never paid.
THEOREM AlertsNeedPayment == Spec => []AlertsWerePaid
    BY AccountsInvariance, PTL DEF IndInv, RowsInv
=============================================================================
