---------------------------- MODULE FirewallPages ----------------------------
(***************************************************************************)
(* GET /v1/firewalls: pages of an organization's firewalls by id, while    *)
(* firewalls are created (with random ids) and deleted between two pages.  *)
(* A reader follows next_cursor until there is none.                       *)
(***************************************************************************)
EXTENDS Integers, FiniteSets

CONSTANTS
    Ids,            \* ids of firewalls, ordered as PostgreSQL orders UUIDs
    Limits,         \* limits a client may ask for
    MaxLimit,       \* 100
    Start           \* the cursor of a first page: below every id

ASSUME IdsAssumption == Ids \subseteq Nat /\ IsFiniteSet(Ids)
ASSUME LimitsAssumption == Limits \subseteq Int /\ MaxLimit \in Nat \ {0}
ASSUME StartAssumption == Start \in Int /\ \A f \in Ids : Start < f

VARIABLES
    live,           \* firewalls that are not deleted
    cursor,         \* next_cursor of the last page
    ended,          \* did the last page have none?
    pages,          \* history: on how many pages of this reading each firewall was
    throughout      \* history: firewalls live since this reading began

pagesVars == <<live, cursor, ended, pages, throughout>>

PagesTypeOK ==
    /\ live \subseteq Ids
    /\ cursor \in Ids \union {Start}
    /\ ended \in BOOLEAN
    /\ pages \in [Ids -> Nat]
    /\ throughout \subseteq live

PagesInit ==
    /\ live = {}
    /\ cursor = Start
    /\ ended = FALSE
    /\ pages = [f \in Ids |-> 0]
    /\ throughout = {}

\* min(max(limit, 1), 100)
Clamped(limit) ==
    IF limit < 1 THEN 1 ELSE IF limit > MaxLimit THEN MaxLimit ELSE limit

\* ORDER BY id LIMIT n
Smallest(set, n) == {f \in set : Cardinality({g \in set : g < f}) < n}

\* Mutant: the cursor's firewall is listed again.
ListActiveForOrgFrom(n) == Smallest({f \in live : f >= cursor}, n)

\* list_active_for_org
ListActiveForOrg(n) == Smallest({f \in live : f > cursor}, n)

\* ListFirewalls: one more row is read to learn whether a page follows
ListFirewalls(limit) ==
    LET rows == ListActiveForOrg(Clamped(limit) + 1)
        page == Smallest(rows, Clamped(limit))
        hasNext == Cardinality(rows) > Clamped(limit)
    IN
    /\ ~ended
    /\ ended' = ~hasNext
    /\ cursor' \in IF hasNext THEN {f \in page : \A g \in page : g <= f} ELSE {cursor}
    /\ pages' = [f \in Ids |-> IF f \in page THEN pages[f] + 1 ELSE pages[f]]
    /\ UNCHANGED <<live, throughout>>

\* The reader begins anew
FirstPage ==
    /\ cursor' = Start
    /\ ended' = FALSE
    /\ pages' = [f \in Ids |-> 0]
    /\ throughout' = live
    /\ UNCHANGED live

\* The row, or the return of one a stale rename undeletes (FirewallRegistry)
CreateFirewall(f) ==
    /\ f \notin live
    /\ live' = live \union {f}
    /\ UNCHANGED <<cursor, ended, pages, throughout>>

DeleteFirewall(f) ==
    /\ f \in live
    /\ live' = live \ {f}
    /\ throughout' = throughout \ {f}
    /\ UNCHANGED <<cursor, ended, pages>>

PagesNext ==
    \/ \E limit \in Limits : ListFirewalls(limit)
    \/ FirstPage
    \/ \E f \in Ids : CreateFirewall(f) \/ DeleteFirewall(f)

PagesSpec == PagesInit /\ [][PagesNext]_pagesVars

\* However firewalls come and go and limits change between pages, no firewall
\* is on two pages of a reading, and when it ends every firewall that was
\* there from its first page on was on one.
EachOnOnePage ==
    /\ \A f \in Ids : pages[f] <= 1
    /\ ended => \A f \in throughout : pages[f] = 1

=============================================================================
