--------------------------- MODULE SmallPartsProofs ---------------------------
(***************************************************************************)
(* Theorems about the four parts that share no state: FirewallPages,       *)
(* AttemptLimiter, BrowserClient and AnalysisChecks, each for every value  *)
(* of its own constants.                                                   *)
(***************************************************************************)
EXTENDS FirewallPages, AttemptLimiter, BrowserClient, AnalysisChecks, NaturalSets

-----------------------------------------------------------------------------
(***************************************************************************)
(* FirewallPages: a reading misses none and repeats none.  The argument:   *)
(* the cursor divides the firewalls that were listed from those that were  *)
(* not, since a page holds every live firewall between two cursors.        *)
(***************************************************************************)

\* What is on a page is at or before the cursor; once the last page is read,
\* nothing else is.
ListedIsPassed ==
    \A f \in Ids : /\ pages[f] <= 1
                   /\ pages[f] = 1 => f <= cursor \/ ended

\* A firewall that was there all the time is on a page once the cursor passed it.
PassedIsListed == \A f \in throughout : f <= cursor \/ ended => pages[f] = 1

PagesInv ==
    /\ PagesTypeOK
    /\ ListedIsPassed
    /\ PassedIsListed

-----------------------------------------------------------------------------
(***************************************************************************)
(* What ORDER BY ... LIMIT returns.                                        *)
(***************************************************************************)

\* The rows are finite, and with a row every smaller one is there too.
LEMMA SmallestIsDownClosed ==
    ASSUME NEW S, S \subseteq Ids, NEW n \in Nat,
           NEW f \in S, NEW g \in Smallest(S, n), f <= g
    PROVE  f \in Smallest(S, n)
<1>. DEFINE Below(x) == {y \in S : y < x}
<1>1. IsFiniteSet(Below(g)) /\ Cardinality(Below(g)) \in Nat
    BY IdsAssumption, FS_Subset, FS_CardinalityType
<1>2. Below(f) \subseteq Below(g)
    <2>1. f \in Nat /\ g \in Nat /\ S \subseteq Nat
        BY IdsAssumption DEF Smallest
    <2>2. \A y \in S : y < f => y < g
        BY <2>1
    <2>. QED
        BY <2>2
<1>3. IsFiniteSet(Below(f)) /\ Cardinality(Below(f)) <= Cardinality(Below(g))
    BY <1>1, <1>2, FS_Subset
<1>4. Cardinality(Below(f)) \in Nat
    BY <1>3, FS_CardinalityType
<1>. QED
    BY <1>1, <1>3, <1>4 DEF Smallest

\* Fewer rows than asked for are all the rows.
LEMMA FewerAreAll ==
    ASSUME NEW S, S \subseteq Ids, NEW n \in Nat, Cardinality(Smallest(S, n)) < n
    PROVE  Smallest(S, n) = S
<1>. DEFINE rows == Smallest(S, n)
            Below(x) == {y \in S : y < x}
<1>1. IsFiniteSet(rows) /\ Cardinality(rows) \in Nat
    BY IdsAssumption, FS_Subset, FS_CardinalityType DEF Smallest
<1>2. SUFFICES ASSUME S \ rows # {} PROVE FALSE
    BY DEF Smallest
<1>3. PICK f \in S \ rows : \A g \in S \ rows : f <= g
    BY <1>2, LeastElement, IdsAssumption
<1>4. Below(f) \subseteq rows
    <2>1. f \in Nat /\ S \subseteq Nat
        BY IdsAssumption
    <2>2. ASSUME NEW g \in Below(f), g \notin rows PROVE FALSE
        BY <1>3, <2>1, <2>2
    <2>. QED
        BY <2>2
<1>5. /\ IsFiniteSet(Below(f)) /\ Cardinality(Below(f)) <= Cardinality(rows)
      /\ Cardinality(Below(f)) \in Nat
    BY <1>1, <1>4, FS_Subset, FS_CardinalityType
<1>6. ~(Cardinality(Below(f)) < n)
    BY <1>3 DEF Smallest
<1>. QED
    BY <1>1, <1>5, <1>6

\* As many rows as are asked for, or fewer, all fit.
LEMMA FewAreAll ==
    ASSUME NEW S, S \subseteq Ids, NEW n \in Nat, Cardinality(S) <= n
    PROVE  Smallest(S, n) = S
<1>1. ASSUME NEW f \in S PROVE f \in Smallest(S, n)
    <2>. DEFINE below == {y \in S : y < f}
    <2>1. IsFiniteSet(S) /\ Cardinality(S) \in Nat
        BY IdsAssumption, FS_Subset, FS_CardinalityType
    <2>2. below \subseteq S /\ f \notin below
        <3>1. f \in Nat
            BY IdsAssumption
        <3>. QED
            BY <3>1
    <2>3. IsFiniteSet(below) /\ Cardinality(below) <= Cardinality(S)
          /\ Cardinality(below) # Cardinality(S) /\ Cardinality(below) \in Nat
        BY <2>1, <2>2, FS_Subset, FS_CardinalityType
    <2>. QED
        BY <2>1, <2>3 DEF Smallest
<1>. QED
    BY <1>1 DEF Smallest

LEMMA ClampedType == ASSUME NEW limit \in Limits PROVE Clamped(limit) \in Nat \ {0}
    BY LimitsAssumption DEF Clamped

-----------------------------------------------------------------------------

LEMMA PagesInitHolds == PagesInit => PagesInv
<1>. SUFFICES ASSUME PagesInit PROVE PagesInv
    OBVIOUS
<1>1. PagesTypeOK
    BY DEF PagesInit, PagesTypeOK
<1>2. ListedIsPassed
    BY DEF PagesInit, ListedIsPassed
<1>3. PassedIsListed
    BY DEF PagesInit, PassedIsListed
<1>. QED
    BY <1>1, <1>2, <1>3 DEF PagesInv

LEMMA ListKeeps ==
    ASSUME PagesInv, NEW limit \in Limits, ListFirewalls(limit)
    PROVE  PagesInv'
<1>. DEFINE rows == ListActiveForOrg(Clamped(limit) + 1)
            page == Smallest(rows, Clamped(limit))
            later == {f \in live : f > cursor}
<1>1. /\ live \subseteq Ids /\ throughout \subseteq live
      /\ cursor \in Int /\ ~ended
      /\ pages \in [Ids -> Nat] /\ Ids \subseteq Nat
    BY IdsAssumption, StartAssumption DEF PagesInv, PagesTypeOK, ListFirewalls
<1>2. Clamped(limit) \in Nat \ {0} /\ Clamped(limit) + 1 \in Nat
    BY ClampedType
<1>3. later \subseteq Ids /\ rows \subseteq later /\ page \subseteq rows
    BY <1>1 DEF ListActiveForOrg, Smallest
<1>4. rows = Smallest(later, Clamped(limit) + 1)
    BY DEF ListActiveForOrg
<1>5. \A f \in page : pages[f] = 0
    <2>1. ASSUME NEW f \in later PROVE pages[f] = 0
        <3>1. f \in Int /\ f > cursor /\ f \in Ids /\ pages[f] \in Nat
            BY <1>1
        <3>. QED
            BY <1>1, <3>1 DEF PagesInv, ListedIsPassed
    <2>. HIDE DEF later, rows, page
    <2>. QED
        BY <1>3, <2>1
<1>6. pages' = [f \in Ids |-> IF f \in page THEN pages[f] + 1 ELSE pages[f]]
      /\ UNCHANGED <<live, throughout>>
    BY DEF ListFirewalls
<1>7. pages' \in [Ids -> Nat]
      /\ \A f \in Ids : pages'[f] = IF f \in page THEN 1 ELSE pages[f]
    BY <1>1, <1>5, <1>6
<1>8. \A f \in Ids : pages'[f] <= 1
    BY <1>7 DEF PagesInv, ListedIsPassed
<1>9. CASE Cardinality(rows) > Clamped(limit)
    <2>1. ended' = FALSE /\ cursor' \in page /\ \A g \in page : g <= cursor'
        BY <1>9 DEF ListFirewalls
    <2>2. cursor' \in Ids /\ cursor' > cursor
        BY <1>3, <2>1
    <2>3. ListedIsPassed'
        BY <1>1, <1>7, <1>8, <2>1, <2>2 DEF PagesInv, ListedIsPassed
    <2>4. ASSUME NEW f \in throughout, f <= cursor' PROVE pages'[f] = 1
        <3>1. CASE f <= cursor
            BY <1>1, <1>3, <1>7, <3>1 DEF PagesInv, PassedIsListed
        <3>2. CASE f > cursor
            <4>1. f \in later
                BY <1>1, <3>2
            <4>2. f \in rows
                BY <1>2, <1>3, <1>4, <2>1, <2>4, <4>1, SmallestIsDownClosed
            <4>3. f \in page
                BY <1>2, <1>3, <2>1, <2>4, <4>2, SmallestIsDownClosed
            <4>. QED
                BY <1>1, <1>7, <4>3
        <3>. QED
            BY <1>1, <3>1, <3>2
    <2>5. PassedIsListed'
        BY <1>6, <2>1, <2>4 DEF PassedIsListed
    <2>. QED
        BY <1>1, <1>6, <1>7, <2>1, <2>2, <2>3, <2>5 DEF PagesInv, PagesTypeOK
<1>10. CASE ~(Cardinality(rows) > Clamped(limit))
    <2>1. ended' = TRUE /\ cursor' = cursor
        BY <1>10 DEF ListFirewalls
    <2>2. Cardinality(rows) \in Nat
        BY <1>3, IdsAssumption, FS_Subset, FS_CardinalityType
    <2>3. rows = later
        BY <1>2, <1>3, <1>4, <1>10, <2>2, FewerAreAll
    <2>4. page = later
        BY <1>2, <1>3, <1>10, <2>2, <2>3, FewAreAll
    <2>5. \A f \in throughout : pages'[f] = 1
        BY <1>1, <1>7, <2>4 DEF PagesInv, PassedIsListed
    <2>. QED
        BY <1>1, <1>6, <1>7, <1>8, <2>1, <2>5
           DEF PagesInv, PagesTypeOK, ListedIsPassed, PassedIsListed
<1>. QED
    BY <1>9, <1>10

LEMMA PagesStepKeeps == PagesInv /\ [PagesNext]_pagesVars => PagesInv'
<1>. SUFFICES ASSUME PagesInv, [PagesNext]_pagesVars PROVE PagesInv'
    OBVIOUS
<1>1. CASE FirstPage
    <2>1. \A f \in Ids : f \in Int /\ ~(f <= Start)
        BY IdsAssumption, StartAssumption
    <2>2. PagesTypeOK'
        BY <1>1 DEF FirstPage, PagesInv, PagesTypeOK
    <2>3. ListedIsPassed' /\ PassedIsListed'
        BY <1>1, <2>1 DEF FirstPage, ListedIsPassed, PassedIsListed, PagesInv, PagesTypeOK
    <2>. QED
        BY <2>2, <2>3 DEF PagesInv
<1>2. ASSUME NEW f \in Ids, CreateFirewall(f) \/ DeleteFirewall(f) PROVE PagesInv'
    BY <1>2 DEF CreateFirewall, DeleteFirewall, PagesInv, PagesTypeOK, ListedIsPassed,
                PassedIsListed
<1>3. CASE UNCHANGED pagesVars
    BY <1>3 DEF pagesVars, PagesInv, PagesTypeOK, ListedIsPassed, PassedIsListed
<1>. QED
    BY <1>1, <1>2, <1>3, ListKeeps DEF PagesNext

THEOREM PagesInvariance == PagesSpec => []PagesInv
    BY PagesInitHolds, PagesStepKeeps, PTL DEF PagesSpec

\* Whatever is created and deleted between two pages, and whatever limit each
\* page is asked with, no firewall is listed twice and none that stayed is missed.
THEOREM PagesAreComplete == PagesSpec => []EachOnOnePage
<1>1. PagesInv => EachOnOnePage
    BY DEF PagesInv, ListedIsPassed, PassedIsListed, EachOnOnePage
<1>. QED
    BY <1>1, PagesInvariance, PTL
-----------------------------------------------------------------------------
(***************************************************************************)
(* AttemptLimiter: times never go back, so what the lists have dropped has *)
(* left the window for good, and those in the window are the last ones.    *)
(***************************************************************************)

LimiterTypeOK ==
    /\ clock \in Nat
    /\ attempts \in [Keys -> SUBSET Nat]
    /\ accepted \in [Keys -> Seq(Nat)]

TimesInOrder ==
    \A k \in Keys : \A i, j \in 1..Len(accepted[k]) :
        /\ accepted[k][i] <= clock
        /\ i <= j => accepted[k][i] <= accepted[k][j]

\* Only attempts that left the window are dropped.
DroppedAreOld ==
    \A k \in Keys :
        /\ attempts[k] \subseteq 1..Len(accepted[k])
        /\ \A i \in 1..Len(accepted[k]) \ attempts[k] : accepted[k][i] + Window <= clock

AnswerHasKey == ~answer.ok => answer.key \in Keys

LimiterInv ==
    /\ LimiterTypeOK
    /\ TimesInOrder
    /\ DroppedAreOld
    /\ AnswerHasKey
    /\ LimitIsExact

\* The attempts in the window are those from some number on.
LEMMA RecentAreLast ==
    ASSUME LimiterInv, NEW k \in Keys, NEW m \in 1..Len(accepted[k])
    PROVE  /\ accepted[k][m] + Window > clock => m..Len(accepted[k]) \subseteq Recent(k)
           /\ accepted[k][m] + Window <= clock => Recent(k) \subseteq (m + 1)..Len(accepted[k])
<1>. DEFINE n == Len(accepted[k])
<1>1. /\ n \in Nat /\ clock \in Nat /\ Window \in Nat
      /\ \A i \in 1..n : accepted[k][i] \in Nat
    BY LimiterAssumption DEF LimiterInv, LimiterTypeOK
<1>2. /\ \A i, j \in 1..n : i <= j => accepted[k][i] <= accepted[k][j]
      /\ attempts[k] \subseteq 1..n
      /\ \A i \in 1..n \ attempts[k] : accepted[k][i] + Window <= clock
    BY DEF LimiterInv, TimesInOrder, DroppedAreOld
<1>. DEFINE time(i) == accepted[k][i]
<1>. HIDE DEF n
<1>3. ASSUME time(m) + Window > clock, NEW i \in m..n
      PROVE  i \in Recent(k)
    <2>1. i \in 1..n /\ time(m) <= time(i) /\ m \in 1..n
        BY <1>1, <1>2 DEF n
    <2>2. time(i) \in Nat /\ time(m) \in Nat
        BY <1>1, <2>1
    <2>3. time(i) + Window > clock
        BY <1>1, <1>3, <2>1, <2>2
    <2>4. i \in attempts[k]
        BY <1>1, <1>2, <2>1, <2>2, <2>3
    <2>. QED
        BY <2>3, <2>4 DEF Recent
<1>4. ASSUME time(m) + Window <= clock, NEW i \in Recent(k)
      PROVE  i \in (m + 1)..n
    <2>1. i \in 1..n /\ time(i) + Window > clock /\ m \in 1..n
        BY <1>2 DEF Recent, n
    <2>2. time(i) \in Nat /\ time(m) \in Nat
        BY <1>1, <2>1
    <2>3. ~(time(i) <= time(m))
        BY <1>1, <1>4, <2>1, <2>2
    <2>4. ~(i <= m)
        BY <1>2, <2>1, <2>3
    <2>. QED
        BY <1>1, <2>1, <2>4
<1>. QED
    BY <1>3, <1>4 DEF n

LEMMA RecentIsFinite ==
    ASSUME LimiterInv, NEW k \in Keys
    PROVE  /\ IsFiniteSet(Recent(k))
           /\ Cardinality(Recent(k)) \in Nat
           /\ Cardinality(Recent(k)) <= Len(accepted[k])
<1>. DEFINE n == Len(accepted[k])
<1>1. n \in Nat
    BY DEF LimiterInv, LimiterTypeOK
<1>2. Recent(k) \subseteq 1..n
    BY DEF Recent, LimiterInv, DroppedAreOld
<1>. HIDE DEF n
<1>3. IsFiniteSet(1..n) /\ Cardinality(1..n) = n
    BY <1>1, FS_Interval
<1>4. IsFiniteSet(Recent(k)) /\ Cardinality(Recent(k)) <= n
    BY <1>2, <1>3, FS_Subset
<1>. QED
    BY <1>4, FS_CardinalityType DEF n

\* A full window is MaxAttempts attempts, the first of which is in it.
LEMMA WindowIsFull ==
    ASSUME LimiterInv, NEW k \in Keys
    PROVE  Cardinality(Recent(k)) >= MaxAttempts <=>
             /\ Len(accepted[k]) >= MaxAttempts
             /\ accepted[k][Len(accepted[k]) - MaxAttempts + 1] + Window > clock
<1>. DEFINE n == Len(accepted[k])
            m == n - MaxAttempts + 1
            size == Cardinality(Recent(k))
<1>1. n \in Nat /\ MaxAttempts \in Nat /\ MaxAttempts >= 1 /\ m \in Int
    BY LimiterAssumption DEF LimiterInv, LimiterTypeOK
<1>3. IsFiniteSet(Recent(k)) /\ size <= n /\ size \in Nat
    BY RecentIsFinite
<1>4. CASE n < MaxAttempts
    BY <1>1, <1>3, <1>4
<1>5. CASE n >= MaxAttempts
    <2>1. m \in 1..n
        BY <1>1, <1>5
    <2>2. accepted[k][m] \in Nat /\ Window \in Nat /\ clock \in Nat
        BY <2>1, LimiterAssumption DEF LimiterInv, LimiterTypeOK
    <2>3. CASE accepted[k][m] + Window > clock
        <3>1. m..n \subseteq Recent(k)
            BY <2>1, <2>3, RecentAreLast
        <3>2. Cardinality(m..n) = MaxAttempts
            BY <1>1, <2>1, FS_Interval
        <3>3. Cardinality(m..n) <= size
            BY <1>3, <3>1, FS_Subset
        <3>. QED
            BY <1>1, <1>3, <1>5, <2>3, <3>2, <3>3
    <2>4. CASE accepted[k][m] + Window <= clock
        <3>1. Recent(k) \subseteq (m + 1)..n
            BY <2>1, <2>4, RecentAreLast
        <3>2. IsFiniteSet((m + 1)..n)
              /\ Cardinality((m + 1)..n) = IF m + 1 > n THEN 0 ELSE n - (m + 1) + 1
            <4>1. m + 1 \in Int /\ n \in Int
                BY <1>1
            <4>. HIDE DEF m, n
            <4>. QED
                BY <4>1, FS_Interval
        <3>3. size <= Cardinality((m + 1)..n)
            BY <3>1, <3>2, FS_Subset
        <3>. QED
            BY <1>1, <1>3, <2>2, <2>4, <3>2, <3>3
    <2>. QED
        BY <2>2, <2>3, <2>4
<1>. QED
    BY <1>1, <1>4, <1>5

LEMMA RateLimitCheckKeeps ==
    ASSUME LimiterInv, NEW k \in Keys, RateLimitCheck(k)
    PROVE  LimiterInv'
<1>. DEFINE n == Len(accepted[k])
            ok == Cardinality(Recent(k)) < MaxAttempts
<1>1. /\ clock \in Nat /\ clock' = clock /\ n \in Nat
      /\ attempts \in [Keys -> SUBSET Nat] /\ accepted \in [Keys -> Seq(Nat)]
      /\ Window \in Nat /\ MaxAttempts \in Nat /\ MaxAttempts >= 1
    BY LimiterAssumption DEF LimiterInv, LimiterTypeOK, RateLimitCheck
<1>2. /\ attempts' = [attempts EXCEPT ![k] = Recent(k) \union IF ok THEN {n + 1} ELSE {}]
      /\ accepted' = IF ok THEN [accepted EXCEPT ![k] = Append(@, clock)] ELSE accepted
      /\ answer' = [key |-> k, at |-> clock, ok |-> ok]
    BY DEF RateLimitCheck
<1>3. /\ Recent(k) \subseteq 1..n
      /\ \A i \in 1..n \ Recent(k) : accepted[k][i] + Window <= clock
    BY <1>1 DEF Recent, LimiterInv, LimiterTypeOK, DroppedAreOld
<1>. HIDE DEF ok
<1>4. /\ \A l \in Keys \ {k} : accepted'[l] = accepted[l] /\ attempts'[l] = attempts[l]
      /\ attempts'[k] = Recent(k) \union IF ok THEN {n + 1} ELSE {}
      /\ accepted'[k] = IF ok THEN Append(accepted[k], clock) ELSE accepted[k]
    BY <1>1, <1>2
<1>5. /\ Len(accepted'[k]) = IF ok THEN n + 1 ELSE n
      /\ \A i \in 1..n : accepted'[k][i] = accepted[k][i] /\ accepted[k][i] \in Nat
      /\ ok => accepted'[k][n + 1] = clock
    BY <1>1, <1>4
<1>6. LimiterTypeOK'
    BY <1>1, <1>2, <1>3 DEF LimiterTypeOK
<1>7. TimesInOrder'
    <2>1. \A i, j \in 1..n :
            accepted[k][i] <= clock /\ (i <= j => accepted[k][i] <= accepted[k][j])
        BY DEF LimiterInv, TimesInOrder
    <2>2. ASSUME NEW i \in 1..Len(accepted'[k]), NEW j \in 1..Len(accepted'[k])
          PROVE  /\ accepted'[k][i] <= clock
                 /\ i <= j => accepted'[k][i] <= accepted'[k][j]
        <3>1. i \in 1..n \/ (ok /\ i = n + 1)
            BY <1>1, <1>5
        <3>2. j \in 1..n \/ (ok /\ j = n + 1)
            BY <1>1, <1>5
        <3>3. accepted'[k][i] <= clock
            BY <1>1, <1>5, <2>1, <3>1
        <3>4. CASE ok /\ j = n + 1
            BY <1>5, <3>3, <3>4
        <3>5. CASE j \in 1..n
            <4>. SUFFICES ASSUME i <= j PROVE accepted'[k][i] <= accepted'[k][j]
                BY <3>3
            <4>1. i \in 1..n
                BY <1>1, <3>1, <3>5
            <4>. QED
                BY <1>5, <2>1, <3>5, <4>1
        <3>. QED
            BY <3>2, <3>4, <3>5
    <2>. QED
        BY <1>1, <1>4, <2>2 DEF LimiterInv, TimesInOrder
<1>8. DroppedAreOld'
    <2>1. attempts'[k] \subseteq 1..Len(accepted'[k])
        BY <1>1, <1>3, <1>4, <1>5
    <2>2. ASSUME NEW i \in 1..Len(accepted'[k]) \ attempts'[k]
          PROVE  accepted'[k][i] + Window <= clock
        <3>1. i \in 1..n \ Recent(k)
            BY <1>1, <1>4, <1>5
        <3>. QED
            BY <1>3, <1>5, <3>1
    <2>. QED
        BY <1>1, <1>4, <2>1, <2>2 DEF LimiterInv, DroppedAreOld
<1>9. AnswerHasKey'
    BY <1>2 DEF AnswerHasKey
<1>10. LimitIsExact'
    <2>1. Cardinality(Recent(k)) \in Nat
        BY RecentIsFinite
    <2>2. ASSUME NEW i \in 1..Len(accepted'[k]), i + MaxAttempts <= Len(accepted'[k])
          PROVE  accepted'[k][i + MaxAttempts] >= accepted'[k][i] + Window
        <3>1. CASE i + MaxAttempts <= n
            <4>1. i \in 1..n /\ i + MaxAttempts \in 1..n
                BY <1>1, <3>1
            <4>. QED
                BY <1>5, <3>1, <4>1 DEF LimiterInv, LimitIsExact
        <3>2. CASE ~(i + MaxAttempts <= n)
            <4>1. ok /\ i + MaxAttempts = n + 1 /\ i \in 1..n
                <5>1. Len(accepted'[k]) = (IF ok THEN n + 1 ELSE n) /\ i \in Nat /\ i >= 1
                    BY <1>1, <1>5
                <5>2. CASE ~ok
                    BY <1>1, <2>2, <3>2, <5>1, <5>2
                <5>3. CASE ok
                    <6>1. i + MaxAttempts <= n + 1
                        BY <2>2, <5>1, <5>3
                    <6>. HIDE DEF n
                    <6>. QED
                        BY <1>1, <3>2, <5>1, <5>3, <6>1
                <5>. QED
                    BY <5>2, <5>3
            <4>2. ~(Cardinality(Recent(k)) >= MaxAttempts)
                BY <1>1, <2>1, <4>1 DEF ok
            <4>3. n >= MaxAttempts /\ n - MaxAttempts + 1 = i
                BY <1>1, <4>1
            <4>4. ~(accepted[k][i] + Window > clock)
                BY <4>2, <4>3, WindowIsFull
            <4>5. accepted'[k][i + MaxAttempts] = clock
                BY <1>5, <4>1
            <4>6. accepted'[k][i] = accepted[k][i] /\ accepted[k][i] \in Nat
                BY <1>1, <1>5, <4>1
            <4>. HIDE DEF n, ok
            <4>. QED
                BY <1>1, <4>4, <4>5, <4>6
        <3>. QED
            BY <3>1, <3>2
    <2>3. ASSUME ~ok
          PROVE  /\ n >= MaxAttempts
                 /\ accepted[k][n - MaxAttempts + 1] + Window > clock
        <3>1. Cardinality(Recent(k)) >= MaxAttempts
            BY <1>1, <2>1, <2>3 DEF ok
        <3>. QED
            BY <3>1, WindowIsFull
    <2>4. ~answer'.ok =>
            /\ answer'.key = k /\ answer'.at = clock
            /\ ~ok /\ accepted'[k] = accepted[k]
        BY <1>2, <1>4
    <2>. QED
        BY <1>4, <2>2, <2>3, <2>4 DEF LimiterInv, LimitIsExact
<1>. QED
    BY <1>6, <1>7, <1>8, <1>9, <1>10 DEF LimiterInv

LEMMA LimiterStepKeeps == LimiterInv /\ [LimiterNext]_limiterVars => LimiterInv'
<1>. SUFFICES ASSUME LimiterInv, [LimiterNext]_limiterVars PROVE LimiterInv'
    OBVIOUS
<1>1. CASE LimiterTick
    <2>1. clock' = clock + 1 /\ clock \in Nat /\ UNCHANGED <<attempts, accepted, answer>>
        BY <1>1 DEF LimiterTick, LimiterInv, LimiterTypeOK
    <2>2. \A k \in Keys : \A i \in 1..Len(accepted[k]) :
            accepted[k][i] \in Nat /\ accepted[k][i] + Window \in Nat
        BY LimiterAssumption DEF LimiterInv, LimiterTypeOK
    <2>3. LimiterTypeOK' /\ AnswerHasKey' /\ LimitIsExact'
        BY <2>1 DEF LimiterInv, LimiterTypeOK, AnswerHasKey, LimitIsExact
    <2>4. TimesInOrder'
        BY <2>1, <2>2 DEF LimiterInv, TimesInOrder
    <2>5. DroppedAreOld'
        BY <2>1, <2>2 DEF LimiterInv, DroppedAreOld
    <2>. QED
        BY <2>3, <2>4, <2>5 DEF LimiterInv
<1>2. CASE Restart
    <2>1. /\ clock' = clock /\ answer'.ok
          /\ attempts' = [k \in Keys |-> {}] /\ accepted' = [k \in Keys |-> <<>>]
        BY <1>2 DEF Restart, NoAnswer
    <2>2. \A k \in Keys : Len(accepted'[k]) = 0 /\ 1..Len(accepted'[k]) = {}
        BY <2>1
    <2>3. LimiterTypeOK'
        BY <2>1 DEF LimiterInv, LimiterTypeOK
    <2>. QED
        BY <2>1, <2>2, <2>3
        DEF LimiterInv, TimesInOrder, DroppedAreOld, AnswerHasKey, LimitIsExact
<1>3. CASE UNCHANGED limiterVars
    BY <1>3 DEF limiterVars, LimiterInv, LimiterTypeOK, TimesInOrder, DroppedAreOld,
                AnswerHasKey, LimitIsExact
<1>. QED
    BY <1>1, <1>2, <1>3, RateLimitCheckKeeps DEF LimiterNext

THEOREM LimiterInvariance == LimiterSpec => []LimiterInv
<1>1. LimiterInit => LimiterInv
    <2>. SUFFICES ASSUME LimiterInit PROVE LimiterInv
        OBVIOUS
    <2>1. \A k \in Keys : Len(accepted[k]) = 0 /\ 1..Len(accepted[k]) = {} /\ attempts[k] = {}
        BY DEF LimiterInit
    <2>2. LimiterTypeOK /\ answer.ok
        BY DEF LimiterInit, LimiterTypeOK, NoAnswer
    <2>. QED
        BY <2>1, <2>2
        DEF LimiterInv, TimesInOrder, DroppedAreOld, AnswerHasKey, LimitIsExact
<1>. QED
    BY <1>1, LimiterStepKeeps, PTL DEF LimiterSpec

\* For any limit and window, no window of time holds more accepted attempts of a
\* key than the limit, and an attempt is refused only in a full window.
THEOREM LimiterIsExact == LimiterSpec => []LimitIsExact
<1>1. LimiterInv => LimitIsExact
    BY DEF LimiterInv
<1>. QED
    BY <1>1, LimiterInvariance, PTL

-----------------------------------------------------------------------------
(***************************************************************************)
(* BrowserClient: a pair on its way to a tab is in no other hands, so while *)
(* no cause of a loss has occurred the tab that presents the stored token  *)
(* is the only one to, and it or its new pair is live.                     *)
(***************************************************************************)

Promises ==
    [token : Nat, answer : {"none", "ok", "refused"}, raced : BOOLEAN, pair : Nat]

BrowserTypeOK ==
    /\ stored \in Nat /\ stored <= issued
    /\ refreshPromise \in [Tabs -> Promises]
    /\ issued \in 1..MaxIssued
    /\ session \in [0..MaxIssued -> Nat] /\ session[0] = 0
    /\ login \in 1..issued
    /\ valid \subseteq 1..issued
    /\ \A t \in Tabs : /\ refreshPromise[t].token <= issued
                       /\ refreshPromise[t].pair <= issued
                       /\ refreshPromise[t].answer = "ok" <=> refreshPromise[t].pair # 0
                       /\ refreshPromise[t].token = 0 => refreshPromise[t] = NoRefresh

\* A new pair is known to the tab that awaits it and to nobody else.
PairsArePrivate ==
    \A t \in Tabs :
        refreshPromise[t].pair # 0 =>
            /\ refreshPromise[t].pair # stored
            /\ \A u \in Tabs : refreshPromise[t].pair # refreshPromise[u].token
            /\ \A u \in Tabs \ {t} : refreshPromise[t].pair # refreshPromise[u].pair

\* While the last login's session lasts and nothing was lost, the storage holds a
\* token of it; at most one tab presents that token, it is not refused, and both
\* what it presents and what it awaits is live.
StoredIsPresented ==
    over \/ causes # {} \/
    /\ session[stored] = login
    /\ \A t \in Tabs :
        LET refresh == refreshPromise[t] IN
        refresh.token = stored =>
            /\ ~refresh.raced
            /\ refresh.answer = "none" => refresh.token \in valid
            /\ refresh.answer = "ok" => refresh.pair \in valid /\ session[refresh.pair] = login
            /\ refresh.answer # "refused"
            /\ \A u \in Tabs \ {t} : refreshPromise[u].token # stored

BrowserInv ==
    /\ BrowserTypeOK
    /\ PairsArePrivate
    /\ StoredIsPresented
    /\ SessionIsKept

LEMMA PromiseType ==
    ASSUME BrowserInv, NEW t \in Tabs
    PROVE  LET refresh == refreshPromise[t] IN
           /\ refresh \in Promises
           /\ refresh.token \in 0..issued /\ refresh.pair \in 0..issued
           /\ refresh.answer = "ok" <=> refresh.pair # 0
           /\ refresh.token = 0 => refresh.answer = "none" /\ refresh.pair = 0
    BY DEF BrowserInv, BrowserTypeOK, Promises, NoRefresh

\* While the last login's session lasts and nothing was lost, something is stored.
LEMMA StoredIsIssued ==
    ASSUME BrowserInv, ~over, causes = {}
    PROVE  stored # 0 /\ stored \in 1..issued /\ session[stored] = login
<1>1. session[stored] = login
    BY DEF BrowserInv, StoredIsPresented
<1>. QED
    BY <1>1 DEF BrowserInv, BrowserTypeOK

\* A tab's refresh is over, whether it stores a pair or not.
LEMMA PromiseGone ==
    ASSUME BrowserInv, NEW t \in Tabs, UNCHANGED <<valid, issued, session, login, over>>,
           refreshPromise' = [refreshPromise EXCEPT ![t] = NoRefresh],
           stored' \in {stored, 0, refreshPromise[t].pair}
    PROVE  /\ BrowserTypeOK' /\ PairsArePrivate'
           /\ \A u \in Tabs : refreshPromise'[u] = IF u = t THEN NoRefresh ELSE refreshPromise[u]
<1>1. /\ NoRefresh \in Promises
      /\ NoRefresh.token = 0 /\ NoRefresh.pair = 0 /\ NoRefresh.answer = "none"
    BY DEF NoRefresh, Promises
<1>. HIDE DEF NoRefresh
<1>2. \A u \in Tabs : refreshPromise'[u] = IF u = t THEN NoRefresh ELSE refreshPromise[u]
    BY DEF BrowserInv, BrowserTypeOK
<1>3. BrowserTypeOK'
    BY <1>1, <1>2, PromiseType DEF BrowserInv, BrowserTypeOK
<1>4. PairsArePrivate'
    BY <1>1, <1>2, PromiseType DEF BrowserInv, PairsArePrivate
<1>. QED
    BY <1>2, <1>3, <1>4

LEMMA RotateKeeps ==
    ASSUME BrowserInv, NEW t \in Tabs, Rotate(t)
    PROVE  BrowserInv'
<1>. DEFINE token == refreshPromise[t].token
            pair == issued + 1
<1>1. /\ token # 0 /\ refreshPromise[t].answer = "none" /\ issued < MaxIssued
      /\ token \in valid \/ refreshPromise[t].raced
      /\ issued' = pair /\ valid' = (valid \ {token}) \union {pair}
      /\ session' = [session EXCEPT ![pair] = session[token]]
      /\ UNCHANGED <<stored, login, over, causes>>
    BY DEF Rotate, historyVars
<1>2. /\ issued \in Nat /\ stored \in 0..issued /\ valid \subseteq 1..issued
      /\ pair \in Nat /\ pair = issued + 1 /\ token \in 1..issued /\ pair # token
    <2>1. issued \in Nat /\ stored \in 0..issued /\ valid \subseteq 1..issued
        BY DEF BrowserInv, BrowserTypeOK
    <2>2. token \in 0..issued
        BY PromiseType
    <2>3. token # 0
        BY <1>1
    <2>. HIDE DEF token
    <2>. QED
        BY <2>1, <2>2, <2>3
<1>. DEFINE rotated(u) == IF u = t THEN [refreshPromise[u] EXCEPT !.answer = "ok", !.pair = pair]
                          ELSE IF refreshPromise[u].token = token
                               THEN [refreshPromise[u] EXCEPT !.raced = TRUE]
                               ELSE refreshPromise[u]
<1>3. refreshPromise' = [u \in Tabs |-> rotated(u)]
    BY DEF Rotate
<1>4. \A u \in Tabs : refreshPromise[u] \in Promises
    BY PromiseType
<1>5. refreshPromise[t].token = token
    OBVIOUS
<1>. HIDE DEF token, pair
<1>6. \A u \in Tabs :
        /\ rotated(u) \in Promises
        /\ rotated(u).token = refreshPromise[u].token
        /\ u # t => /\ rotated(u).answer = refreshPromise[u].answer
                    /\ rotated(u).pair = refreshPromise[u].pair
                    /\ refreshPromise[u].token # token =>
                          rotated(u).raced = refreshPromise[u].raced
        /\ u = t => /\ rotated(u).answer = "ok" /\ rotated(u).pair = pair
                    /\ rotated(u).raced = refreshPromise[u].raced
        /\ refreshPromise[u].token = 0 => rotated(u) = refreshPromise[u]
    <2>. SUFFICES ASSUME NEW u \in Tabs
                  PROVE  /\ rotated(u) \in Promises
                         /\ rotated(u).token = refreshPromise[u].token
                         /\ u # t => /\ rotated(u).answer = refreshPromise[u].answer
                                     /\ rotated(u).pair = refreshPromise[u].pair
                                     /\ refreshPromise[u].token # token =>
                                           rotated(u).raced = refreshPromise[u].raced
                         /\ u = t => /\ rotated(u).answer = "ok" /\ rotated(u).pair = pair
                                     /\ rotated(u).raced = refreshPromise[u].raced
                         /\ refreshPromise[u].token = 0 => rotated(u) = refreshPromise[u]
        OBVIOUS
    <2>1. PICK r \in Promises : r = refreshPromise[u]
        BY <1>4
    <2>2. token # 0 /\ pair \in Nat
        BY <1>1, <1>2
    <2>3. CASE u = t
        BY <1>5, <2>1, <2>2, <2>3 DEF Promises
    <2>4. CASE u # t
        BY <2>1, <2>2, <2>4 DEF Promises
    <2>. QED
        BY <2>3, <2>4
<1>7. \A u \in Tabs : refreshPromise'[u] = rotated(u)
    BY <1>3
<1>. HIDE DEF rotated
<1>8. BrowserTypeOK'
    <2>1. refreshPromise' \in [Tabs -> Promises]
        BY <1>6, <1>3
    <2>2. valid' \subseteq 1..issued'
        BY <1>1, <1>2
    <2>3. /\ stored' \in Nat /\ stored' <= issued' /\ issued' \in 1..MaxIssued
          /\ login' \in 1..issued'
        BY <1>1, <1>2, MaxIssuedAssumption DEF BrowserInv, BrowserTypeOK
    <2>5. session' \in [0..MaxIssued -> Nat] /\ session'[0] = 0
        BY <1>1, <1>2, MaxIssuedAssumption DEF BrowserInv, BrowserTypeOK
    <2>4. \A u \in Tabs :
            /\ refreshPromise'[u].token <= issued' /\ refreshPromise'[u].pair <= issued'
            /\ refreshPromise'[u].answer = "ok" <=> refreshPromise'[u].pair # 0
            /\ refreshPromise'[u].token = 0 => refreshPromise'[u] = NoRefresh
        <3>. SUFFICES ASSUME NEW u \in Tabs
                      PROVE  /\ refreshPromise'[u].token <= issued'
                             /\ refreshPromise'[u].pair <= issued'
                             /\ refreshPromise'[u].answer = "ok" <=> refreshPromise'[u].pair # 0
                             /\ refreshPromise'[u].token = 0 => refreshPromise'[u] = NoRefresh
            OBVIOUS
        <3>1. CASE u = t
            BY <1>1, <1>2, <1>5, <1>6, <1>7, <3>1
        <3>2. CASE u # t
            BY <1>1, <1>2, <1>6, <1>7, <3>2, PromiseType DEF BrowserInv, BrowserTypeOK
        <3>. QED
            BY <3>1, <3>2
    <2>. QED
        BY <2>1, <2>2, <2>3, <2>4, <2>5 DEF BrowserTypeOK
<1>9. \A u \in Tabs : pair # refreshPromise[u].token /\ pair # refreshPromise[u].pair
    BY <1>2, PromiseType
<1>10. PairsArePrivate'
    BY <1>1, <1>2, <1>6, <1>7, <1>9 DEF BrowserInv, PairsArePrivate
<1>11. /\ \A p \in 0..issued : session'[p] = session[p]
       /\ session'[pair] = session[token]
    BY <1>1, <1>2, MaxIssuedAssumption DEF BrowserInv, BrowserTypeOK
<1>12. \A u \in Tabs : refreshPromise[u].pair # 0 => refreshPromise[u].pair # token
    BY <1>5 DEF BrowserInv, PairsArePrivate
<1>13. StoredIsPresented'
    <2>. SUFFICES ASSUME ~over, causes = {} PROVE StoredIsPresented'
        BY <1>1 DEF StoredIsPresented
    <2>1. stored # 0 /\ session'[stored] = login
        BY <1>2, <1>11, StoredIsIssued
    <2>2. ASSUME NEW u \in Tabs, refreshPromise[u].token = stored
          PROVE  LET refresh == refreshPromise'[u] IN
                 /\ ~refresh.raced
                 /\ refresh.answer = "none" => refresh.token \in valid'
                 /\ refresh.answer = "ok" =>
                        refresh.pair \in valid' /\ session'[refresh.pair] = login
                 /\ refresh.answer # "refused"
                 /\ \A v \in Tabs \ {u} : refreshPromise'[v].token # stored
        <3>1. /\ ~refreshPromise[u].raced
              /\ refreshPromise[u].answer = "none" => refreshPromise[u].token \in valid
              /\ refreshPromise[u].answer = "ok" =>
                    refreshPromise[u].pair \in valid /\ session[refreshPromise[u].pair] = login
              /\ refreshPromise[u].answer # "refused"
              /\ \A v \in Tabs \ {u} : refreshPromise[v].token # stored
            BY <2>2 DEF BrowserInv, StoredIsPresented
        <3>2. CASE u = t
            <4>1. session'[pair] = login
                BY <1>5, <1>11, <2>2, <3>2, StoredIsIssued
            <4>. QED
                BY <1>1, <1>6, <1>7, <3>1, <3>2, <4>1
        <3>3. CASE u # t
            <4>1. refreshPromise[u].token # token
                BY <1>5, <2>2, <3>1, <3>3
            <4>. QED
                BY <1>1, <1>6, <1>7, <1>11, <1>12, <3>1, <3>3, <4>1, PromiseType
        <3>. QED
            BY <3>2, <3>3
    <2>. QED
        BY <1>1, <1>6, <1>7, <2>1, <2>2 DEF StoredIsPresented
<1>14. SessionIsKept'
    <2>. SUFFICES ASSUME ~over, causes = {} PROVE SessionIsKept'
        BY <1>1 DEF SessionIsKept
    <2>1. session'[stored] = login
        BY <1>2, <1>11, StoredIsIssued
    <2>2. CASE stored \in valid
        BY <1>1, <1>5, <1>6, <1>7, <2>1, <2>2 DEF SessionIsKept
    <2>3. ASSUME NEW u \in Tabs, refreshPromise[u].token = stored,
                 refreshPromise[u].pair \in valid
          PROVE  SessionIsKept'
        <3>1. refreshPromise[u].pair # 0 /\ u # t
            BY <1>1, <1>2, <2>3, PromiseType
        <3>. QED
            BY <1>1, <1>6, <1>7, <1>12, <2>1, <2>3, <3>1 DEF SessionIsKept
    <2>. QED
        BY <2>2, <2>3 DEF BrowserInv, SessionIsKept
<1>. QED
    BY <1>8, <1>10, <1>13, <1>14 DEF BrowserInv

LEMMA RefuseKeeps ==
    ASSUME BrowserInv, NEW t \in Tabs, Refuse(t)
    PROVE  BrowserInv'
<1>1. /\ refreshPromise[t].token \notin valid \union {0} /\ refreshPromise[t].answer = "none"
      /\ UNCHANGED <<stored, valid, issued, session, login, over, causes>>
    BY DEF Refuse, backendVars, historyVars
<1>2. \A u \in Tabs :
        /\ refreshPromise'[u] \in Promises
        /\ refreshPromise'[u].token = refreshPromise[u].token
        /\ refreshPromise'[u].pair = refreshPromise[u].pair
        /\ u # t => refreshPromise'[u] = refreshPromise[u]
        /\ u = t => refreshPromise'[u].answer = "refused"
    BY PromiseType DEF Refuse, Promises, BrowserInv, BrowserTypeOK
<1>3. refreshPromise' \in [Tabs -> Promises]
    BY <1>2 DEF Refuse, BrowserInv, BrowserTypeOK
<1>4. BrowserTypeOK'
    BY <1>1, <1>2, <1>3 DEF BrowserInv, BrowserTypeOK
<1>5. PairsArePrivate'
    BY <1>1, <1>2 DEF BrowserInv, PairsArePrivate
<1>6. over \/ causes # {} \/ refreshPromise[t].token # stored
    BY <1>1 DEF BrowserInv, StoredIsPresented
<1>7. StoredIsPresented'
    BY <1>1, <1>2, <1>6 DEF BrowserInv, StoredIsPresented
<1>8. SessionIsKept'
    BY <1>1, <1>2 DEF BrowserInv, SessionIsKept
<1>. QED
    BY <1>4, <1>5, <1>7, <1>8 DEF BrowserInv

LEMMA UnauthorizedKeeps ==
    ASSUME BrowserInv, NEW t \in Tabs, NEW c \in Calls, Unauthorized(t, c)
    PROVE  BrowserInv'
<1>1. UNCHANGED <<stored, valid, issued, session, login, over>>
    BY DEF Unauthorized, backendVars
<1>2. CASE UNCHANGED <<refreshPromise, causes>>
    BY <1>1, <1>2 DEF BrowserInv, BrowserTypeOK, PairsArePrivate, StoredIsPresented, SessionIsKept
<1>3. CASE ~ UNCHANGED <<refreshPromise, causes>>
    <2>1. /\ refreshPromise[t] = NoRefresh
          /\ refreshPromise' = [refreshPromise EXCEPT ![t].token = stored]
          /\ causes' = IF \E u \in Tabs : stored # 0 /\ refreshPromise[u].token = stored
                       THEN causes \union {"two tabs"} ELSE causes
        BY <1>3 DEF Unauthorized
    <2>2. stored \in 0..issued /\ issued \in Nat
        BY DEF BrowserInv, BrowserTypeOK
    <2>. DEFINE refresh == [NoRefresh EXCEPT !.token = stored]
    <2>3. /\ refresh \in Promises
          /\ refresh.token = stored /\ refresh.answer = "none"
          /\ ~refresh.raced /\ refresh.pair = 0
          /\ stored = 0 => refresh = NoRefresh
        <3>1. NoRefresh \in Promises /\ NoRefresh.token = 0 /\ NoRefresh.answer = "none"
              /\ NoRefresh.raced = FALSE /\ NoRefresh.pair = 0
            BY DEF NoRefresh, Promises
        <3>2. PICK r \in Promises : r = NoRefresh
            BY <3>1
        <3>3. stored \in Nat
            BY <2>2
        <3>4. refresh = [r EXCEPT !.token = stored]
            BY <3>2
        <3>. HIDE DEF refresh, NoRefresh
        <3>5. refresh \in Promises
            BY <3>3, <3>4 DEF Promises
        <3>6. refresh.token = stored
            BY <3>3, <3>4 DEF Promises
        <3>7. refresh.answer = "none" /\ ~refresh.raced /\ refresh.pair = 0
            BY <3>1, <3>2, <3>4 DEF Promises
        <3>8. stored = 0 => refresh = NoRefresh
            BY <3>1, <3>2, <3>4 DEF Promises
        <3>. QED
            BY <3>5, <3>6, <3>7, <3>8
    <2>4. /\ refreshPromise'[t] = refresh
          /\ \A u \in Tabs \ {t} : refreshPromise'[u] = refreshPromise[u]
          /\ refreshPromise' \in [Tabs -> Promises]
        BY <2>1, <2>3 DEF BrowserInv, BrowserTypeOK
    <2>. HIDE DEF refresh
    <2>5. BrowserTypeOK'
        BY <1>1, <2>2, <2>3, <2>4 DEF BrowserInv, BrowserTypeOK
    <2>6. PairsArePrivate'
        BY <1>1, <2>3, <2>4 DEF BrowserInv, PairsArePrivate
    <2>7. ASSUME ~over, causes' = {}
          PROVE  /\ causes = {} /\ stored # 0
                 /\ \A u \in Tabs : refreshPromise[u].token # stored
                 /\ stored \in valid
        <3>1. causes = {}
            BY <2>1, <2>7
        <3>2. stored # 0
            BY <2>7, <3>1, StoredIsIssued
        <3>3. \A u \in Tabs : refreshPromise[u].token # stored
            BY <2>1, <2>7, <3>1, <3>2
        <3>. QED
            BY <2>7, <3>1, <3>2, <3>3 DEF BrowserInv, SessionIsKept
    <2>8. StoredIsPresented'
        <3>. SUFFICES ASSUME ~over, causes' = {} PROVE StoredIsPresented'
            BY <1>1 DEF StoredIsPresented
        <3>1. session'[stored'] = login'
            BY <1>1, <2>7, StoredIsIssued
        <3>2. \A u \in Tabs : refreshPromise'[u].token = stored' => u = t
            BY <1>1, <2>4, <2>7
        <3>. QED
            BY <1>1, <2>3, <2>4, <2>7, <3>1, <3>2 DEF StoredIsPresented
    <2>9. SessionIsKept'
        <3>. SUFFICES ASSUME ~over, causes' = {} PROVE SessionIsKept'
            BY <1>1 DEF SessionIsKept
        <3>. QED
            BY <1>1, <2>7, StoredIsIssued DEF SessionIsKept
    <2>. QED
        BY <2>5, <2>6, <2>8, <2>9 DEF BrowserInv
<1>. QED
    BY <1>2, <1>3

\* Steps that end a refresh: its pair is stored, it failed, or the page is left.
LEMMA PromiseEndKeeps ==
    ASSUME BrowserInv, NEW t \in Tabs, Refreshed(t) \/ RefreshFailed(t) \/ Unload(t)
    PROVE  BrowserInv'
<1>1. UNCHANGED <<valid, issued, session, login, over>>
    BY DEF Refreshed, RefreshFailed, Unload, backendVars
<1>2. refreshPromise' = [refreshPromise EXCEPT ![t] = NoRefresh]
    BY DEF Refreshed, RefreshFailed, Unload, Resolve
<1>3. stored' \in {stored, 0, refreshPromise[t].pair}
    BY DEF Refreshed, RefreshFailed, Unload
<1>4. /\ BrowserTypeOK' /\ PairsArePrivate'
      /\ \A u \in Tabs : refreshPromise'[u] = IF u = t THEN NoRefresh ELSE refreshPromise[u]
    BY <1>1, <1>2, <1>3, PromiseGone
<1>5. NoRefresh.token = 0 /\ NoRefresh.pair = 0
    BY DEF NoRefresh
<1>. HIDE DEF NoRefresh
<1>6. StoredIsPresented' /\ SessionIsKept'
    <2>. SUFFICES ASSUME ~over, causes' = {} PROVE StoredIsPresented' /\ SessionIsKept'
        BY <1>1 DEF SessionIsKept, StoredIsPresented
    <2>1. causes = {}
        BY DEF Refreshed, RefreshFailed, Unload
    <2>2. stored # 0 /\ session[stored] = login
        BY <2>1, StoredIsIssued
    <2>3. CASE Refreshed(t)
        <3>1. /\ refreshPromise[t].answer = "ok" /\ stored' = refreshPromise[t].pair
              /\ refreshPromise[t].token = stored
            BY <2>3 DEF Refreshed, Late
        <3>2. refreshPromise[t].pair \in valid /\ session[refreshPromise[t].pair] = login
            BY <2>1, <3>1 DEF BrowserInv, StoredIsPresented
        <3>3. refreshPromise[t].pair # 0
            BY <3>1, PromiseType
        <3>4. \A u \in Tabs : refreshPromise'[u].token # stored'
            BY <1>4, <1>5, <3>1, <3>3 DEF BrowserInv, PairsArePrivate
        <3>. QED
            BY <1>1, <3>1, <3>2, <3>4 DEF SessionIsKept, StoredIsPresented
    <2>4. CASE RefreshFailed(t)
        <3>1. refreshPromise[t].token = stored /\ refreshPromise[t].answer = "refused"
            BY <2>4 DEF RefreshFailed, Late
        <3>. QED
            BY <2>1, <3>1 DEF BrowserInv, StoredIsPresented
    <2>5. CASE Unload(t)
        <3>1. UNCHANGED stored /\ refreshPromise[t] = NoRefresh
            BY <2>5 DEF Unload
        <3>2. UNCHANGED refreshPromise
            BY <1>2, <3>1 DEF BrowserInv, BrowserTypeOK
        <3>. QED
            BY <1>1, <2>1, <3>1, <3>2 DEF BrowserInv, SessionIsKept, StoredIsPresented
    <2>. QED
        BY <2>3, <2>4, <2>5
<1>. QED
    BY <1>4, <1>6 DEF BrowserInv

\* A new session is in the storage and nobody presents its token yet.
LEMMA LoginKeeps ==
    ASSUME BrowserInv, Login
    PROVE  BrowserInv'
<1>1. /\ issued < MaxIssued /\ issued' = issued + 1 /\ stored' = issued + 1
      /\ login' = issued + 1 /\ session' = [session EXCEPT ![issued + 1] = issued + 1]
      /\ valid' = valid \union {issued + 1}
      /\ UNCHANGED refreshPromise
    BY DEF Login
<1>2. issued \in Nat /\ issued + 1 \in 1..MaxIssued /\ issued + 1 # 0
    BY <1>1, MaxIssuedAssumption DEF BrowserInv, BrowserTypeOK
<1>3. \A t \in Tabs : refreshPromise[t].token # issued + 1 /\ refreshPromise[t].pair # issued + 1
    BY <1>2, PromiseType
<1>4. BrowserTypeOK'
    <2>1. session' \in [0..MaxIssued -> Nat] /\ session'[0] = 0
        BY <1>1, <1>2 DEF BrowserInv, BrowserTypeOK
    <2>2. /\ issued' \in 1..MaxIssued /\ login' \in 1..issued' /\ valid' \subseteq 1..issued'
          /\ stored' \in Nat /\ stored' <= issued'
        BY <1>1, <1>2 DEF BrowserInv, BrowserTypeOK
    <2>3. \A t \in Tabs : refreshPromise[t].token <= issued' /\ refreshPromise[t].pair <= issued'
        BY <1>1, <1>2, PromiseType
    <2>. QED
        BY <1>1, <2>1, <2>2, <2>3 DEF BrowserInv, BrowserTypeOK
<1>5. PairsArePrivate'
    BY <1>1, <1>3 DEF BrowserInv, PairsArePrivate
<1>6. session'[stored'] = login' /\ stored' \in valid'
    BY <1>1, <1>2 DEF BrowserInv, BrowserTypeOK
<1>. QED
    BY <1>1, <1>3, <1>4, <1>5, <1>6 DEF BrowserInv, StoredIsPresented, SessionIsKept

\* A session ends: the last login's, or one before it, which nothing rests on.
LEMMA SessionEndsKeeps ==
    ASSUME BrowserInv, NEW s \in 1..MaxIssued, SessionEnds(s)
    PROVE  BrowserInv'
<1>1. /\ valid' = {p \in valid : session[p] # s} /\ over' = (over \/ s = login)
      /\ UNCHANGED <<stored, issued, session, login, causes>>
    BY DEF SessionEnds
<1>2. \A t \in Tabs :
        /\ refreshPromise'[t] \in Promises
        /\ refreshPromise'[t].token = refreshPromise[t].token
        /\ refreshPromise'[t].pair = refreshPromise[t].pair
        /\ refreshPromise'[t].answer = refreshPromise[t].answer
        /\ refreshPromise'[t].raced => refreshPromise[t].raced
        /\ refreshPromise[t].token = 0 => refreshPromise'[t] = refreshPromise[t]
    <2>. SUFFICES ASSUME NEW t \in Tabs
                  PROVE  /\ refreshPromise'[t] \in Promises
                         /\ refreshPromise'[t].token = refreshPromise[t].token
                         /\ refreshPromise'[t].pair = refreshPromise[t].pair
                         /\ refreshPromise'[t].answer = refreshPromise[t].answer
                         /\ refreshPromise'[t].raced => refreshPromise[t].raced
                         /\ refreshPromise[t].token = 0 => refreshPromise'[t] = refreshPromise[t]
        OBVIOUS
    <2>1. PICK r \in Promises : r = refreshPromise[t]
        BY PromiseType
    <2>2. refreshPromise'[t] = r \/ refreshPromise'[t] = [r EXCEPT !.raced = FALSE]
        BY <2>1 DEF SessionEnds
    <2>3. r.token = 0 => refreshPromise'[t] = r
        BY <2>1 DEF SessionEnds, BrowserInv, BrowserTypeOK
    <2>. QED
        BY <2>1, <2>2, <2>3 DEF Promises
<1>3. refreshPromise' \in [Tabs -> Promises]
    BY <1>2 DEF SessionEnds
<1>4. BrowserTypeOK'
    BY <1>1, <1>2, <1>3 DEF BrowserInv, BrowserTypeOK
<1>5. PairsArePrivate'
    BY <1>1, <1>2 DEF BrowserInv, PairsArePrivate
<1>6. \A p \in valid : session[p] = login => over' \/ p \in valid'
    BY <1>1
<1>7. StoredIsPresented' /\ SessionIsKept'
    <2>. SUFFICES ASSUME ~over', causes = {} PROVE StoredIsPresented' /\ SessionIsKept'
        BY <1>1 DEF StoredIsPresented, SessionIsKept
    <2>1. session[stored] = login /\ ~over
        BY <1>1, StoredIsIssued
    <2>2. StoredIsPresented'
        BY <1>1, <1>2, <1>6, <2>1 DEF BrowserInv, StoredIsPresented
    <2>3. CASE stored \in valid
        BY <1>1, <1>6, <2>1, <2>2, <2>3 DEF SessionIsKept
    <2>4. ASSUME NEW t \in Tabs, refreshPromise[t].token = stored,
                 refreshPromise[t].pair \in valid
          PROVE  SessionIsKept'
        <3>1. refreshPromise[t].pair # 0
            BY <2>4 DEF BrowserInv, BrowserTypeOK
        <3>2. refreshPromise[t].answer = "ok"
            BY <3>1, PromiseType
        <3>3. session[refreshPromise[t].pair] = login
            BY <2>1, <2>4, <3>2 DEF BrowserInv, StoredIsPresented
        <3>. QED
            BY <1>1, <1>2, <1>6, <2>1, <2>4, <3>3 DEF SessionIsKept
    <2>. QED
        BY <2>1, <2>2, <2>3, <2>4 DEF BrowserInv, SessionIsKept
<1>. QED
    BY <1>4, <1>5, <1>7 DEF BrowserInv

LEMMA BrowserStepKeeps == BrowserInv /\ [BrowserNext]_browserVars => BrowserInv'
<1>. SUFFICES ASSUME BrowserInv, [BrowserNext]_browserVars PROVE BrowserInv'
    OBVIOUS
<1>1. CASE UNCHANGED <<stored, refreshPromise, backendVars, historyVars>>
    BY <1>1 DEF backendVars, historyVars, BrowserInv, BrowserTypeOK, PairsArePrivate,
                StoredIsPresented, SessionIsKept
<1>2. ASSUME NEW t \in Tabs, NEW c \in Calls, UnauthorizedAgain(t, c)
      PROVE  BrowserInv'
    <2>1. /\ stored' = 0 /\ causes' # {}
          /\ UNCHANGED <<refreshPromise, valid, issued, session, login, over>>
        BY <1>2 DEF UnauthorizedAgain, backendVars
    <2>. QED
        BY <2>1 DEF BrowserInv, BrowserTypeOK, PairsArePrivate, StoredIsPresented, SessionIsKept
<1>. QED
    BY <1>1, <1>2, RotateKeeps, RefuseKeeps, UnauthorizedKeeps, PromiseEndKeeps, LoginKeeps,
       SessionEndsKeeps
    DEF BrowserNext, browserVars, AccessExpires, Request, Settled

\* The inductive invariant of the client, whatever logins and ends of sessions
\* come between its refreshes.
THEOREM BrowserInvariance == BrowserSpec => []BrowserInv
<1>1. BrowserInit => BrowserInv
    BY MaxIssuedAssumption DEF BrowserInit, BrowserInv, BrowserTypeOK, PairsArePrivate,
           StoredIsPresented, SessionIsKept, NoRefresh, Promises
<1>. QED
    BY <1>1, BrowserStepKeeps, PTL DEF BrowserSpec

\* For any number of tabs, requests and logins, the last login's session is lost
\* before it ends by a lost answer, a refused retry, two tabs' refreshes of one
\* token or an answer that a login has overtaken only.
THEOREM SessionIsKeptAlways == BrowserSpec => []SessionIsKept
<1>1. BrowserInv => SessionIsKept
    BY DEF BrowserInv
<1>. QED
    BY <1>1, BrowserInvariance, PTL

-----------------------------------------------------------------------------
(***************************************************************************)
(* AnalysisChecks: what waits was received before the agent last checked   *)
(* in, and a report is a function of its payload and its time.             *)
(***************************************************************************)

Entries == [payload : Payloads, at : Nat]

\* The agent checked in when the snapshots that wait were received, or later;
\* the row that was loaded tells it unless a rename had changed it.
SeenSince ==
    /\ queue \in Seq(Entries)
    /\ \A i \in DOMAIN queue :
        checkedIn \in Nat /\ queue[i].at <= checkedIn /\ queue[i].at <= now
    /\ atHand # None =>
        /\ atHand.payload \in Payloads
        /\ atHand.at \in Nat
        /\ ~atHand.outdated => atHand.seen \in Nat /\ atHand.at <= atHand.seen
        /\ atHand.before = previous

\* The tracked sections never differ from those the user knows of.
KnownSections ==
    /\ previous = None <=> base = None
    /\ previous # None => \A s \in TrackedSections : previous[s] = base[s]

\* What expiring_cert returned at time t
Judged(p, t) ==
    {[index |-> i, severity |-> IF p.certificates[i] <= t THEN "critical" ELSE "high"] :
        i \in {i \in DOMAIN p.certificates :
                 /\ p.certificates[i] # None
                 /\ p.certificates[i] <= t + ExpiringWithin}}

ReportIsOfItsTime ==
    report # None =>
        /\ report.payload \in Payloads
        /\ report.ran \in Nat /\ report.ran <= now
        /\ report.certificates = Judged(report.payload, report.ran)
        /\ report.duplicates = DuplicateRules(report.payload)
        /\ report.risky = RiskyRules(report.payload)

ChecksInv ==
    /\ now \in Nat
    /\ SeenSince
    /\ KnownSections
    /\ FreshIsNotOffline
    /\ ReportIsOfItsTime

-----------------------------------------------------------------------------

LEMMA ChecksInitHolds == ChecksInit => ChecksInv
    BY DEF ChecksInit, ChecksInv, SeenSince, KnownSections, FreshIsNotOffline,
           ReportIsOfItsTime

LEMMA IngestKeeps ==
    ASSUME ChecksInv, NEW p \in Payloads, Ingest(p)
    PROVE  ChecksInv'
<1>. DEFINE entry == [payload |-> p, at |-> now]
<1>1. PICK e : e = entry
    OBVIOUS
<1>2. /\ queue' = Append(queue, e) /\ checkedIn' = now
      /\ UNCHANGED <<now, atHand, previous, driftOpen, report, base>>
    BY <1>1 DEF Ingest
<1>3. e \in Entries /\ e.at = now /\ now \in Nat /\ queue \in Seq(Entries)
    BY <1>1 DEF Entries, ChecksInv, SeenSince
<1>. HIDE DEF entry
<1>4. queue' \in Seq(Entries) /\ \A i \in DOMAIN queue' :
          queue'[i] = e \/ (i \in DOMAIN queue /\ queue'[i] = queue[i])
    BY <1>2, <1>3
<1>5. \A i \in DOMAIN queue : queue[i].at <= now
    BY DEF ChecksInv, SeenSince
<1>6. \A i \in DOMAIN queue' : queue'[i].at <= now
    BY <1>3, <1>4, <1>5
<1>7. SeenSince'
    BY <1>2, <1>3, <1>4, <1>6 DEF ChecksInv, SeenSince
<1>. QED
    BY <1>2, <1>7 DEF ChecksInv, KnownSections, FreshIsNotOffline, ReportIsOfItsTime, Judged

LEMMA ChecksTickKeeps == ASSUME ChecksInv, ChecksTick PROVE ChecksInv'
<1>1. now \in Nat /\ now' = now + 1
      /\ UNCHANGED <<queue, checkedIn, atHand, previous, driftOpen, report, base>>
    BY DEF ChecksTick, ChecksInv, rowVars
<1>2. now' \in Nat /\ \A t \in Nat : t <= now => t <= now'
    BY <1>1
<1>3. ASSUME NEW i \in DOMAIN queue
      PROVE  queue[i].at \in Nat
  <2>1. queue \in Seq(Entries)
    BY DEF ChecksInv, SeenSince
  <2>2. queue[i] \in Entries
    BY <2>1
  <2>. QED
    BY <2>2 DEF Entries
<1>4. SeenSince'
    BY <1>1, <1>2, <1>3 DEF ChecksInv, SeenSince
<1>5. ReportIsOfItsTime'
    BY <1>1, <1>2 DEF ChecksInv, ReportIsOfItsTime, Judged
<1>. QED
    BY <1>1, <1>2, <1>4, <1>5 DEF ChecksInv, KnownSections, FreshIsNotOffline

LEMMA LoadContextKeeps == ASSUME ChecksInv, LoadContext PROVE ChecksInv'
<1>1. queue # <<>> /\ queue \in Seq(Entries)
      /\ UNCHANGED <<now, checkedIn, previous, driftOpen, report, base>>
    BY DEF LoadContext, ChecksInv, SeenSince, rowVars
<1>2. /\ queue' = Tail(queue)
      /\ atHand' = [payload |-> Head(queue).payload, at |-> Head(queue).at,
                    seen |-> firewall.seen, version |-> firewall.version,
                    outdated |-> firewall.seen # checkedIn, before |-> previous]
    BY DEF LoadContext
<1>3. queue' \in Seq(Entries) /\ \A i \in DOMAIN queue' :
          i + 1 \in DOMAIN queue /\ queue'[i] = queue[i + 1]
    BY <1>1, <1>2
<1>4. 1 \in DOMAIN queue /\ Head(queue) = queue[1] /\ queue[1] \in Entries
    BY <1>1
<1>5. /\ atHand'.payload \in Payloads /\ atHand'.at \in Nat /\ atHand'.before = previous
      /\ ~atHand'.outdated => atHand'.seen \in Nat /\ atHand'.at <= atHand'.seen
    BY <1>2, <1>4 DEF Entries, ChecksInv, SeenSince
<1>6. SeenSince'
    BY <1>1, <1>3, <1>5 DEF ChecksInv, SeenSince
<1>. QED
    BY <1>1, <1>6 DEF ChecksInv, KnownSections, FreshIsNotOffline, ReportIsOfItsTime, Judged

\* The one step that makes a report, and the next snapshot's predecessor
LEMMA RunChecksKeeps == ASSUME ChecksInv, RunChecks PROVE ChecksInv'
<1>. DEFINE p == atHand.payload
<1>1. /\ p \in Payloads /\ atHand.at \in Nat /\ atHand.before = previous /\ now \in Nat
      /\ ~atHand.outdated => atHand.seen \in Nat /\ atHand.at <= atHand.seen
    BY DEF RunChecks, ChecksInv, SeenSince
<1>2. /\ atHand' = None
      /\ UNCHANGED <<now, queue, checkedIn>>
    BY DEF RunChecks, rowVars
<1>3. SeenSince'
    BY <1>2 DEF ChecksInv, SeenSince
<1>4. KnownSections'
  <2>1. /\ previous' = p /\ previous' # None
        /\ driftOpen' = (driftOpen \/ ConfigDrift(p, previous) # {})
        /\ base' = IF driftOpen' \/ base = None THEN p ELSE base
    BY <1>1, NoneIsNoPayload DEF RunChecks
  <2>2. CASE driftOpen' \/ base = None
    BY <1>1, <2>1, <2>2 DEF KnownSections
  <2>3. CASE ~driftOpen' /\ base # None
    <3>1. base' = base /\ previous # None /\ \A s \in TrackedSections : previous[s] = base[s]
        BY <2>1, <2>3 DEF ChecksInv, KnownSections
    <3>2. \A s \in TrackedSections : p[s] = previous[s]
        BY <2>1, <2>3, <3>1 DEF ConfigDrift
    <3>. QED
        BY <2>1, <2>3, <3>1, <3>2 DEF KnownSections, TrackedSections
  <2>. QED
    BY <2>2, <2>3
<1>5. /\ report'.payload = p /\ report'.at = atHand.at /\ report'.ran = now
      /\ report'.offline = AgentOffline(atHand.seen) /\ report'.outdated = atHand.outdated
      /\ report'.certificates = ExpiringCerts(p)
      /\ report'.duplicates = DuplicateRules(p) /\ report'.risky = RiskyRules(p)
    BY DEF RunChecks
<1>6. FreshIsNotOffline'
  <2>1. AgentOffline(atHand.seen) => now > atHand.at + OfflineAfter \/ atHand.outdated
    BY <1>1, ThresholdAssumption DEF AgentOffline
  <2>. QED
    BY <1>5, <2>1 DEF FreshIsNotOffline
<1>7. ReportIsOfItsTime'
    BY <1>1, <1>2, <1>5 DEF ReportIsOfItsTime, ExpiringCerts, Judged
<1>. QED
    BY <1>1, <1>2, <1>3, <1>4, <1>6, <1>7 DEF ChecksInv

LEMMA OthersKeep ==
    ASSUME ChecksInv,
           \/ \E r \in Renames : RenameRead(r) \/ RenameSelect(r) \/ RenameCommit(r)
           \/ CycleFails \/ ResolveDrift \/ UNCHANGED checksVars
    PROVE  ChecksInv'
<1>1. /\ atHand' \in {atHand, None}
      /\ UNCHANGED <<now, queue, checkedIn, previous, report, base>>
    BY DEF RenameRead, RenameSelect, RenameCommit, CycleFails, ResolveDrift, checksVars, rowVars
<1>2. SeenSince'
    BY <1>1 DEF ChecksInv, SeenSince
<1>. QED
    BY <1>1, <1>2 DEF ChecksInv, KnownSections, FreshIsNotOffline, ReportIsOfItsTime, Judged

LEMMA ChecksStepKeeps == ChecksInv /\ [ChecksNext]_checksVars => ChecksInv'
<1>. SUFFICES ASSUME ChecksInv, [ChecksNext]_checksVars
              PROVE  ChecksInv'
    OBVIOUS
<1>1. CASE ChecksTick
    BY <1>1, ChecksTickKeeps
<1>2. ASSUME NEW p \in Payloads, Ingest(p)
      PROVE  ChecksInv'
    BY <1>2, IngestKeeps
<1>3. CASE LoadContext
    BY <1>3, LoadContextKeeps
<1>4. CASE RunChecks
    BY <1>4, RunChecksKeeps
<1>5. CASE \/ \E r \in Renames : RenameRead(r) \/ RenameSelect(r) \/ RenameCommit(r)
           \/ CycleFails \/ ResolveDrift \/ UNCHANGED checksVars
    BY <1>5, OthersKeep
<1>. QED
    BY <1>1, <1>2, <1>3, <1>4, <1>5 DEF ChecksNext

\* The inductive invariant: what waits came no later than the last check-in,
\* whatever renames made of last_seen_at, and every report is of its payload at
\* the time it was made.
THEOREM ChecksInvariance == ChecksSpec => []ChecksInv
<1>1. ChecksInit => ChecksInv
    BY ChecksInitHolds
<1>2. ChecksInv /\ [ChecksNext]_checksVars => ChecksInv'
    BY ChecksStepKeeps
<1>. QED
    BY <1>1, <1>2, PTL DEF ChecksSpec

-----------------------------------------------------------------------------

\* agent_offline.run() does not report a snapshot analyzed within the threshold,
\* whatever the threshold and the backlog, unless a rename had written an older
\* last_seen_at back.
THEOREM FreshIsNeverOffline == ChecksSpec => []FreshIsNotOffline
<1>1. ChecksInv => FreshIsNotOffline
    BY DEF ChecksInv
<1>. QED
    BY <1>1, ChecksInvariance, PTL

\* config_drift.run(), with its open finding suppressing it: the sections it
\* tracks never drift from those the user knows of without a finding.
THEOREM DriftIsNeverSilent == ChecksSpec => []NoSilentDrift
<1>1. ChecksInv => NoSilentDrift
    BY DEF ChecksInv, KnownSections, NoSilentDrift, TrackedSections
<1>. QED
    BY <1>1, ChecksInvariance, PTL

-----------------------------------------------------------------------------

\* What expiring_cert says of the certificate i of payload p at time t
SeverityAt(p, i, t) ==
    IF p.certificates[i] = None \/ ~(p.certificates[i] <= t + ExpiringWithin) THEN 0
    ELSE IF p.certificates[i] <= t THEN 2 ELSE 1

LEMMA SeverityIsOfItsTime ==
    ASSUME NEW p \in Payloads, NEW t \in Nat, NEW r, r.certificates = Judged(p, t),
           NEW i \in DOMAIN p.certificates
    PROVE  Severity(r, i) = SeverityAt(p, i, t)
<1>1. ASSUME NEW s
      PROVE  [index |-> i, severity |-> s] \in r.certificates <=>
               /\ p.certificates[i] # None
               /\ p.certificates[i] <= t + ExpiringWithin
               /\ s = IF p.certificates[i] <= t THEN "critical" ELSE "high"
    BY DEF Judged
<1>. QED
    BY <1>1 DEF Severity, SeverityAt

LEMMA SeverityRises ==
    ASSUME NEW p \in Payloads, NEW q \in Payloads, p.certificates = q.certificates,
           NEW i \in DOMAIN p.certificates, NEW t \in Nat, NEW u \in Nat, t <= u
    PROVE  SeverityAt(q, i, u) >= SeverityAt(p, i, t)
<1>1. p.certificates[i] = None \/ p.certificates[i] \in Nat
    BY PayloadAssumption DEF PayloadAssumption
<1>. QED
    BY <1>1, ThresholdAssumption DEF SeverityAt

\* expiring_cert.run() on an unchanged certificate only becomes more severe from
\* one analysis to a later one, and never forgets it.
THEOREM CertificatesNeverRecover == ChecksSpec => CertificatesOnlyGetWorse
<1>. DEFINE Worse ==
        report # None /\ report.payload.certificates = report'.payload.certificates =>
           \A i \in DOMAIN report.payload.certificates : Severity(report', i) >= Severity(report, i)
<1>1. ASSUME ChecksInv, ChecksInv', ChecksNext, report' # report
      PROVE  Worse
  <2>1. RunChecks
    BY <1>1 DEF ChecksNext, ChecksTick, Ingest, RenameRead, RenameSelect, RenameCommit,
                LoadContext, CycleFails, ResolveDrift
  <2>2. SUFFICES ASSUME report # None,
                        report.payload.certificates = report'.payload.certificates,
                        NEW i \in DOMAIN report.payload.certificates
                 PROVE  Severity(report', i) >= Severity(report, i)
    OBVIOUS
  <2>3. /\ report.payload \in Payloads /\ report.ran \in Nat /\ report.ran <= now
        /\ report.certificates = Judged(report.payload, report.ran) /\ now \in Nat
    BY <1>1, <2>2 DEF ChecksInv, ReportIsOfItsTime
  <2>4. /\ atHand.payload \in Payloads
        /\ report'.payload = atHand.payload
        /\ report'.certificates = Judged(atHand.payload, now)
    BY <1>1, <2>1 DEF RunChecks, ChecksInv, SeenSince, ExpiringCerts, Judged
  <2>5. Severity(report, i) = SeverityAt(report.payload, i, report.ran)
    BY <2>2, <2>3, SeverityIsOfItsTime
  <2>6. Severity(report', i) = SeverityAt(atHand.payload, i, now)
    BY <2>2, <2>3, <2>4, SeverityIsOfItsTime
  <2>7. SeverityAt(atHand.payload, i, now) >= SeverityAt(report.payload, i, report.ran)
    BY <2>2, <2>3, <2>4, SeverityRises
  <2>. QED
    BY <2>5, <2>6, <2>7
<1>2. ChecksInv /\ ChecksInv' /\ [ChecksNext]_checksVars => [Worse]_report
    BY <1>1 DEF checksVars
<1>. QED
    BY <1>2, ChecksInvariance, PTL DEF ChecksSpec, CertificatesOnlyGetWorse

-----------------------------------------------------------------------------

\* Rules that agree in the six fields
Alike(a, b) == \A f \in MatchFields \union {"action"} : a[f] = b[f]

\* The rules that agree with rule i
SameAs(p, i) == {j \in DOMAIN p.rules : Alike(p.rules[j], p.rules[i])}

LEMMA KeysAreAlike == ASSUME NEW a, NEW b PROVE RuleKey(a) = RuleKey(b) <=> Alike(a, b)
    BY DEF RuleKey, Alike, MatchFields

LEMMA AlikeIsEquivalence ==
    ASSUME NEW a, NEW b, NEW c
    PROVE  Alike(a, a) /\ (Alike(a, b) => Alike(b, a)) /\ (Alike(a, b) /\ Alike(b, c) => Alike(a, c))
    BY DEF Alike

LEMMA GroupsAreAlike ==
    ASSUME NEW p \in Payloads
    PROVE  DuplicateRules(p) = {g \in {SameAs(p, i) : i \in DOMAIN p.rules} : Cardinality(g) >= 2}
<1>1. ASSUME NEW i \in DOMAIN p.rules
      PROVE  {j \in DOMAIN p.rules : RuleKey(p.rules[j]) = RuleKey(p.rules[i])} = SameAs(p, i)
    BY KeysAreAlike DEF SameAs
<1>2. {{j \in DOMAIN p.rules : RuleKey(p.rules[j]) = RuleKey(p.rules[i])} : i \in DOMAIN p.rules}
        = {SameAs(p, i) : i \in DOMAIN p.rules}
    BY <1>1
<1>. QED
    BY <1>2 DEF DuplicateRules

LEMMA SameAsAlike ==
    ASSUME NEW p, NEW i \in DOMAIN p.rules, NEW j \in SameAs(p, i)
    PROVE  SameAs(p, j) = SameAs(p, i)
<1>1. j \in DOMAIN p.rules /\ Alike(p.rules[j], p.rules[i])
    BY DEF SameAs
<1>2. ASSUME NEW l \in DOMAIN p.rules
      PROVE  Alike(p.rules[l], p.rules[j]) <=> Alike(p.rules[l], p.rules[i])
    BY <1>1, AlikeIsEquivalence
<1>. QED
    BY <1>2 DEF SameAs

\* duplicate_rule groups a rule exactly with the others it agrees with.
LEMMA DuplicatesAreGroups ==
    ASSUME NEW p \in Payloads
    PROVE  /\ \A g \in DuplicateRules(p) : \A i \in g : g = SameAs(p, i)
           /\ \A i, j \in DOMAIN p.rules :
                i # j /\ Alike(p.rules[i], p.rules[j]) => SameAs(p, i) \in DuplicateRules(p)
<1>1. Len(p.rules) \in Nat /\ DOMAIN p.rules = 1..Len(p.rules)
    BY PayloadAssumption DEF PayloadAssumption
<1>2. ASSUME NEW g \in DuplicateRules(p), NEW i \in g PROVE g = SameAs(p, i)
    BY GroupsAreAlike, SameAsAlike
<1>3. ASSUME NEW i \in DOMAIN p.rules, NEW j \in DOMAIN p.rules, i # j,
             Alike(p.rules[i], p.rules[j])
      PROVE  SameAs(p, i) \in DuplicateRules(p)
    <2>1. IsFiniteSet(1..Len(p.rules))
        BY <1>1, FS_Interval
    <2>2. IsFiniteSet(SameAs(p, i))
        BY <1>1, <2>1, FS_Subset DEF SameAs
    <2>3. {i, j} \subseteq SameAs(p, i)
        BY <1>3, AlikeIsEquivalence DEF SameAs
    <2>4. Cardinality({i, j}) = 2
        <3>1. IsFiniteSet({i}) /\ Cardinality({i}) = 1
            BY FS_Singleton
        <3>2. {i, j} = {i} \union {j} /\ j \notin {i}
            BY <1>3
        <3>. QED
            BY <3>1, <3>2, FS_AddElement
    <2>5. Cardinality({i, j}) <= Cardinality(SameAs(p, i))
        BY <2>2, <2>3, FS_Subset
    <2>6. Cardinality(SameAs(p, i)) \in Nat
        BY <2>2, FS_CardinalityType
    <2>7. Cardinality(SameAs(p, i)) >= 2
        BY <2>4, <2>5, <2>6
    <2>. QED
        BY <2>7, GroupsAreAlike
<1>. QED
    BY <1>2, <1>3

\* A rule lets everything through iff it allows, and from any host to any host.
LEMMA EverythingIsAny ==
    ASSUME NEW rule
    PROVE  LetsThrough(rule) = {"lan", "wan"} \X {"lan", "wan"} <=>
             /\ rule.action \in {"allow", "pass"}
             /\ rule.source = "any" /\ rule.destination = "any"
<1>. DEFINE all == {"lan", "wan"} \X {"lan", "wan"}
<1>1. <<"lan", "lan">> \in all /\ <<"wan", "wan">> \in all
    OBVIOUS
<1>2. CASE rule.action \notin {"allow", "pass"}
    BY <1>1, <1>2 DEF LetsThrough
<1>3. CASE rule.action \in {"allow", "pass"}
    <2>. DEFINE hosts(field) == IF field = "any" THEN {"lan", "wan"} ELSE {field}
    <2>1. LetsThrough(rule) = hosts(rule.source) \X hosts(rule.destination)
        BY <1>3 DEF LetsThrough
    <2>2. CASE rule.source = "any" /\ rule.destination = "any"
        BY <1>3, <2>1, <2>2
    <2>3. CASE rule.source # "any"
        <3>1. <<"lan", "lan">> \notin LetsThrough(rule) \/ <<"wan", "wan">> \notin LetsThrough(rule)
            BY <2>1, <2>3
        <3>. QED
            BY <1>1, <2>3, <3>1
    <2>4. CASE rule.destination # "any"
        <3>1. <<"lan", "lan">> \notin LetsThrough(rule) \/ <<"wan", "wan">> \notin LetsThrough(rule)
            BY <2>1, <2>4
        <3>. QED
            BY <1>1, <2>4, <3>1
    <2>. QED
        BY <2>2, <2>3, <2>4
<1>. QED
    BY <1>2, <1>3

\* Rules that agree with one of those kept, and come later, decide nothing.
LEMMA VerdictOfKept ==
    ASSUME NEW rules, NEW kept, kept \subseteq DOMAIN rules, DOMAIN rules \subseteq Nat,
           \A i \in DOMAIN rules : \E j \in kept : j <= i /\ Alike(rules[j], rules[i]),
           NEW packet, NEW action
    PROVE  IsVerdict(rules, kept, packet, action)
           <=> IsVerdict(rules, DOMAIN rules, packet, action)
<1>1. ASSUME NEW i \in DOMAIN rules, Matches(rules[i], packet)
      PROVE  \E j \in kept : j <= i /\ Matches(rules[j], packet)
    BY <1>1 DEF Alike, Matches
<1>2. ASSUME IsVerdict(rules, kept, packet, action)
      PROVE  IsVerdict(rules, DOMAIN rules, packet, action)
    <2>1. PICK i \in kept :
              /\ Matches(rules[i], packet) /\ action = rules[i].action
              /\ \A j \in kept : Matches(rules[j], packet) => i <= j
        BY <1>2 DEF IsVerdict
    <2>2. ASSUME NEW j \in DOMAIN rules, Matches(rules[j], packet) PROVE i <= j
        <3>1. PICK l \in kept : l <= j /\ Matches(rules[l], packet)
            BY <1>1, <2>2
        <3>2. i <= l /\ i \in Nat /\ l \in Nat /\ j \in Nat
            BY <2>1, <3>1
        <3>. QED
            BY <3>1, <3>2
    <2>. QED
        BY <2>1, <2>2 DEF IsVerdict
<1>3. ASSUME IsVerdict(rules, DOMAIN rules, packet, action)
      PROVE  IsVerdict(rules, kept, packet, action)
    <2>1. PICK i \in DOMAIN rules :
              /\ Matches(rules[i], packet) /\ action = rules[i].action
              /\ \A j \in DOMAIN rules : Matches(rules[j], packet) => i <= j
        BY <1>3 DEF IsVerdict
    <2>2. PICK j \in kept : j <= i /\ Matches(rules[j], packet)
        BY <1>1, <2>1
    <2>3. i <= j /\ i \in Nat /\ j \in Nat
        BY <2>1, <2>2
    <2>4. i \in kept
        BY <2>2, <2>3
    <2>. QED
        BY <2>1, <2>4 DEF IsVerdict
<1>. QED
    BY <1>2, <1>3

\* duplicate_rule and risky_rule, for every list of rules: what is left of each
\* group is one rule of those that agree and decides as all did, and the risky
\* ones let everything through.
THEOREM RuleFindingsAreExactAlways == ChecksSpec => []RuleFindingsAreExact
<1>1. ASSUME ChecksInv PROVE RuleFindingsAreExact
    <2>. SUFFICES ASSUME report # None PROVE RuleFindingsAreExact
        BY DEF RuleFindingsAreExact
    <2>. DEFINE p == report.payload
                rules == p.rules
                kept == {i \in DOMAIN rules :
                            \A g \in report.duplicates : i \in g => \A j \in g : i <= j}
    <2>1. /\ p \in Payloads
          /\ report.duplicates = DuplicateRules(p) /\ report.risky = RiskyRules(p)
        BY <1>1 DEF ChecksInv, ReportIsOfItsTime
    <2>2. DOMAIN rules \subseteq Nat
        BY <2>1, PayloadAssumption DEF PayloadAssumption
    <2>3. ASSUME NEW i \in kept, NEW j \in kept, Alike(rules[i], rules[j]), i # j
          PROVE  FALSE
        <3>1. i \in DOMAIN rules /\ j \in DOMAIN rules
            OBVIOUS
        <3>2. SameAs(p, i) \in report.duplicates
            BY <2>1, <2>3, <3>1, DuplicatesAreGroups
        <3>3. i \in SameAs(p, i) /\ j \in SameAs(p, i)
            BY <2>3, <3>1, AlikeIsEquivalence DEF SameAs
        <3>4. i <= j /\ j <= i
            BY <3>2, <3>3
        <3>. QED
            BY <2>2, <2>3, <3>1, <3>4
    <2>4. ASSUME NEW i \in DOMAIN rules
          PROVE  \E j \in kept : j <= i /\ Alike(rules[j], rules[i])
        <3>1. i \in SameAs(p, i) /\ SameAs(p, i) \subseteq Nat
            BY <2>2, AlikeIsEquivalence DEF SameAs
        <3>2. PICK j \in SameAs(p, i) : \A l \in SameAs(p, i) : j <= l
            BY <3>1, LeastElement
        <3>3. j \in DOMAIN rules /\ Alike(rules[j], rules[i]) /\ SameAs(p, j) = SameAs(p, i)
            BY SameAsAlike DEF SameAs
        <3>4. \A g \in report.duplicates : j \in g => g = SameAs(p, i)
            BY <2>1, <3>3, DuplicatesAreGroups
        <3>5. j \in kept
            BY <3>2, <3>3, <3>4
        <3>. QED
            BY <3>1, <3>2, <3>3, <3>5
    <2>5. report.risky = {i \in DOMAIN rules :
                            LetsThrough(rules[i]) = {"lan", "wan"} \X {"lan", "wan"}}
        BY <2>1, EverythingIsAny DEF RiskyRules
    <2>6. kept \subseteq DOMAIN rules
        OBVIOUS
    <2>. HIDE DEF kept
    <2>7. \A i, j \in kept :
              (\A f \in MatchFields \union {"action"} : rules[i][f] = rules[j][f]) => i = j
        BY <2>3 DEF Alike
    <2>8. ASSUME NEW packet \in Packets, NEW action
          PROVE  IsVerdict(rules, kept, packet, action)
                 <=> IsVerdict(rules, DOMAIN rules, packet, action)
        BY <2>2, <2>4, <2>6, VerdictOfKept
    <2>. QED
        BY <2>5, <2>7, <2>8 DEF RuleFindingsAreExact, kept
<1>. QED
    BY <1>1, ChecksInvariance, PTL
=============================================================================
