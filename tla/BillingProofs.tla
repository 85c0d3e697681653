----------------------------- MODULE BillingProofs -----------------------------
(***************************************************************************)
(* Theorems about Billing, for every number of accounts, checkout sessions *)
(* and concurrent deliveries, in whatever order Stripe delivers.  What a   *)
(* delivery writes comes from its event or leaves the column alone, so the *)
(* invariant ties events and columns to paid checkouts of their account.   *)
(***************************************************************************)
EXTENDS BillingHistory, TLAPS

Paid(s) == checkout[s] \notin {"absent", "open"}

\* A checkout session that exists has its buyer.
SessionsHaveBuyers ==
    \A s \in Checkouts : checkout[s] # "absent" => buyer[s] \in Accounts

\* Stripe emits events of paid checkouts only.
EventsArePaid == \A e \in DOMAIN events : Paid(events[e].checkout)

\* The Stripe ids of a subscription are those of a checkout its account paid.
IdsAreOwn ==
    \A a \in Accounts :
        \A id \in {subscription[a].customer, subscription[a].subscriptionId} \ {None} :
            Paid(id) /\ buyer[id] = a

\* A request is about an event Stripe emitted.
RequestsHaveEvents ==
    \A h \in Handlers : request[h].op # "idle" => request[h].event \in DOMAIN events

IndInv ==
    /\ TypeOK
    /\ SessionsHaveBuyers
    /\ EventsArePaid
    /\ IdsAreOwn
    /\ ProWasPaid
    /\ RequestsHaveEvents

-----------------------------------------------------------------------------

LEMMA InitHolds == Init => IndInv
<1>. SUFFICES ASSUME Init PROVE IndInv
    OBVIOUS
<1>1. FreePlan \in Rows
    BY DEF FreePlan, Rows, Tiers, PlanStatuses, Ids
<1>2. Idle \in Requests
    BY <1>1 DEF Idle, Requests
<1>3. TypeOK
    BY <1>1, <1>2, MaxEventsAssumption DEF Init, TypeOK
<1>4. /\ SessionsHaveBuyers /\ EventsArePaid /\ IdsAreOwn /\ ProWasPaid
      /\ RequestsHaveEvents
    BY DEF Init, SessionsHaveBuyers, EventsArePaid, IdsAreOwn, ProWasPaid,
           RequestsHaveEvents, FreePlan, Idle
<1>. QED
    BY <1>3, <1>4 DEF IndInv

\* An event's account bought its checkout.
LEMMA EventHasAccount ==
    ASSUME IndInv, NEW e \in DOMAIN events
    PROVE  /\ events[e] \in Events
           /\ e \in EventIds
           /\ AccountOf(e) \in Accounts
           /\ Paid(events[e].checkout)
<1>1. events[e] \in Events /\ e \in EventIds
    BY MaxEventsAssumption DEF IndInv, TypeOK, EventIds
<1>2. Paid(events[e].checkout)
    BY DEF IndInv, EventsArePaid
<1>3. AccountOf(e) \in Accounts
    BY <1>1, <1>2 DEF IndInv, SessionsHaveBuyers, Paid, AccountOf, Events
<1>. QED
    BY <1>1, <1>2, <1>3

\* What a delivery writes over a row: each column as it was, or the event's.
LEMMA WrittenRow ==
    ASSUME NEW e \in DOMAIN events, events[e] \in Events,
           NEW current \in Rows, NEW selected \in Rows
    PROVE  LET row == Updated(current, selected, AfterEvent(e, selected)) IN
           /\ row \in Rows
           /\ row.customer \in {current.customer, events[e].checkout}
           /\ row.subscriptionId \in {current.subscriptionId, events[e].checkout}
           /\ current.customer # None => row.customer # None
<1>. DEFINE wanted == AfterEvent(e, selected)
            row == Updated(current, selected, wanted)
<1>1. events[e].checkout \in Checkouts /\ events[e].checkout # None
    BY NoneAssumption DEF Events
<1>2. PlanOf(events[e].status).tier \in Tiers /\ PlanOf(events[e].status).status \in PlanStatuses
    BY DEF PlanOf, Tiers, PlanStatuses
<1>3. /\ wanted \in Rows
      /\ wanted.customer \in {selected.customer, events[e].checkout}
      /\ wanted.subscriptionId \in {selected.subscriptionId, events[e].checkout}
    BY <1>1, <1>2 DEF AfterEvent, Rows, Ids, Tiers, PlanStatuses
<1>4. DOMAIN current = {"tier", "status", "customer", "subscriptionId"}
    BY DEF Rows
<1>. HIDE DEF wanted
<1>5. row = [tier |-> IF wanted.tier # selected.tier THEN wanted.tier ELSE current.tier,
             status |-> IF wanted.status # selected.status
                        THEN wanted.status ELSE current.status,
             customer |-> IF wanted.customer # selected.customer
                          THEN wanted.customer ELSE current.customer,
             subscriptionId |-> IF wanted.subscriptionId # selected.subscriptionId
                                THEN wanted.subscriptionId ELSE current.subscriptionId]
    BY <1>4 DEF Updated
<1>. QED
    BY <1>1, <1>3, <1>5 DEF Rows, wanted

\* Steps that leave subscriptions, checkouts and events alone.
LEMMA RequestsKept ==
    ASSUME IndInv, UNCHANGED <<subscription, webhookEvents, stripeVars>>,
           NEW h \in Handlers, NEW r \in Requests, request' = [request EXCEPT ![h] = r],
           r.op # "idle" => r.event \in DOMAIN events
    PROVE  IndInv'
<1>1. TypeOK'
    BY DEF IndInv, TypeOK, stripeVars
<1>2. RequestsHaveEvents'
    BY DEF IndInv, TypeOK, RequestsHaveEvents, stripeVars
<1>3. SessionsHaveBuyers' /\ EventsArePaid' /\ IdsAreOwn' /\ ProWasPaid'
    BY DEF IndInv, SessionsHaveBuyers, EventsArePaid, IdsAreOwn, ProWasPaid, Paid, stripeVars
<1>. QED
    BY <1>1, <1>2, <1>3 DEF IndInv

LEMMA DeliveryKeeps ==
    ASSUME IndInv, NEW h \in Handlers,
           \/ \E e \in DOMAIN events : ReceiveEvent(h, e)
           \/ SelectSubscription(h)
           \/ Abort(h)
    PROVE  IndInv'
<1>1. FreePlan \in Rows
    BY DEF FreePlan, Rows, Tiers, PlanStatuses, Ids
<1>2. Idle \in Requests
    BY <1>1 DEF Idle, Requests
<1>3. ASSUME NEW e \in DOMAIN events, ReceiveEvent(h, e) PROVE IndInv'
    <2>. DEFINE r == [Idle EXCEPT !.op = "received", !.event = e]
    <2>1. e \in EventIds
        BY EventHasAccount
    <2>2. r \in Requests /\ r.event = e
        BY <1>2, <2>1 DEF Requests
    <2>3. request' = [request EXCEPT ![h] = r] /\ UNCHANGED <<subscription, webhookEvents, stripeVars>>
        BY <1>3 DEF ReceiveEvent
    <2>. HIDE DEF r
    <2>. QED
        BY <2>2, <2>3, RequestsKept
<1>4. CASE SelectSubscription(h)
    <2>. DEFINE r == [request[h] EXCEPT !.op = "selected",
                                        !.row = subscription[AccountOf(request[h].event)]]
    <2>1. request[h] \in Requests /\ request[h].event \in DOMAIN events
        BY <1>4 DEF IndInv, TypeOK, RequestsHaveEvents, SelectSubscription
    <2>2. subscription[AccountOf(request[h].event)] \in Rows
        BY <2>1, EventHasAccount DEF IndInv, TypeOK
    <2>3. r \in Requests /\ r.event = request[h].event
        BY <2>1, <2>2 DEF Requests
    <2>4. request' = [request EXCEPT ![h] = r] /\ UNCHANGED <<subscription, webhookEvents, stripeVars>>
        BY <1>4 DEF SelectSubscription, IndInv, TypeOK
    <2>. HIDE DEF r
    <2>. QED
        BY <2>1, <2>3, <2>4, RequestsKept
<1>5. CASE Abort(h)
    BY <1>2, <1>5, RequestsKept DEF Abort, Idle
<1>. QED
    BY <1>3, <1>4, <1>5

LEMMA CheckoutKeeps ==
    ASSUME IndInv, NEW a \in Accounts, NEW s \in Checkouts, CreateCheckoutSession(a, s)
    PROVE  IndInv'
<1>1. \A t \in Checkouts : checkout[t] # "absent" =>
          checkout'[t] = checkout[t] /\ buyer'[t] = buyer[t]
    BY DEF IndInv, TypeOK, CreateCheckoutSession
<1>2. TypeOK'
    BY DEF IndInv, TypeOK, CreateCheckoutSession
<1>3. SessionsHaveBuyers'
    BY DEF IndInv, TypeOK, SessionsHaveBuyers, CreateCheckoutSession
<1>4. EventsArePaid'
    BY <1>1, EventHasAccount DEF IndInv, EventsArePaid, Paid, CreateCheckoutSession, Events
<1>5. IdsAreOwn'
    BY <1>1 DEF IndInv, TypeOK, IdsAreOwn, Paid, CreateCheckoutSession, Rows, Ids
<1>6. ProWasPaid'
    BY <1>1 DEF IndInv, ProWasPaid, CreateCheckoutSession
<1>7. RequestsHaveEvents'
    BY DEF IndInv, RequestsHaveEvents, CreateCheckoutSession
<1>. QED
    BY <1>2, <1>3, <1>4, <1>5, <1>6, <1>7 DEF IndInv

LEMMA StripeKeeps ==
    ASSUME IndInv, StripeStep
    PROVE  IndInv'
<1>1. PICK s \in Checkouts : \/ StripeCompletes(s)
                             \/ \E status \in StripeStatuses, period \in BOOLEAN :
                                    StripeUpdates(s, status, period)
                             \/ StripeDeletes(s)
                             \/ StripeNotifies(s)
    BY DEF StripeStep
<1>2. /\ checkout[s] # "absent"
      /\ checkout' \in [Checkouts -> {"absent", "open", "deleted"} \union StripeStatuses]
      /\ \A t \in Checkouts : checkout'[t] = checkout[t] \/ t = s
      /\ checkout'[s] \notin {"absent", "open"}
    BY <1>1 DEF IndInv, TypeOK, StripeCompletes, StripeUpdates, StripeDeletes, StripeNotifies,
                StripeStatuses
<1>3. PICK type \in {"completed", "updated", "deleted", "other"}, status \in StripeStatuses,
            period \in BOOLEAN : Emit(type, s, status, period)
    BY <1>1 DEF StripeCompletes, StripeUpdates, StripeDeletes, StripeNotifies, StripeStatuses
<1>. DEFINE event == [type |-> type, checkout |-> s, status |-> status, period |-> period]
<1>4. event \in Events /\ events \in Seq(Events) /\ Len(events) < MaxEvents
    BY <1>3 DEF Events, Emit, IndInv, TypeOK
<1>5. events' = Append(events, event) /\ UNCHANGED <<subscription, webhookEvents, buyer, request>>
    BY <1>3 DEF Emit
<1>. HIDE DEF event
<1>6. /\ events' \in Seq(Events) /\ Len(events') <= MaxEvents
      /\ DOMAIN events \subseteq DOMAIN events'
      /\ \A e \in DOMAIN events' :
            \/ e \in DOMAIN events /\ events'[e] = events[e]
            \/ events'[e] = event
    BY <1>4, <1>5, MaxEventsAssumption
<1>7. event.checkout = s
    BY DEF event
<1>8. TypeOK'
    BY <1>2, <1>5, <1>6 DEF IndInv, TypeOK
<1>9. SessionsHaveBuyers'
    BY <1>2, <1>5 DEF IndInv, SessionsHaveBuyers
<1>10. EventsArePaid'
    BY <1>2, <1>6, <1>7, EventHasAccount DEF IndInv, EventsArePaid, Paid, Events
<1>11. IdsAreOwn'
    BY <1>2, <1>5 DEF IndInv, TypeOK, IdsAreOwn, Paid, Rows, Ids
<1>12. ProWasPaid'
    BY <1>2, <1>5 DEF IndInv, ProWasPaid
<1>13. RequestsHaveEvents'
    BY <1>5, <1>6 DEF IndInv, RequestsHaveEvents
<1>. QED
    BY <1>8, <1>9, <1>10, <1>11, <1>12, <1>13 DEF IndInv

LEMMA CommitEventKeeps ==
    ASSUME IndInv, NEW h \in Handlers, CommitEvent(h)
    PROVE  IndInv'
<1>. DEFINE e == request[h].event
            a == AccountOf(e)
            row == Updated(subscription[a], request[h].row, AfterEvent(e, request[h].row))
<1>1. e \in DOMAIN events /\ request[h].row \in Rows
    BY DEF IndInv, TypeOK, RequestsHaveEvents, CommitEvent, Requests
<1>2. events[e] \in Events /\ a \in Accounts /\ Paid(events[e].checkout)
    BY <1>1, EventHasAccount
<1>3. /\ row \in Rows
      /\ row.customer \in {subscription[a].customer, events[e].checkout}
      /\ row.subscriptionId \in {subscription[a].subscriptionId, events[e].checkout}
    BY <1>1, <1>2, WrittenRow DEF IndInv, TypeOK
<1>4. /\ subscription' = [subscription EXCEPT ![a] = row]
      /\ webhookEvents' = webhookEvents \union {e}
      /\ request' = [request EXCEPT ![h] = Idle] /\ UNCHANGED stripeVars
    BY DEF CommitEvent
<1>5. buyer[events[e].checkout] = a /\ events[e].checkout \in Checkouts
    BY <1>2 DEF AccountOf, Events
<1>6. FreePlan \in Rows
    BY DEF FreePlan, Rows, Tiers, PlanStatuses, Ids
<1>7. Idle \in Requests /\ Idle.op = "idle"
    BY <1>6 DEF Idle, Requests
<1>. HIDE DEF row, a, e
<1>8. TypeOK'
    BY <1>1, <1>2, <1>3, <1>4, <1>7 DEF IndInv, TypeOK, stripeVars
<1>9. IdsAreOwn'
    BY <1>2, <1>3, <1>4, <1>5 DEF IndInv, TypeOK, IdsAreOwn, Paid, stripeVars
<1>10. ProWasPaid'
    BY <1>2, <1>4, <1>5 DEF IndInv, TypeOK, ProWasPaid, Paid, stripeVars
<1>11. SessionsHaveBuyers' /\ EventsArePaid' /\ RequestsHaveEvents'
    BY <1>4, <1>7 DEF IndInv, TypeOK, SessionsHaveBuyers, EventsArePaid, RequestsHaveEvents,
                      Paid, stripeVars
<1>. QED
    BY <1>8, <1>9, <1>10, <1>11 DEF IndInv

LEMMA StepKeeps == IndInv /\ [Next]_vars => IndInv'
<1>. SUFFICES ASSUME IndInv, [Next]_vars PROVE IndInv'
    OBVIOUS
<1>1. ASSUME NEW h \in Handlers, WebhookStep(h) PROVE IndInv'
    BY <1>1, DeliveryKeeps, CommitEventKeeps DEF WebhookStep
<1>2. CASE UNCHANGED vars
    BY <1>2 DEF vars, stripeVars, IndInv, TypeOK, SessionsHaveBuyers, EventsArePaid, IdsAreOwn,
                ProWasPaid, RequestsHaveEvents, Paid
<1>. QED
    BY <1>1, <1>2, CheckoutKeeps, StripeKeeps DEF Next

THEOREM BillingInvariance == Spec => []IndInv
    BY InitHolds, StepKeeps, PTL DEF Spec

-----------------------------------------------------------------------------
(***************************************************************************)
(* What the runs check.                                                    *)
(***************************************************************************)

\* Rows, events and requests are well typed; only emitted events are recorded.
THEOREM BillingTypeCorrect == Spec => []TypeOK
    BY BillingInvariance, PTL DEF IndInv

\* No interleaving, repetition or order of deliveries grants Pro to an account
\* that paid no checkout.
THEOREM ProIsPaid == Spec => []ProWasPaid
    BY BillingInvariance, PTL DEF IndInv

\* An event changes the subscription of its own account, once.
THEOREM IdempotentByEvent == Spec => ChangedOncePerEvent
<1>1. IndInv /\ [Next]_vars =>
        [\A a \in Accounts : subscription'[a] # subscription[a] =>
            \E e \in webhookEvents' \ webhookEvents : AccountOf(e) = a]_vars
    <2>. SUFFICES ASSUME IndInv, Next,
                         NEW a \in Accounts, subscription'[a] # subscription[a]
                  PROVE  \E e \in webhookEvents' \ webhookEvents : AccountOf(e) = a
        BY DEF vars
    <2>1. PICK h \in Handlers : CommitEvent(h)
        BY DEF Next, CreateCheckoutSession, StripeStep, StripeCompletes, StripeUpdates,
               StripeDeletes, StripeNotifies, Emit, WebhookStep, ReceiveEvent,
               SelectSubscription, Abort
    <2>2. request[h].event \in webhookEvents' \ webhookEvents
        BY <2>1 DEF CommitEvent
    <2>3. AccountOf(request[h].event) = a
        BY <2>1 DEF CommitEvent, IndInv, TypeOK
    <2>. QED
        BY <2>2, <2>3
<1>. QED
    BY <1>1, BillingInvariance, PTL DEF Spec, ChangedOncePerEvent

\* Late or repeated deliveries neither forget a customer nor write another's.
THEOREM CustomerIdsStay == Spec => IdsStay
<1>1. IndInv /\ IndInv' /\ [Next]_vars =>
        [\A a \in Accounts :
            /\ subscription[a].customer # None => subscription'[a].customer # None
            /\ \A id \in {subscription'[a].customer, subscription'[a].subscriptionId} \ {None} :
                 buyer[id] = a]_vars
    <2>. SUFFICES ASSUME IndInv, IndInv', Next, NEW a \in Accounts
                  PROVE  /\ subscription[a].customer # None => subscription'[a].customer # None
                         /\ \A id \in {subscription'[a].customer,
                                       subscription'[a].subscriptionId} \ {None} : buyer[id] = a
        BY DEF vars
    <2>1. ASSUME UNCHANGED subscription
          PROVE  /\ subscription[a].customer # None => subscription'[a].customer # None
                 /\ \A id \in {subscription'[a].customer,
                               subscription'[a].subscriptionId} \ {None} : buyer[id] = a
        BY <2>1 DEF IndInv, IdsAreOwn
    <2>2. ASSUME NEW h \in Handlers, CommitEvent(h)
          PROVE  /\ subscription[a].customer # None => subscription'[a].customer # None
                 /\ \A id \in {subscription'[a].customer,
                               subscription'[a].subscriptionId} \ {None} : buyer[id] = a
        <3>1. UNCHANGED buyer
            BY <2>2 DEF CommitEvent, stripeVars
        <3>2. \A id \in {subscription'[a].customer, subscription'[a].subscriptionId} \ {None} :
                 buyer[id] = a
            BY <3>1 DEF IndInv, IdsAreOwn
        <3>. DEFINE e == request[h].event
                    row == Updated(subscription[a], request[h].row, AfterEvent(e, request[h].row))
        <3>3. e \in DOMAIN events /\ request[h].row \in Rows /\ subscription[a] \in Rows
            BY <2>2 DEF IndInv, TypeOK, RequestsHaveEvents, CommitEvent, Requests
        <3>4. subscription[a].customer # None => row.customer # None
            BY <3>3, EventHasAccount, WrittenRow
        <3>5. subscription'[a] = IF a = AccountOf(e) THEN row ELSE subscription[a]
            BY <2>2 DEF CommitEvent, IndInv, TypeOK
        <3>. HIDE DEF row
        <3>. QED
            BY <3>2, <3>4, <3>5
    <2>. QED
        BY <2>1, <2>2
           DEF Next, CreateCheckoutSession, StripeStep, StripeCompletes, StripeUpdates,
               StripeDeletes, StripeNotifies, Emit, WebhookStep, ReceiveEvent,
               SelectSubscription, Abort
<1>. QED
    BY <1>1, BillingInvariance, PTL DEF Spec, IdsStay

-----------------------------------------------------------------------------
(***************************************************************************)
(* The plan, whatever the order of events (BillingHistory).  A request's   *)
(* copy of a row is still the row when it commits, unless another event    *)
(* was committed meanwhile, and then both had selected the row at once.    *)
(***************************************************************************)

HistoryTypes == contested \subseteq Accounts /\ last \in [Accounts -> EventIds \union {0}]

\* Two events that hold a row at once have made their account contested.
OverlapsAreNoted == Overlapping \subseteq contested

\* What a request selected is still the row of an account not contested,
\* unless its event was recorded meanwhile and it can only abort.
RowIsCurrent ==
    \A h \in Handlers :
        LET e == request[h].event IN
        request[h].op = "selected" /\ e \notin webhookEvents /\ AccountOf(e) \notin contested =>
            request[h].row = subscription[AccountOf(e)]

\* The inductive invariant of rows and copies.
PlanInv ==
    /\ IndInv
    /\ HistoryTypes
    /\ OverlapsAreNoted
    /\ RowIsCurrent
    /\ PlanIsConsistent

\* Events are never emitted again, and their account is settled.
LEMMA AccountsAreSettled ==
    ASSUME IndInv, [Next]_vars
    PROVE  /\ DOMAIN events \subseteq DOMAIN events'
           /\ \A e \in DOMAIN events :
                 events'[e] = events[e] /\ AccountOf(e)' = AccountOf(e)
<1>1. /\ DOMAIN events \subseteq DOMAIN events'
      /\ \A e \in DOMAIN events : events'[e] = events[e]
    <2>1. events \in Seq(Events)
        BY DEF IndInv, TypeOK
    <2>2. ASSUME NEW type, NEW s \in Checkouts, NEW status, NEW period,
                 Emit(type, s, status, period)
          PROVE  /\ DOMAIN events \subseteq DOMAIN events'
                 /\ \A e \in DOMAIN events : events'[e] = events[e]
        BY <2>1, <2>2 DEF Emit
    <2>3. CASE UNCHANGED events
        BY <2>3
    <2>. QED
        BY <2>2, <2>3
        DEF Next, vars, stripeVars, CreateCheckoutSession, StripeStep, StripeCompletes,
            StripeUpdates, StripeDeletes, StripeNotifies, WebhookStep, ReceiveEvent,
            SelectSubscription, CommitEvent, Abort
<1>2. \A s \in Checkouts : checkout[s] # "absent" => buyer'[s] = buyer[s]
    BY DEF IndInv, TypeOK, Next, vars, stripeVars, CreateCheckoutSession, StripeStep,
           StripeCompletes, StripeUpdates, StripeDeletes, StripeNotifies, Emit,
           WebhookStep, ReceiveEvent, SelectSubscription, CommitEvent, Abort
<1>3. ASSUME NEW e \in DOMAIN events
      PROVE  AccountOf(e)' = AccountOf(e)
    <2>1. events[e].checkout \in Checkouts /\ checkout[events[e].checkout] # "absent"
        BY EventHasAccount DEF Paid, Events
    <2>. QED
        BY <1>1, <1>2, <2>1 DEF AccountOf
<1>. QED
    BY <1>1, <1>3

\* What a step does to the history.
LEMMA WatchKeeps ==
    ASSUME PlanInv, IndInv', [Next /\ Watch]_watchedVars
    PROVE  HistoryTypes' /\ OverlapsAreNoted' /\ contested \subseteq contested'
<1>1. CASE Watch
    <2>1. contested' = contested \union Overlapping' /\ Overlapping' \subseteq Accounts
        BY <1>1 DEF Watch, Overlapping
    <2>2. webhookEvents' \subseteq EventIds
        BY EventHasAccount, MaxEventsAssumption DEF IndInv, TypeOK, EventIds
    <2>3. \A a \in Accounts :
            (IF \E e \in webhookEvents' \ webhookEvents : AccountOf(e) = a /\ Says(e)
             THEN CHOOSE e \in webhookEvents' \ webhookEvents : AccountOf(e) = a /\ Says(e)
             ELSE last[a]) \in EventIds \union {0}
        BY <2>2 DEF PlanInv, HistoryTypes
    <2>4. last' \in [Accounts -> EventIds \union {0}]
        BY <1>1, <2>3 DEF Watch
    <2>. QED
        BY <2>1, <2>4 DEF PlanInv, HistoryTypes, OverlapsAreNoted
<1>2. CASE UNCHANGED watchedVars
    BY <1>2 DEF watchedVars, vars, stripeVars, PlanInv, HistoryTypes, OverlapsAreNoted,
                Overlapping, HasSelected, AccountOf
<1>. QED
    BY <1>1, <1>2

\* The row a commit writes is the one the event asks for.
LEMMA CommitWrites ==
    ASSUME PlanInv, NEW h \in Handlers, CommitEvent(h),
           AccountOf(request[h].event) \notin contested
    PROVE  LET e == request[h].event
               a == AccountOf(e)
           IN subscription' = [subscription EXCEPT ![a] = AfterEvent(e, subscription[a])]
<1>. DEFINE e == request[h].event
            a == AccountOf(e)
            row == subscription[a]
            wanted == AfterEvent(e, row)
<1>1. e \in DOMAIN events /\ e \notin webhookEvents /\ request[h].op = "selected"
    BY DEF CommitEvent, PlanInv, IndInv, RequestsHaveEvents
<1>2. events[e] \in Events /\ a \in Accounts /\ row \in Rows
    BY <1>1, EventHasAccount DEF PlanInv, IndInv, TypeOK
<1>3. request[h].row = row
    BY <1>1 DEF PlanInv, RowIsCurrent
<1>4. DOMAIN wanted = {"tier", "status", "customer", "subscriptionId"} /\ DOMAIN row = DOMAIN wanted
      /\ wanted = [column \in DOMAIN wanted |-> wanted[column]]
    BY <1>2 DEF AfterEvent, Rows
<1>. HIDE DEF wanted, row
<1>5. Updated(row, row, wanted) = wanted
    BY <1>4 DEF Updated
<1>. QED
    BY <1>3, <1>5 DEF CommitEvent, row, wanted

\* Steps that write no row and serve no delivery.
LEMMA OutsideKeepsPlan ==
    ASSUME PlanInv, [Next]_vars, contested \subseteq contested',
           UNCHANGED <<subscription, webhookEvents, request>>
    PROVE  RowIsCurrent' /\ PlanIsConsistent'
<1>1. RowIsCurrent'
    BY AccountsAreSettled DEF PlanInv, RowIsCurrent, IndInv, RequestsHaveEvents
<1>2. PlanIsConsistent'
    BY DEF PlanInv, PlanIsConsistent
<1>. QED
    BY <1>1, <1>2

\* Steps of a request that write no row.
LEMMA ServingKeepsPlan ==
    ASSUME PlanInv, contested \subseteq contested', NEW h \in Handlers,
           \/ \E e \in DOMAIN events : ReceiveEvent(h, e)
           \/ SelectSubscription(h)
           \/ Abort(h)
    PROVE  RowIsCurrent' /\ PlanIsConsistent'
<1>1. UNCHANGED <<subscription, webhookEvents, stripeVars>>
    BY DEF ReceiveEvent, SelectSubscription, Abort
<1>2. request \in [Handlers -> Requests]
    BY DEF PlanInv, IndInv, TypeOK
<1>3. \A g \in Handlers \ {h} : request'[g] = request[g]
    BY <1>2 DEF ReceiveEvent, SelectSubscription, Abort
<1>4. \A e \in DOMAIN events : AccountOf(e)' = AccountOf(e)
    BY <1>1 DEF AccountOf, stripeVars
<1>5. PlanIsConsistent'
    BY <1>1 DEF PlanInv, PlanIsConsistent
<1>6. ASSUME request'[h].op = "selected"
      PROVE  request'[h].event \in DOMAIN events
             /\ request'[h].row = subscription[AccountOf(request'[h].event)]
    <2>1. SelectSubscription(h)
        <3>1. ASSUME NEW e \in DOMAIN events, ReceiveEvent(h, e)
              PROVE  request'[h].op = "received"
            BY <1>2, <3>1 DEF ReceiveEvent, Idle
        <3>2. Abort(h) => request'[h].op = "idle"
            BY <1>2 DEF Abort, Idle
        <3>. QED
            BY <1>6, <3>1, <3>2
    <2>2. request[h].op # "idle" /\ request[h] \in Requests
        BY <1>2, <2>1 DEF SelectSubscription
    <2>. QED
        BY <1>2, <2>1, <2>2
        DEF SelectSubscription, PlanInv, IndInv, RequestsHaveEvents, Requests
<1>7. RowIsCurrent'
    BY <1>1, <1>3, <1>4, <1>6 DEF PlanInv, RowIsCurrent, IndInv, RequestsHaveEvents
<1>. QED
    BY <1>5, <1>7

LEMMA CommitKeepsPlan ==
    ASSUME PlanInv, contested \subseteq contested', NEW h \in Handlers, CommitEvent(h)
    PROVE  RowIsCurrent' /\ PlanIsConsistent'
<1>. DEFINE e == request[h].event
            a == AccountOf(e)
<1>1. e \in DOMAIN events /\ e \notin webhookEvents /\ request[h].op = "selected"
    BY DEF CommitEvent, PlanInv, IndInv, RequestsHaveEvents
<1>2. events[e] \in Events /\ a \in Accounts /\ subscription[a] \in Rows
    BY <1>1, EventHasAccount DEF PlanInv, IndInv, TypeOK
<1>3. /\ webhookEvents' = webhookEvents \union {e}
      /\ request' = [request EXCEPT ![h] = Idle]
      /\ UNCHANGED stripeVars
      /\ \A b \in Accounts \ {a} : subscription'[b] = subscription[b]
    BY DEF CommitEvent, PlanInv, IndInv, TypeOK
<1>5. /\ request'[h].op = "idle"
      /\ \A g \in Handlers \ {h} : request'[g] = request[g]
    BY <1>3 DEF PlanInv, IndInv, TypeOK, Idle
<1>6. ASSUME NEW g \in Handlers \ {h}, request[g].op = "selected",
             request[g].event \notin webhookEvents', AccountOf(request[g].event) \notin contested'
      PROVE  request[g].event \in DOMAIN events /\ AccountOf(request[g].event) # a
    <2>. DEFINE f == request[g].event
    <2>1. f \in DOMAIN events /\ f # e
        BY <1>3, <1>6 DEF PlanInv, IndInv, RequestsHaveEvents
    <2>2. AccountOf(f) = a => a \in Overlapping
        BY <1>1, <1>2, <1>6, <2>1 DEF Overlapping, HasSelected
    <2>. QED
        BY <1>6, <2>1, <2>2 DEF PlanInv, OverlapsAreNoted
<1>7. RowIsCurrent'
    <2>. SUFFICES ASSUME NEW g \in Handlers, request'[g].op = "selected",
                         request'[g].event \notin webhookEvents',
                         buyer'[events'[request'[g].event].checkout] \notin contested'
                  PROVE  request'[g].row = subscription'[buyer'[events'[request'[g].event].checkout]]
        BY DEF RowIsCurrent, AccountOf
    <2>1. g \in Handlers \ {h} /\ request'[g] = request[g]
        BY <1>5
    <2>2. request[g].event \in DOMAIN events
        BY <2>1 DEF PlanInv, IndInv, RequestsHaveEvents
    <2>3. buyer'[events'[request'[g].event].checkout] = AccountOf(request[g].event)
        BY <1>3, <2>1 DEF AccountOf, stripeVars
    <2>4. AccountOf(request[g].event) # a
        BY <1>6, <2>1, <2>3
    <2>5. request[g].row = subscription[AccountOf(request[g].event)]
        BY <1>3, <2>1, <2>3 DEF PlanInv, RowIsCurrent
    <2>. QED
        BY <1>3, <2>1, <2>2, <2>3, <2>4, <2>5, EventHasAccount DEF PlanInv
<1>8. PlanIsConsistent'
    <2>1. ASSUME a \notin contested
          PROVE  /\ subscription' = [subscription EXCEPT ![a] = AfterEvent(e, subscription[a])]
                 /\ LET row == AfterEvent(e, subscription[a]) IN
                    <<row.tier, row.status>> \in
                        {<<"free", "active">>, <<"pro", "active">>, <<"pro", "past_due">>,
                         <<"free", "canceled">>}
        BY <1>2, <2>1, CommitWrites DEF AfterEvent, PlanOf, PlanInv, PlanIsConsistent, Rows
    <2>. HIDE DEF a, e
    <2>. QED
        BY <1>2, <1>3, <2>1 DEF PlanInv, PlanIsConsistent, IndInv, TypeOK
<1>. QED
    BY <1>7, <1>8

LEMMA PlanInvHolds == WatchedSpec => []PlanInv
<1>1. WatchedInit => PlanInv
    <2>. SUFFICES ASSUME WatchedInit PROVE PlanInv
        OBVIOUS
    <2>1. IndInv
        BY InitHolds DEF WatchedInit
    <2>. QED
        BY <2>1 DEF WatchedInit, PlanInv, HistoryTypes, OverlapsAreNoted, Overlapping, HasSelected,
                    RowIsCurrent, PlanIsConsistent, Init, Idle, FreePlan
<1>2. PlanInv /\ [Next /\ Watch]_watchedVars => PlanInv'
    <2>. SUFFICES ASSUME PlanInv, [Next /\ Watch]_watchedVars PROVE PlanInv'
        OBVIOUS
    <2>1. [Next]_vars
        BY DEF watchedVars
    <2>2. IndInv'
        BY <2>1, StepKeeps DEF PlanInv
    <2>3. HistoryTypes' /\ OverlapsAreNoted' /\ contested \subseteq contested'
        BY <2>2, WatchKeeps
    <2>4. ASSUME NEW h \in Handlers, WebhookStep(h) PROVE RowIsCurrent' /\ PlanIsConsistent'
        BY <2>3, <2>4, ServingKeepsPlan, CommitKeepsPlan DEF WebhookStep
    <2>5. CASE ~ \E h \in Handlers : WebhookStep(h)
        <3>1. UNCHANGED <<subscription, webhookEvents, request>>
            BY <2>1, <2>5 DEF Next, vars, CreateCheckoutSession, StripeStep, StripeCompletes,
                              StripeUpdates, StripeDeletes, StripeNotifies, Emit
        <3>. QED
            BY <2>1, <2>2, <2>3, <3>1, OutsideKeepsPlan DEF PlanInv
    <2>. QED
        BY <2>2, <2>3, <2>4, <2>5 DEF PlanInv
<1>. QED
    BY <1>1, <1>2, PTL DEF WatchedSpec

\* Pro is active or past due and canceled is free, in whatever order and
\* however often events are delivered, unless two of them overlapped.
THEOREM PlansAreConsistent == WatchedSpec => []PlanIsConsistent
    BY PlanInvHolds, PTL DEF PlanInv
-----------------------------------------------------------------------------
(***************************************************************************)
(* The mirror.  The last event of a checkout that says anything says what  *)
(* Stripe holds, and the row of an account not contested follows the last  *)
(* such event recorded for it.                                             *)
(***************************************************************************)

\* The plan an event asks for
PlanAfter(e) ==
    CASE events[e].type = "completed" -> PlanOf("active")
      [] events[e].type = "updated"   -> PlanOf(events[e].status)
      [] OTHER                        -> PlanOf("deleted")

\* Once an account's checkout completed it has both ids for ever.
CompletedGivesIds ==
    \A e \in webhookEvents :
        events[e].type = "completed" /\ AccountOf(e) \notin contested =>
            /\ subscription[AccountOf(e)].customer # None
            /\ subscription[AccountOf(e)].subscriptionId # None

\* The last event of a checkout that says something of the plan says what
\* Stripe holds.
LastEventSays ==
    \A s \in Checkouts :
        Paid(s) => \E e \in DOMAIN events :
            /\ events[e].checkout = s /\ Says(e)
            /\ PlanAfter(e) = PlanOf(checkout[s])
            /\ \A d \in DOMAIN events : d > e /\ events[d].checkout = s => ~Says(d)

\* The last event of an account was recorded and says something.
LastIsRecorded ==
    \A a \in Accounts : last[a] # 0 =>
        last[a] \in webhookEvents /\ AccountOf(last[a]) = a /\ Says(last[a])

\* A row shows what the last event recorded for its account said.
RowFollows ==
    \A a \in Accounts \ contested : last[a] # 0 =>
        /\ subscription[a].tier = PlanAfter(last[a]).tier
        /\ subscription[a].status = PlanAfter(last[a]).status

\* The inductive invariant of the mirror.
MirrorInv ==
    /\ PlanInv
    /\ CompletedGivesIds
    /\ LastEventSays
    /\ LastIsRecorded
    /\ RowFollows

\* What the events recorded so far say of the rows, when neither changes.
LEMMA RecordedKeeps ==
    ASSUME MirrorInv, PlanInv', [Next]_vars, contested \subseteq contested',
           [Next /\ Watch]_watchedVars, UNCHANGED <<subscription, webhookEvents>>
    PROVE  CompletedGivesIds' /\ LastIsRecorded' /\ RowFollows'
<1>1. \A e \in webhookEvents :
          /\ e \in DOMAIN events
          /\ events'[e] = events[e]
          /\ buyer'[events'[e].checkout] = buyer[events[e].checkout]
    BY AccountsAreSettled DEF MirrorInv, PlanInv, IndInv, TypeOK, AccountOf
<1>2. CompletedGivesIds'
    BY <1>1 DEF MirrorInv, CompletedGivesIds, AccountOf
<1>3. last' = last
    <2>1. ASSUME Watch
          PROVE  last' = [a \in Accounts |-> last[a]]
        BY <2>1 DEF Watch
    <2>. QED
        BY <2>1 DEF watchedVars, MirrorInv, PlanInv, HistoryTypes
<1>4. LastIsRecorded'
    BY <1>1, <1>3 DEF MirrorInv, LastIsRecorded, AccountOf, Says
<1>5. RowFollows'
    BY <1>1, <1>3 DEF MirrorInv, LastIsRecorded, RowFollows, AccountOf, Says, PlanAfter
<1>. QED
    BY <1>2, <1>4, <1>5

\* What Stripe's events say of the checkouts, when no checkout is paid or changed.
LEMMA StripeSaysKeeps ==
    ASSUME MirrorInv, UNCHANGED events,
           \A s \in Checkouts : checkout'[s] = checkout[s] \/ checkout'[s] \in {"absent", "open"}
    PROVE  LastEventSays'
    BY DEF MirrorInv, LastEventSays, Paid, Says, PlanAfter

LEMMA StripeSays ==
    ASSUME MirrorInv, StripeStep
    PROVE  LastEventSays'
<1>1. PICK s \in Checkouts : \/ StripeCompletes(s)
                             \/ \E status \in StripeStatuses, period \in BOOLEAN :
                                    StripeUpdates(s, status, period)
                             \/ StripeDeletes(s)
                             \/ StripeNotifies(s)
    BY DEF StripeStep
<1>. PICK n : n = Len(events) + 1
    OBVIOUS
<1>2. events \in Seq(Events) /\ checkout \in [Checkouts ->
          {"absent", "open", "deleted"} \union StripeStatuses]
    BY DEF MirrorInv, PlanInv, IndInv, TypeOK
<1>3. PICK type, status, period : Emit(type, s, status, period)
    BY <1>1 DEF StripeCompletes, StripeUpdates, StripeDeletes, StripeNotifies
<1>4. /\ DOMAIN events' = DOMAIN events \union {n} /\ n \notin DOMAIN events
      /\ \A e \in DOMAIN events : events'[e] = events[e] /\ e < n
      /\ events'[n] = [type |-> type, checkout |-> s, status |-> status, period |-> period]
    BY <1>2, <1>3 DEF Emit
<1>5. \A t \in Checkouts \ {s} : checkout'[t] = checkout[t]
    BY <1>1, <1>2 DEF StripeCompletes, StripeUpdates, StripeDeletes, StripeNotifies
<1>6. CASE StripeNotifies(s)
    <2>1. UNCHANGED checkout /\ Paid(s) /\ events'[n].type = "other"
        BY <1>2, <1>6 DEF StripeNotifies, Emit, Paid, StripeStatuses
    <2>2. ASSUME NEW t \in Checkouts, Paid(t)
          PROVE  \E e \in DOMAIN events' :
                    /\ events'[e].checkout = t /\ Says(e)'
                    /\ PlanAfter(e)' = PlanOf(checkout'[t])
                    /\ \A d \in DOMAIN events' : d > e /\ events'[d].checkout = t => ~Says(d)'
        <3>1. PICK e \in DOMAIN events :
                    /\ events[e].checkout = t /\ Says(e)
                    /\ PlanAfter(e) = PlanOf(checkout[t])
                    /\ \A d \in DOMAIN events : d > e /\ events[d].checkout = t => ~Says(d)
            BY <2>2 DEF MirrorInv, LastEventSays
        <3>. QED
            BY <1>4, <2>1, <3>1 DEF Says, PlanAfter
    <2>. QED
        BY <2>1, <2>2 DEF LastEventSays, Paid
<1>7. CASE ~ StripeNotifies(s)
    <2>1. /\ events'[n].checkout = s /\ events'[n].type \in {"completed", "updated", "deleted"}
          /\ checkout'[s] = IF events'[n].type = "deleted" THEN "deleted" ELSE events'[n].status
          /\ events'[n].type = "completed" => events'[n].status = "active"
        <3>1. CASE StripeCompletes(s)
            BY <1>2, <3>1 DEF StripeCompletes, Emit
        <3>2. ASSUME NEW newStatus \in StripeStatuses, NEW newPeriod \in BOOLEAN,
                     StripeUpdates(s, newStatus, newPeriod)
              PROVE  /\ events'[n].checkout = s /\ events'[n].type = "updated"
                     /\ checkout'[s] = events'[n].status
            BY <1>2, <3>2 DEF StripeUpdates, Emit
        <3>3. CASE StripeDeletes(s)
            BY <1>2, <3>3 DEF StripeDeletes, Emit
        <3>. QED
            BY <1>1, <1>7, <3>1, <3>2, <3>3
    <2>2. Says(n)' /\ PlanAfter(n)' = PlanOf(checkout'[s])
        BY <2>1 DEF Says, PlanAfter
    <2>3. \A d \in DOMAIN events' : d <= n
        BY <1>2, <1>4
    <2>4. ASSUME NEW t \in Checkouts \ {s}, Paid(t)
          PROVE  \E e \in DOMAIN events' :
                    /\ events'[e].checkout = t /\ Says(e)'
                    /\ PlanAfter(e)' = PlanOf(checkout'[t])
                    /\ \A d \in DOMAIN events' : d > e /\ events'[d].checkout = t => ~Says(d)'
        <3>1. PICK e \in DOMAIN events :
                    /\ events[e].checkout = t /\ Says(e)
                    /\ PlanAfter(e) = PlanOf(checkout[t])
                    /\ \A d \in DOMAIN events : d > e /\ events[d].checkout = t => ~Says(d)
            BY <2>4 DEF MirrorInv, LastEventSays
        <3>. QED
            BY <1>4, <1>5, <2>1, <3>1 DEF Says, PlanAfter
    <2>5. \E e \in DOMAIN events' :
                /\ events'[e].checkout = s /\ Says(e)'
                /\ PlanAfter(e)' = PlanOf(checkout'[s])
                /\ \A d \in DOMAIN events' : d > e /\ events'[d].checkout = s => ~Says(d)'
        BY <1>2, <1>4, <2>1, <2>2, <2>3
    <2>. QED
        BY <1>5, <2>4, <2>5 DEF LastEventSays, Paid
<1>. QED
    BY <1>6, <1>7

LEMMA CommitKeepsMirror ==
    ASSUME MirrorInv, PlanInv', contested \subseteq contested', Watch,
           NEW h \in Handlers, CommitEvent(h)
    PROVE  CompletedGivesIds' /\ LastIsRecorded' /\ RowFollows'
<1>. DEFINE e == request[h].event
            a == AccountOf(e)
            row == subscription[a]
<1>1. e \in DOMAIN events /\ e \notin webhookEvents /\ request[h].op = "selected"
    BY DEF CommitEvent, MirrorInv, PlanInv, IndInv, RequestsHaveEvents
<1>2. events[e] \in Events /\ a \in Accounts /\ row \in Rows /\ e # 0
    BY <1>1, EventHasAccount DEF MirrorInv, PlanInv, IndInv, TypeOK, EventIds
<1>3. /\ webhookEvents' = webhookEvents \union {e}
      /\ events' = events /\ buyer' = buyer
      /\ \A b \in Accounts \ {a} : subscription'[b] = subscription[b]
    BY DEF CommitEvent, stripeVars, MirrorInv, PlanInv, IndInv, TypeOK
<1>4. a \notin contested => subscription'[a] = AfterEvent(e, row)
    BY <1>2, CommitWrites DEF MirrorInv, PlanInv, IndInv, TypeOK
<1>5. /\ AfterEvent(e, row).customer # None \/ row.customer = None
      /\ AfterEvent(e, row).subscriptionId # None \/ row.subscriptionId = None
      /\ events[e].type = "completed" => /\ AfterEvent(e, row).customer # None
                                         /\ AfterEvent(e, row).subscriptionId # None
      /\ IF Says(e) THEN /\ AfterEvent(e, row).tier = PlanAfter(e).tier
                         /\ AfterEvent(e, row).status = PlanAfter(e).status
                    ELSE AfterEvent(e, row) = row
    <2>1. events[e].checkout # None
        BY <1>2, NoneAssumption DEF Events
    <2>. QED
        BY <1>2, <2>1 DEF AfterEvent, Says, PlanAfter, PlanOf, Rows, Events
<1>6. \A d \in webhookEvents : d \in DOMAIN events /\ AccountOf(d) \in Accounts
    BY EventHasAccount DEF MirrorInv, PlanInv, IndInv, TypeOK
<1>7. \A b \in Accounts : last'[b] = IF b = a /\ Says(e) THEN e ELSE last[b]
    <2>. HIDE DEF e, a
    <2>1. webhookEvents' \ webhookEvents = {e}
        BY <1>1, <1>3
    <2>2. ASSUME NEW b \in Accounts
          PROVE  last'[b] = IF \E d \in {e} : AccountOf(d) = b /\ Says(d)
                            THEN CHOOSE d \in {e} : AccountOf(d) = b /\ Says(d)
                            ELSE last[b]
        BY <2>1 DEF Watch
    <2>. QED
        BY <2>2 DEF a
<1>. HIDE DEF e, a, row
<1>8. CompletedGivesIds'
    <2>. SUFFICES ASSUME NEW d \in webhookEvents', events[d].type = "completed",
                         AccountOf(d) \notin contested'
                  PROVE  /\ subscription'[AccountOf(d)].customer # None
                         /\ subscription'[AccountOf(d)].subscriptionId # None
        BY <1>3 DEF CompletedGivesIds, AccountOf
    <2>1. CASE d = e
        BY <1>4, <1>5, <2>1 DEF a
    <2>2. CASE d # e
        <3>1. d \in webhookEvents
            BY <1>3, <2>2
        <3>2. /\ subscription[AccountOf(d)].customer # None
              /\ subscription[AccountOf(d)].subscriptionId # None
            BY <3>1 DEF MirrorInv, CompletedGivesIds
        <3>. QED
            BY <1>3, <1>4, <1>5, <1>6, <3>1, <3>2 DEF row
    <2>. QED
        BY <2>1, <2>2
<1>9. LastIsRecorded'
    BY <1>2, <1>3, <1>7 DEF MirrorInv, LastIsRecorded, AccountOf, Says, a
<1>10. RowFollows'
    <2>. SUFFICES ASSUME NEW b \in Accounts \ contested, last'[b] # 0
                  PROVE  /\ subscription'[b].tier = PlanAfter(last'[b]).tier
                         /\ subscription'[b].status = PlanAfter(last'[b]).status
        BY <1>3 DEF RowFollows, PlanAfter
    <2>1. CASE b = a /\ Says(e)
        BY <1>4, <1>5, <1>7, <2>1
    <2>2. CASE ~ (b = a /\ Says(e))
        <3>1. last'[b] = last[b]
            BY <1>7, <2>2
        <3>2. subscription'[b] = subscription[b]
            BY <1>3, <1>4, <1>5, <2>2 DEF row
        <3>. QED
            BY <3>1, <3>2 DEF MirrorInv, RowFollows
    <2>. QED
        BY <2>1, <2>2
<1>. QED
    BY <1>8, <1>9, <1>10

LEMMA MirrorInvHolds == WatchedSpec => []MirrorInv
<1>1. WatchedInit => CompletedGivesIds /\ LastEventSays /\ LastIsRecorded /\ RowFollows
    BY DEF WatchedInit, Init, CompletedGivesIds, LastEventSays, LastIsRecorded, RowFollows, Paid
<1>2. ASSUME MirrorInv, PlanInv', [Next /\ Watch]_watchedVars
      PROVE  MirrorInv'
    <2>1. [Next]_vars /\ contested \subseteq contested'
        BY <1>2, WatchKeeps DEF watchedVars, MirrorInv, PlanInv
    <2>2. LastEventSays'
        <3>1. CASE StripeStep
            BY <1>2, <3>1, StripeSays
        <3>2. CASE ~ StripeStep
            <4>1. UNCHANGED events
                BY <2>1, <3>2 DEF Next, vars, stripeVars, CreateCheckoutSession, WebhookStep,
                                  ReceiveEvent, SelectSubscription, CommitEvent, Abort
            <4>2. ASSUME NEW a \in Accounts, NEW t \in Checkouts, CreateCheckoutSession(a, t),
                         NEW s \in Checkouts
                  PROVE  checkout'[s] = checkout[s] \/ checkout'[s] \in {"absent", "open"}
                BY <1>2, <4>2 DEF CreateCheckoutSession, MirrorInv, PlanInv, IndInv, TypeOK
            <4>3. \A s \in Checkouts :
                     checkout'[s] = checkout[s] \/ checkout'[s] \in {"absent", "open"}
                BY <2>1, <3>2, <4>2 DEF Next, vars, stripeVars, WebhookStep, ReceiveEvent,
                                        SelectSubscription, CommitEvent, Abort
            <4>. QED
                BY <1>2, <4>1, <4>3, StripeSaysKeeps
        <3>. QED
            BY <3>1, <3>2
    <2>3. CompletedGivesIds' /\ LastIsRecorded' /\ RowFollows'
        <3>1. ASSUME NEW h \in Handlers, CommitEvent(h), Watch
              PROVE  CompletedGivesIds' /\ LastIsRecorded' /\ RowFollows'
            BY <1>2, <2>1, <3>1, CommitKeepsMirror
        <3>2. ASSUME NEW h \in Handlers, CommitEvent(h), UNCHANGED watchedVars
              PROVE  FALSE
            BY <3>2 DEF CommitEvent, watchedVars, vars
        <3>3. CASE ~ \E h \in Handlers : CommitEvent(h)
            <4>1. UNCHANGED <<subscription, webhookEvents>>
                BY <2>1, <3>3 DEF Next, vars, CreateCheckoutSession, StripeStep, StripeCompletes,
                                  StripeUpdates, StripeDeletes, StripeNotifies, Emit,
                                  WebhookStep, ReceiveEvent, SelectSubscription, Abort
            <4>. QED
                BY <1>2, <2>1, <4>1, RecordedKeeps
        <3>. QED
            BY <1>2, <3>1, <3>2, <3>3
    <2>. QED
        BY <1>2, <2>2, <2>3 DEF MirrorInv
<1>3. PlanInv /\ CompletedGivesIds /\ LastEventSays /\ LastIsRecorded /\ RowFollows <=> MirrorInv
    BY DEF MirrorInv
<1>. QED
    BY <1>1, <1>2, <1>3, PlanInvHolds, PTL DEF WatchedSpec

\* An account that paid one checkout has the plan its Stripe subscription says
\* once the newest event was the last recorded, in whatever order the others
\* were, and the ids of that subscription once the completed event was.
THEOREM PlanMirrorsStripe == WatchedSpec => []MirrorsStripe
<1>1. ASSUME MirrorInv PROVE MirrorsStripe
    <2>. SUFFICES ASSUME NEW s \in Checkouts, Paid(s),
                         \A t \in Checkouts \ {s} : buyer[t] = buyer[s] => ~Paid(t),
                         buyer[s] \notin contested,
                         last[buyer[s]] # 0, Newest(last[buyer[s]])
                  PROVE  LET paying == checkout[s] \in {"active", "past_due"}
                             row == subscription[buyer[s]]
                         IN  /\ row.tier = IF paying THEN "pro" ELSE "free"
                             /\ row.status = IF paying THEN checkout[s] ELSE "canceled"
                             /\ (\E e \in webhookEvents :
                                    AccountOf(e) = buyer[s] /\ events[e].type = "completed") =>
                                   row.customer = s /\ row.subscriptionId = s
        BY DEF MirrorsStripe, Paid
    <2>. DEFINE a == buyer[s]
    <2>1. a \in Accounts /\ subscription[a] \in Rows
        BY <1>1 DEF MirrorInv, PlanInv, IndInv, TypeOK, SessionsHaveBuyers, Paid
    <2>2. \A d \in DOMAIN events : AccountOf(d) = a => events[d].checkout = s
        BY <1>1, EventHasAccount DEF MirrorInv, PlanInv, AccountOf, Events
    <2>3. PICK e \in DOMAIN events :
                /\ events[e].checkout = s /\ Says(e)
                /\ PlanAfter(e) = PlanOf(checkout[s])
                /\ \A d \in DOMAIN events : d > e /\ events[d].checkout = s => ~Says(d)
        BY <1>1 DEF MirrorInv, LastEventSays
    <2>4. /\ last[a] \in DOMAIN events /\ AccountOf(last[a]) = a /\ Says(last[a])
          /\ AccountOf(e) = a
        BY <1>1, <2>1, <2>3 DEF AccountOf, MirrorInv, LastIsRecorded, PlanInv, IndInv, TypeOK
    <2>5. last[a] = e
        <3>1. e <= last[a]
            BY <2>3, <2>4 DEF Newest
        <3>2. ~ (last[a] > e)
            BY <2>2, <2>3, <2>4
        <3>3. e \in Nat /\ last[a] \in Nat
            BY <1>1, <2>3, <2>4 DEF MirrorInv, PlanInv, IndInv, TypeOK
        <3>. QED
            BY <3>1, <3>2, <3>3
    <2>6. /\ subscription[a].tier = PlanOf(checkout[s]).tier
          /\ subscription[a].status = PlanOf(checkout[s]).status
        BY <1>1, <2>1, <2>3, <2>5 DEF MirrorInv, RowFollows
    <2>7. checkout[s] \in {"active", "past_due", "unpaid", "deleted"}
        BY <1>1 DEF MirrorInv, PlanInv, IndInv, TypeOK, Paid, StripeStatuses
    <2>8. ASSUME NEW d \in webhookEvents, AccountOf(d) = a, events[d].type = "completed"
          PROVE  subscription[a].customer = s /\ subscription[a].subscriptionId = s
        <3>1. subscription[a].customer # None /\ subscription[a].subscriptionId # None
            BY <1>1, <2>8 DEF MirrorInv, CompletedGivesIds
        <3>2. \A id \in {subscription[a].customer, subscription[a].subscriptionId} :
                    id \in Checkouts /\ Paid(id) /\ buyer[id] = a
            BY <1>1, <2>1, <3>1 DEF MirrorInv, PlanInv, IndInv, IdsAreOwn, Rows, Ids
        <3>. QED
            BY <3>2
    <2>. QED
        BY <2>6, <2>7, <2>8 DEF PlanOf
<1>. QED
    BY <1>1, MirrorInvHolds, PTL
=============================================================================
