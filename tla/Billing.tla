------------------------------- MODULE Billing -------------------------------
(***************************************************************************)
(* The subscription of an account follows Stripe.  The user opens checkout *)
(* sessions; Stripe (external) turns a paid one into a subscription of its *)
(* own customer and emits events, each delivered until the webhook answers *)
(* 200, perhaps several times, at the same time and in any order.          *)
(*                                                                         *)
(* A webhook request is one transaction: it looks the event up in          *)
(* webhook_events, SELECTs the subscription row without a lock, and writes *)
(* back the columns it changes (OrmUpdate), with the event's own row, in   *)
(* one commit.                                                             *)
(***************************************************************************)
EXTENDS Naturals, Sequences, OrmUpdate

CONSTANTS
    Accounts,       \* ids of accounts, each with its subscriptions row
    Checkouts,      \* checkout sessions; a paid one gives the Stripe customer
                    \* and the Stripe subscription of the same name
    Handlers,       \* webhook requests served at the same time
    None,
    MaxEvents       \* bound: events Stripe emits

ASSUME NoneAssumption == None \notin Checkouts \union Accounts
ASSUME MaxEventsAssumption == MaxEvents \in Nat

VARIABLES
    subscription,   \* rows of subscriptions
    webhookEvents,  \* event ids recorded in webhook_events
    checkout,       \* what Stripe holds for a checkout session
    buyer,          \* metadata.account_id of a checkout session
    events,         \* what Stripe emitted; an event's id is its index
    request         \* what each handler is serving

stripeVars == <<checkout, buyer, events>>
vars == <<subscription, webhookEvents, stripeVars, request>>

Tiers == {"free", "pro"}
PlanStatuses == {"active", "past_due", "canceled"}
StripeStatuses == {"active", "past_due", "unpaid"}
Ids == Checkouts \union {None}

Rows == [tier : Tiers, status : PlanStatuses, customer : Ids, subscriptionId : Ids]

FreePlan == [tier |-> "free", status |-> "active", customer |-> None, subscriptionId |-> None]

Events == [type : {"completed", "updated", "deleted", "other"},
           checkout : Checkouts, status : StripeStatuses,
           period : BOOLEAN]    \* does it carry current_period_end?

EventIds == 1..MaxEvents

Requests == [op : {"idle", "received", "selected"}, event : EventIds \union {0}, row : Rows]

Idle == [op |-> "idle", event |-> 0, row |-> FreePlan]

TypeOK ==
    /\ subscription \in [Accounts -> Rows]
    /\ webhookEvents \subseteq DOMAIN events
    /\ checkout \in [Checkouts -> {"absent", "open", "deleted"} \union StripeStatuses]
    /\ buyer \in [Checkouts -> Accounts \union {None}]
    /\ events \in Seq(Events) /\ Len(events) <= MaxEvents
    /\ request \in [Handlers -> Requests]

Init ==
    /\ subscription = [a \in Accounts |-> FreePlan]
    /\ webhookEvents = {}
    /\ checkout = [s \in Checkouts |-> "absent"]
    /\ buyer = [s \in Checkouts |-> None]
    /\ events = <<>>
    /\ request = [h \in Handlers |-> Idle]

-----------------------------------------------------------------------------
(***************************************************************************)
(* The user and Stripe.                                                    *)
(***************************************************************************)

\* CreateCheckoutSession: refused to an account that is not on the free tier
CreateCheckoutSession(a, s) ==
    /\ checkout[s] = "absent"
    /\ subscription[a].tier = "free"
    /\ checkout' = [checkout EXCEPT ![s] = "open"]
    /\ buyer' = [buyer EXCEPT ![s] = a]
    /\ UNCHANGED <<subscription, webhookEvents, events, request>>

Emit(type, s, status, period) ==
    /\ Len(events) < MaxEvents
    /\ events' = Append(events,
         [type |-> type, checkout |-> s, status |-> status, period |-> period])
    /\ UNCHANGED <<subscription, webhookEvents, buyer, request>>

StripeCompletes(s) ==
    /\ checkout[s] = "open"
    /\ checkout' = [checkout EXCEPT ![s] = "active"]
    /\ Emit("completed", s, "active", FALSE)

\* Only in older versions of Stripe's API the subscription has the period
StripeUpdates(s, status, period) ==
    /\ checkout[s] \in StripeStatuses
    /\ checkout' = [checkout EXCEPT ![s] = status]
    /\ Emit("updated", s, status, period)

StripeDeletes(s) ==
    /\ checkout[s] \in StripeStatuses
    /\ checkout' = [checkout EXCEPT ![s] = "deleted"]
    /\ Emit("deleted", s, "active", FALSE)

\* An event of a type the webhook only acknowledges
StripeNotifies(s) ==
    /\ checkout[s] \in StripeStatuses
    /\ UNCHANGED checkout
    /\ Emit("other", s, checkout[s], FALSE)

-----------------------------------------------------------------------------
(***************************************************************************)
(* ProcessStripeWebhook.                                                   *)
(***************************************************************************)

AccountOf(e) == buyer[events[e].checkout]

ReceiveEventByType(h, e) ==
    /\ request[h].op = "idle"
    /\ \A d \in webhookEvents : events[d].type # events[e].type
    /\ request' = [request EXCEPT ![h] = [Idle EXCEPT !.op = "received", !.event = e]]
    /\ UNCHANGED <<subscription, webhookEvents, stripeVars>>

\* A delivery of an event that exists() does not find (one that it finds is
\* answered 200 with nothing done)
ReceiveEvent(h, e) ==
    /\ request[h].op = "idle"
    /\ e \notin webhookEvents
    /\ request' = [request EXCEPT ![h] = [Idle EXCEPT !.op = "received", !.event = e]]
    /\ UNCHANGED <<subscription, webhookEvents, stripeVars>>

\* update_from_stripe_event: the SELECT of the account's row
SelectSubscription(h) ==
    /\ request[h].op = "received"
    /\ request' = [request EXCEPT ![h].op = "selected",
                                  ![h].row = subscription[AccountOf(request[h].event)]]
    /\ UNCHANGED <<subscription, webhookEvents, stripeVars>>

PlanOfUnpaidKept(status) ==
    CASE status = "active"   -> [tier |-> "pro", status |-> "active"]
      [] status = "past_due" -> [tier |-> "pro", status |-> "past_due"]
      [] OTHER               -> [tier |-> "pro", status |-> "canceled"]

PlanOfPastDueCanceled(status) ==
    CASE status = "active" -> [tier |-> "pro", status |-> "active"]
      [] OTHER             -> [tier |-> "free", status |-> "canceled"]

\* Stripe's status as tier and status ("trialing" is as "active")
PlanOf(status) ==
    CASE status = "active"   -> [tier |-> "pro", status |-> "active"]
      [] status = "past_due" -> [tier |-> "pro", status |-> "past_due"]
      [] OTHER               -> [tier |-> "free", status |-> "canceled"]

AfterEventForgettingCustomer(e, row) ==
    LET event == events[e] IN
    CASE event.type = "completed" ->
           [tier |-> "pro", status |-> "active",
            customer |-> event.checkout, subscriptionId |-> event.checkout]
      [] event.type = "updated" ->
           [tier |-> PlanOf(event.status).tier, status |-> PlanOf(event.status).status,
            customer |-> None, subscriptionId |-> event.checkout]
      [] event.type = "deleted" -> [row EXCEPT !.tier = "free", !.status = "canceled"]
      [] OTHER -> row

\* The row an event asks for; an id the event does not carry stays.  The column
\* current_period_end, which no event gets to write (Writable), is left out.
AfterEvent(e, row) ==
    LET event == events[e] IN
    CASE event.type = "completed" ->
           [tier |-> "pro", status |-> "active",
            customer |-> event.checkout, subscriptionId |-> event.checkout]
      [] event.type = "updated" ->
           [row EXCEPT !.tier = PlanOf(event.status).tier,
                       !.status = PlanOf(event.status).status,
                       !.subscriptionId = event.checkout]
      [] event.type = "deleted" -> [row EXCEPT !.tier = "free", !.status = "canceled"]
      [] OTHER -> row

\* The time of current_period_end is aware of its zone, and the model declares
\* the column without one: the driver refuses the UPDATE that carries it.
Writable(e) == ~ events[e].period

CommitEventTwice(h) ==
    LET e == request[h].event
        a == AccountOf(e)
    IN
    /\ request[h].op = "selected"
    /\ Writable(e)
    /\ webhookEvents' = webhookEvents \union {e}
    /\ subscription' = [subscription EXCEPT ![a] =
         Updated(@, request[h].row, AfterEvent(e, request[h].row))]
    /\ request' = [request EXCEPT ![h] = Idle]
    /\ UNCHANGED stripeVars

CommitEventForAll(h) ==
    LET e == request[h].event
        a == AccountOf(e)
    IN
    /\ request[h].op = "selected"
    /\ Writable(e)
    /\ e \notin webhookEvents
    /\ subscription' = [b \in Accounts |->
         Updated(subscription[b], request[h].row, AfterEvent(e, request[h].row))]
    /\ webhookEvents' = webhookEvents \union {e}
    /\ request' = [request EXCEPT ![h] = Idle]
    /\ UNCHANGED stripeVars

\* Write the row and record the event.  event_id is UNIQUE: an event recorded
\* meanwhile, or one that is not writable, leaves the request nothing but to Abort.
CommitEvent(h) ==
    LET e == request[h].event
        a == AccountOf(e)
    IN
    /\ request[h].op = "selected"
    /\ Writable(e)
    /\ e \notin webhookEvents
    /\ subscription' = [subscription EXCEPT ![a] =
         Updated(@, request[h].row, AfterEvent(e, request[h].row))]
    /\ webhookEvents' = webhookEvents \union {e}
    /\ request' = [request EXCEPT ![h] = Idle]
    /\ UNCHANGED stripeVars

\* A request that fails before its commit answers 500 and changes nothing
Abort(h) ==
    /\ request[h].op # "idle"
    /\ request' = [request EXCEPT ![h] = Idle]
    /\ UNCHANGED <<subscription, webhookEvents, stripeVars>>

StripeStep ==
    \E s \in Checkouts :
        \/ StripeCompletes(s)
        \/ \E status \in StripeStatuses, period \in BOOLEAN : StripeUpdates(s, status, period)
        \/ StripeDeletes(s)
        \/ StripeNotifies(s)

WebhookStep(h) ==
    \/ \E e \in DOMAIN events : ReceiveEvent(h, e)
    \/ SelectSubscription(h)
    \/ CommitEvent(h)
    \/ Abort(h)

Next ==
    \/ \E a \in Accounts, s \in Checkouts : CreateCheckoutSession(a, s)
    \/ StripeStep
    \/ \E h \in Handlers : WebhookStep(h)

Spec == Init /\ [][Next]_vars

\* A request ends; Stripe delivers an event again until it is answered 200,
\* and the database does not fail every one of its deliveries
Fairness ==
    /\ \A h \in Handlers : WF_vars(SelectSubscription(h) \/ CommitEvent(h) \/ Abort(h))
    /\ \A e \in EventIds :
         /\ SF_vars(\E h \in Handlers : e \in DOMAIN events /\ ReceiveEvent(h, e))
         /\ SF_vars(\E h \in Handlers : request[h].event = e /\ SelectSubscription(h))
         /\ SF_vars(\E h \in Handlers : request[h].event = e /\ CommitEvent(h))

FairSpec == Spec /\ Fairness

-----------------------------------------------------------------------------
(***************************************************************************)
(* Safety, with concurrent, repeated and reordered deliveries.             *)
(***************************************************************************)

\* "Idempotency is enforced by the webhook_events.event_id UNIQUE constraint"
\* (process_stripe_webhook.py): a subscription changes only in the commit
\* that records an event of its account, so never twice for an event.
ChangedOncePerEvent ==
    [][\A a \in Accounts : subscription'[a] # subscription[a] =>
          \E e \in webhookEvents' \ webhookEvents : AccountOf(e) = a]_vars

\* The Pro tier is never granted to an account none of whose checkouts was
\* paid, and never to the account of somebody else's checkout.
ProWasPaid ==
    \A a \in Accounts : subscription[a].tier = "pro" =>
        \E s \in Checkouts : buyer[s] = a /\ checkout[s] \notin {"absent", "open"}

\* The Stripe ids the billing portal uses are the buyer's own, and once an
\* account has a customer no event, however late, takes it away.
IdsStay ==
    [][\A a \in Accounts :
          /\ subscription[a].customer # None => subscription'[a].customer # None
          /\ \A id \in {subscription'[a].customer, subscription'[a].subscriptionId} \ {None} :
               buyer[id] = a]_vars

-----------------------------------------------------------------------------
(***************************************************************************)
(* Liveness.                                                               *)
(***************************************************************************)

\* Every event that can be written is processed, whatever fails on the way,
\* however often it is delivered and whatever else is served meanwhile.
EventsProcessed ==
    \A e \in EventIds : e \in DOMAIN events /\ Writable(e) ~> e \in webhookEvents

\* "Map Stripe status to our internal status + tier" (process_stripe_webhook.py):
\* what an update says is processed in the end.
UpdatesAreProcessed ==
    \A e \in EventIds :
        e \in DOMAIN events /\ events[e].type = "updated" ~> e \in webhookEvents

=============================================================================
