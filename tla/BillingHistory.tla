---------------------------- MODULE BillingHistory ----------------------------
(***************************************************************************)
(* Billing with two history variables, to say what a subscription shows    *)
(* when events come in any order and requests overlap: which accounts had  *)
(* two requests with a copy of their row at once, and which event was the  *)
(* last to be recorded.  They change with the steps of Billing and no step *)
(* reads them.                                                             *)
(***************************************************************************)
EXTENDS Billing

VARIABLES
    contested,  \* accounts whose row two events had selected at one time
    last        \* for each account, the last recorded event that says anything

watchedVars == <<vars, contested, last>>

\* An event of a type the webhook only acknowledges says nothing of the plan
Says(e) == events[e].type # "other"

HasSelected(h, a) == request[h].op = "selected" /\ AccountOf(request[h].event) = a

\* The accounts whose row requests for two different events hold
Overlapping ==
    {a \in Accounts : \E g, h \in Handlers :
        /\ HasSelected(g, a) /\ HasSelected(h, a)
        /\ request[g].event # request[h].event}

Watch ==
    /\ contested' = contested \union Overlapping'
    /\ last' = [a \in Accounts |->
         IF \E e \in webhookEvents' \ webhookEvents : AccountOf(e) = a /\ Says(e)
         THEN CHOOSE e \in webhookEvents' \ webhookEvents : AccountOf(e) = a /\ Says(e)
         ELSE last[a]]

WatchedInit == Init /\ contested = {} /\ last = [a \in Accounts |-> 0]

WatchedSpec == WatchedInit /\ [][Next /\ Watch]_watchedVars

-----------------------------------------------------------------------------

\* tier and status are written together: Pro is active or past due, and
\* canceled is free, whatever the order of events and however often one is
\* delivered, unless two events of the account had read its row at one time.
PlanIsConsistent ==
    \A a \in Accounts \ contested :
        <<subscription[a].tier, subscription[a].status>> \in
            {<<"free", "active">>, <<"pro", "active">>, <<"pro", "past_due">>,
             <<"free", "canceled">>}

\* The newest of the events Stripe emitted about the account's plan
Newest(e) == \A d \in DOMAIN events : AccountOf(d) = AccountOf(e) /\ Says(d) => d <= e

\* An account that paid a single checkout has the plan its Stripe subscription
\* says, access until it is unpaid or deleted, through a past due period, as
\* soon as the newest event was the last to be recorded: the order of the
\* others does not matter, nor whether they were recorded at all.  With the
\* completed event recorded, at any time, it has the ids too.
MirrorsStripe ==
    \A s \in Checkouts :
        LET a == buyer[s]
            paying == checkout[s] \in {"active", "past_due"}
        IN
        /\ checkout[s] \notin {"absent", "open"}
        /\ \A t \in Checkouts \ {s} : buyer[t] = a => checkout[t] \in {"absent", "open"}
        /\ a \notin contested
        /\ last[a] # 0 /\ Newest(last[a])
        => /\ subscription[a].tier = IF paying THEN "pro" ELSE "free"
           /\ subscription[a].status = IF paying THEN checkout[s] ELSE "canceled"
           /\ (\E e \in webhookEvents : AccountOf(e) = a /\ events[e].type = "completed") =>
                 subscription[a].customer = s /\ subscription[a].subscriptionId = s

=============================================================================
