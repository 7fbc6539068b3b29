------------------------------ MODULE Billing ------------------------------
(***************************************************************************)
(* billing.service.ts: one organization's row in billing_subscriptions,    *)
(* the billing page from which it is bought and managed, and the Stripe    *)
(* events that write it.  Stripe keeps subscriptions of its own and        *)
(* delivers its events in any order (or, inOrder, the oldest first), some  *)
(* of them more than once.                                                 *)
(* Plans and limits are those of packages/shared/src/constants.ts.         *)
(***************************************************************************)
EXTENDS Integers, FiniteSets

CONSTANTS
  LimitOf,           \* active-contact limit of each plan
  Bought,            \* Stripe's ids of subscriptions to come, with the plan their metadata names
  MaxEvents          \* bound: events Stripe sends

Unlimited == -1      \* a null activeContactLimit
Unnamed == "unnamed" \* metadata that names no plan
Plans == DOMAIN LimitOf
\* The plans that have a price.
SelfServe == Plans \ {"free", "enterprise"}

ASSUME BillingAssumptions ==
  /\ {"free", "enterprise"} \subseteq Plans
  /\ LimitOf \in [Plans -> Nat \cup {Unlimited}] /\ LimitOf["free"] \in Nat
  /\ "none" \notin DOMAIN Bought /\ \A i \in DOMAIN Bought : Bought[i] # "free"
  /\ MaxEvents \in Nat

VARIABLES
  page,              \* the billing page: "closed", or shown without or with a Stripe customer
  portal,            \* has a customer portal session been opened?
  subscription,      \* the row, or NoRow: planId, activeContactLimit, status, stripeSubscriptionId, and
                     \* whose currentPeriodEnd and cancelAtPeriodEnd it holds
  sessions,          \* checkout sessions open at Stripe
  stripe,            \* Stripe's view of each subscription
  events,            \* sent and perhaps not yet delivered for the last time
  sent,
  inOrder

billing == <<page, portal, subscription, sessions, stripe, events, sent, inOrder>>

Ids == DOMAIN Bought
Statuses == {"inactive", "active", "past_due", "canceled"}
Prices == SelfServe \cup {"other"}
NoRow ==
  [plan |-> "free", limit |-> Unlimited, status |-> "absent", id |-> "none", periodEnd |-> "none", cancelAtEnd |-> "none"]
RowType ==
  [plan : Plans, limit : Nat \cup {Unlimited}, status : Statuses \cup {"absent"}, id : Ids \cup {"none"},
   periodEnd : Ids \cup {"none"}, cancelAtEnd : Ids \cup {"none"}]

BillingTypeOK ==
  /\ page \in {"closed", "plain", "customer"} /\ portal \in BOOLEAN
  /\ subscription \in RowType
  /\ sessions \subseteq Ids
  /\ stripe \in [Ids -> [status : Statuses \cup {"none"}, names : {Bought[i] : i \in Ids} \cup {Unnamed}, price : Prices]]
  /\ events \subseteq [type : {"checkout", "subscription", "deleted"}, id : Ids, status : Statuses,
                       price : Prices, at : 1..MaxEvents]
  /\ sent \in 0..MaxEvents /\ inOrder \in BOOLEAN

BillingInit ==
  /\ page = "closed" /\ portal = FALSE
  /\ subscription = NoRow
  /\ sessions = {}
  /\ \E price \in Prices : \E named \in {price = "other"} \cup {FALSE} :
       stripe = [i \in Ids |->
         IF Bought[i] \in SelfServe THEN [status |-> "none", names |-> Bought[i], price |-> Bought[i]]
         ELSE [status |-> "none", names |-> IF named THEN Bought[i] ELSE Unnamed, price |-> price]]
  /\ events = {}
  /\ sent = 0 /\ inOrder \in BOOLEAN

\* findOrCreateSubscription: the usage, a checkout or a portal session makes the free row.
Found == IF subscription # NoRow THEN subscription
         ELSE [NoRow EXCEPT !.limit = LimitOf["free"], !.status = "inactive"]

\* Stripe's customer is written together with the subscription's id.
HasCustomer(row) == row.id # "none"

GetUsage == subscription' = Found

LoadBilling ==
  /\ GetUsage
  /\ page' = IF HasCustomer(Found) THEN "customer" ELSE "plain"
  /\ UNCHANGED <<portal, sessions, stripe, events, sent, inOrder>>

\* getPlans: the plans that the page offers.
Offered == SelfServe

CreateCheckoutSession(i) ==
  /\ Bought[i] \notin {"free", "enterprise"}
  /\ sessions' = sessions \cup {i}
  /\ subscription' = Found

\* The browser leaves the page for Stripe's.
Checkout(i) ==
  /\ page # "closed" /\ Bought[i] \in Offered
  /\ stripe[i].status = "none"
  /\ CreateCheckoutSession(i)
  /\ page' = "closed"
  /\ UNCHANGED <<portal, stripe, events, sent, inOrder>>

CreateCustomerPortalSession ==
  /\ subscription' = Found
  /\ portal' = (portal \/ HasCustomer(Found))

\* The button is for an organization that had a customer when the page was loaded.
OpenPortal ==
  /\ page = "customer"
  /\ CreateCustomerPortalSession
  /\ page' = IF HasCustomer(Found) THEN "closed" ELSE page
  /\ UNCHANGED <<sessions, stripe, events, sent, inOrder>>

----------------------------------------------------------------------------
(* Stripe.                                                                  *)

Sends(types, i, status) ==
  /\ sent < MaxEvents
  /\ events' = events \cup {[type |-> t, id |-> i, status |-> status, price |-> stripe'[i].price,
                                at |-> sent + 1] : t \in types}
  /\ sent' = sent + 1
  /\ UNCHANGED <<page, portal, inOrder>>

\* The customer pays; two sessions paid are two subscriptions.  Another plan
\* than those is set up at Stripe by hand, with some metadata.
Pay(i) ==
  /\ stripe[i].status = "none" /\ (i \in sessions \/ Bought[i] \notin SelfServe)
  /\ stripe' = [stripe EXCEPT ![i].status = "active"]
  /\ Sends(IF i \in sessions THEN {"checkout", "subscription"} ELSE {"subscription"}, i, "active")
  /\ sessions' = sessions \ {i}
  /\ UNCHANGED subscription

\* In the customer portal: another price, which leaves the metadata as it was.
ChangePrice(i, plan) ==
  /\ portal
  /\ stripe[i].status \in {"active", "past_due"} /\ plan \in SelfServe \ {stripe[i].price}
  /\ stripe' = [stripe EXCEPT ![i].price = plan]
  /\ Sends({"subscription"}, i, stripe[i].status)
  /\ UNCHANGED <<subscription, sessions>>

\* A payment fails, or one that failed succeeds.
ChangeStatus(i, status) ==
  /\ stripe[i].status \in {"active", "past_due"} \ {status}
  /\ stripe' = [stripe EXCEPT ![i].status = status]
  /\ Sends({"subscription"}, i, status)
  /\ UNCHANGED <<subscription, sessions>>

Cancel(i) ==
  /\ stripe[i].status \in {"active", "past_due"}
  /\ stripe' = [stripe EXCEPT ![i].status = "canceled"]
  /\ Sends({"deleted"}, i, "canceled")
  /\ UNCHANGED <<subscription, sessions>>

----------------------------------------------------------------------------
(* handleWebhook.                                                           *)

ValidPlan(plan) == IF plan \in Plans THEN plan ELSE "free"

\* Defect: the limit stays that of the plan there was.
LimitOfFormerPlan(plan) == Found.limit

LimitForPlan(plan) == LimitOf[ValidPlan(plan)]

PlanIdForPrice(price) == IF price \in SelfServe THEN price ELSE "free"

\* The plan an event is about: the metadata's, else the price's.
PlanOf(e) == IF stripe[e.id].names = Unnamed THEN PlanIdForPrice(e.price) ELSE ValidPlan(stripe[e.id].names)

\* handleCheckoutCompleted; a checkout's metadata always names a plan.  The end of the period,
\* and whether it ends the subscription, stay what the row says of a former subscription.
HandleCheckoutCompleted(e) ==
  [subscription EXCEPT !.plan = PlanOf(e), !.limit = LimitForPlan(PlanOf(e)), !.status = "active", !.id = e.id]

UpsertSubscriptionFromStripe(e) ==
  [plan |-> PlanOf(e), limit |-> LimitForPlan(PlanOf(e)), status |-> e.status, id |-> e.id,
   periodEnd |-> e.id, cancelAtEnd |-> e.id]

\* Defect: a deletion is written to the organization's row, whichever subscription it is about.
RowOfAny(e) == subscription # NoRow

\* markSubscriptionCanceled finds the row by the subscription's id.
RowOf(e) == subscription # NoRow /\ subscription.id = e.id

MarkSubscriptionCanceled(e) ==
  IF RowOf(e) THEN [subscription EXCEPT !.status = "canceled", !.cancelAtEnd = e.id] ELSE subscription

\* Stripe delivers an event for the last time, or will deliver it again.
HandleWebhook(e, again) ==
  /\ inOrder => \A f \in events : e.at <= f.at
  /\ subscription' = CASE e.type = "checkout" -> HandleCheckoutCompleted(e)
                       [] e.type = "subscription" -> UpsertSubscriptionFromStripe(e)
                       [] e.type = "deleted" -> MarkSubscriptionCanceled(e)
  /\ events' = IF again THEN events ELSE events \ {e}
  /\ UNCHANGED <<page, portal, sessions, stripe, sent, inOrder>>

BillingNext ==
  \/ LoadBilling \/ OpenPortal
  \/ \E i \in Ids : Checkout(i) \/ Pay(i) \/ Cancel(i)
  \/ \E i \in Ids : \E plan \in Plans : ChangePrice(i, plan)
  \/ \E i \in Ids : \E status \in {"active", "past_due"} : ChangeStatus(i, status)
  \/ \E e \in events : \E again \in BOOLEAN : HandleWebhook(e, again)

BillingSpec == BillingInit /\ [][BillingNext]_billing

----------------------------------------------------------------------------
\* Whatever the order and number of the events, the plan, the limit and the status of the row
\* are never a mixture of two subscriptions: its limit is its plan's, its plan the one named by
\* the metadata of the subscription it names, and it is canceled only if Stripe has canceled that
\* very subscription.  The end of the period can be a former subscription's, but only in a row that
\* a checkout made active, and the word on whether it ends only until that one is canceled.
RowIsOneSubscription ==
  LET row == subscription IN
  /\ row # NoRow => row.limit = LimitOf[row.plan]
  /\ row.id # "none" /\ stripe[row.id].names # Unnamed => row.plan = ValidPlan(stripe[row.id].names)
  /\ row.status = "canceled" => stripe[row.id].status = "canceled"
  /\ row.periodEnd # row.id => row.status \in {"active", "canceled"}
  /\ row.cancelAtEnd # row.id => row.status = "active"

\* Delivered in order, the events leave the row with the status that Stripe has for the
\* subscription it names, however many the organization has bought and canceled, with the end of
\* that subscription's period, and, if its metadata names no plan, with the plan of the price that
\* Stripe has for it now.
SettledRow ==
  LET row == subscription IN
  inOrder /\ events = {} /\ row.id # "none" =>
    /\ row.status = stripe[row.id].status
    /\ row.periodEnd = row.id /\ row.cancelAtEnd = row.id
    /\ stripe[row.id].names = Unnamed => row.plan = PlanIdForPrice(stripe[row.id].price)

=============================================================================
