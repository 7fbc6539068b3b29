-------------------------- MODULE ContactsProofs --------------------------
(***************************************************************************)
(* Proofs about Billing and about Contacts, which extends it.  Billing:    *)
(* its types, that the row is never a mixture of two subscriptions, and    *)
(* that events in order leave it as Stripe has it, for any plans,          *)
(* subscriptions and number of events.  Contacts: its types, that requests *)
(* at once overrun the limit by less than their number, that an event has  *)
(* one effect and that a failed intake leaves nobody behind, for any       *)
(* people, addresses, campaigns and requests.                              *)
(***************************************************************************)
EXTENDS Contacts, FiniteSetTheorems, TLAPS

----------------------------------------------------------------------------
(* Billing.                                                                  *)

USE BillingAssumptions

\* The plans an event can name are plans, and every plan has a limit.
LEMMA PlanTypes ==
  /\ "free" \in Plans /\ SelfServe \subseteq Plans
  /\ \A p : ValidPlan(p) \in Plans /\ PlanIdForPrice(p) \in Plans
  /\ \A p \in Plans : LimitForPlan(p) = LimitOf[p] /\ LimitOf[p] \in Nat \cup {Unlimited}
BY DEF Plans, SelfServe, ValidPlan, PlanIdForPrice, LimitForPlan

\* A row that is found is a row of the table.
LEMMA FoundType ==
  ASSUME BillingTypeOK
  PROVE  Found \in RowType
BY PlanTypes DEF BillingTypeOK, Found, Statuses, NoRow, RowType

\* The organization starts without a row, Stripe without subscriptions.
LEMMA BillingTypeInit == BillingInit => BillingTypeOK
<1> SUFFICES ASSUME BillingInit PROVE BillingTypeOK
  OBVIOUS
<1>1. NoRow \in RowType
  BY PlanTypes DEF NoRow, RowType
<1>2. stripe \in [Ids -> [status : Statuses \cup {"none"}, names : {Bought[i] : i \in Ids} \cup {Unnamed}, price : Prices]]
  <2>1. PICK price \in Prices, named \in {TRUE, FALSE} :
          stripe = [i \in Ids |->
            IF Bought[i] \in SelfServe THEN [status |-> "none", names |-> Bought[i], price |-> Bought[i]]
            ELSE [status |-> "none", names |-> IF named THEN Bought[i] ELSE Unnamed, price |-> price]]
    BY DEF BillingInit
  <2>2. ASSUME NEW i \in Ids
        PROVE  stripe[i] \in [status : Statuses \cup {"none"}, names : {Bought[j] : j \in Ids} \cup {Unnamed},
                              price : Prices]
    <3>1. CASE Bought[i] \in SelfServe
      <4>1. stripe[i] = [status |-> "none", names |-> Bought[i], price |-> Bought[i]]
        BY <2>1, <3>1
      <4> QED
        BY <3>1, <4>1 DEF Prices
    <3>2. CASE Bought[i] \notin SelfServe
      <4>1. stripe[i] = [status |-> "none", names |-> IF named THEN Bought[i] ELSE Unnamed, price |-> price]
        BY <2>1, <3>2
      <4> QED
        BY <2>1, <4>1
    <3> QED
      BY <3>1, <3>2
  <2> QED
    BY <2>1, <2>2
<1>3. /\ page = "closed" /\ portal = FALSE /\ subscription = NoRow /\ sessions = {} /\ events = {} /\ sent = 0
      /\ inOrder \in BOOLEAN
  BY DEF BillingInit
<1>4. portal \in BOOLEAN /\ inOrder \in BOOLEAN
  BY <1>3, Zenon
<1>5. sent \in 0..MaxEvents
  BY <1>3
<1>6. page \in {"closed", "plain", "customer"} /\ sessions \subseteq Ids
  BY <1>3
<1> QED
  BY <1>1, <1>2, <1>3, <1>4, <1>5, <1>6, Zenon DEF BillingTypeOK

\* What Stripe does keeps the types.
LEMMA StripeTypes ==
  ASSUME BillingTypeOK, NEW i \in Ids,
         \/ Pay(i) \/ Cancel(i)
         \/ \E plan \in Plans : ChangePrice(i, plan)
         \/ \E status \in {"active", "past_due"} : ChangeStatus(i, status)
  PROVE  BillingTypeOK'
<1>1. stripe' \in [Ids -> [status : Statuses \cup {"none"}, names : {Bought[j] : j \in Ids} \cup {Unnamed}, price : Prices]]
  BY DEF BillingTypeOK, Pay, Cancel, ChangePrice, ChangeStatus, Statuses, Prices
<1>2. PICK types \in SUBSET {"checkout", "subscription", "deleted"}, status \in Statuses : Sends(types, i, status)
  <2>1. CASE Pay(i)
    BY <2>1 DEF Pay, Statuses
  <2>2. CASE Cancel(i)
    BY <2>2 DEF Cancel, Statuses
  <2>3. ASSUME NEW plan \in Plans, ChangePrice(i, plan)
        PROVE  Sends({"subscription"}, i, stripe[i].status) /\ stripe[i].status \in Statuses
    BY <2>3 DEF ChangePrice, Statuses
  <2>4. ASSUME NEW status \in {"active", "past_due"}, ChangeStatus(i, status) PROVE Sends({"subscription"}, i, status)
    BY <2>4 DEF ChangeStatus
  <2> QED
    BY <2>1, <2>2, <2>3, <2>4 DEF Statuses
<1>3. stripe'[i].price \in Prices
  BY <1>1
<1>4. sent + 1 \in 1..MaxEvents /\ sent' \in 0..MaxEvents
  BY <1>2 DEF Sends, BillingTypeOK
<1>5. events' \subseteq [type : {"checkout", "subscription", "deleted"}, id : Ids, status : Statuses,
                         price : Prices, at : 1..MaxEvents]
  BY <1>2, <1>3, <1>4 DEF Sends, BillingTypeOK
<1>6. UNCHANGED <<page, portal, subscription, inOrder>> /\ sessions' \subseteq Ids
  BY <1>2 DEF Sends, Pay, Cancel, ChangePrice, ChangeStatus, BillingTypeOK
<1> QED
  BY <1>1, <1>4, <1>5, <1>6 DEF BillingTypeOK

\* Every step keeps the types.
LEMMA BillingTypeStep == BillingTypeOK /\ [BillingNext]_billing => BillingTypeOK'
<1> SUFFICES ASSUME BillingTypeOK, [BillingNext]_billing PROVE BillingTypeOK'
  OBVIOUS
<1>1. CASE LoadBilling \/ OpenPortal
  BY <1>1, FoundType DEF LoadBilling, GetUsage, OpenPortal, CreateCustomerPortalSession, HasCustomer, BillingTypeOK
<1>2. ASSUME NEW i \in Ids, Checkout(i) PROVE BillingTypeOK'
  BY <1>2, FoundType DEF Checkout, CreateCheckoutSession, BillingTypeOK
<1>3. ASSUME NEW e \in events, NEW again \in BOOLEAN, HandleWebhook(e, again) PROVE BillingTypeOK'
  <2>1. e.id \in Ids /\ e.status \in Statuses /\ e.type \in {"checkout", "subscription", "deleted"}
    BY DEF BillingTypeOK
  <2>2. PlanOf(e) \in Plans
    BY PlanTypes DEF PlanOf
  <2>3. LimitForPlan(PlanOf(e)) \in Nat \cup {Unlimited}
    BY <2>2, PlanTypes
  <2>4. subscription' \in RowType
    <3>1. HandleCheckoutCompleted(e) \in RowType
      BY <2>1, <2>2, <2>3 DEF HandleCheckoutCompleted, BillingTypeOK, RowType, Statuses
    <3>2. UpsertSubscriptionFromStripe(e) \in RowType
      BY <2>1, <2>2, <2>3 DEF UpsertSubscriptionFromStripe, RowType
    <3>3. MarkSubscriptionCanceled(e) \in RowType
      BY <2>1 DEF MarkSubscriptionCanceled, BillingTypeOK, RowType, Statuses
    <3> QED
      BY <1>3, <2>1, <3>1, <3>2, <3>3 DEF HandleWebhook
  <2> QED
    BY <1>3, <2>4 DEF HandleWebhook, BillingTypeOK
<1>4. CASE UNCHANGED billing
  BY <1>4 DEF billing, BillingTypeOK
<1> QED
  BY <1>1, <1>2, <1>3, <1>4, StripeTypes DEF BillingNext

\* Every variable keeps its type.
THEOREM BillingTyping == BillingSpec => []BillingTypeOK
BY BillingTypeInit, BillingTypeStep, PTL DEF BillingSpec

----------------------------------------------------------------------------
(* The row.  That it is canceled only if Stripe has canceled that very       *)
(* subscription needs what is known of the events under way: those that say  *)
(* so are about subscriptions that Stripe has canceled, for good.            *)

EventsTell == \A e \in events : e.type = "deleted" \/ e.status = "canceled" => stripe[e.id].status = "canceled"

RowInv ==
  /\ BillingTypeOK
  /\ subscription # NoRow => subscription.limit = LimitOf[subscription.plan]
  /\ subscription.id # "none" /\ stripe[subscription.id].names # Unnamed =>
       subscription.plan = ValidPlan(stripe[subscription.id].names)
  /\ subscription.status = "canceled" => subscription.id # "none" /\ stripe[subscription.id].status = "canceled"
  /\ subscription.periodEnd # subscription.id => subscription.status \in {"active", "canceled"}
  /\ subscription.cancelAtEnd # subscription.id => subscription.status = "active"
  /\ EventsTell

\* Stripe never changes what a subscription's metadata names, nor revives one it canceled.
LEMMA StripeKeeps ==
  ASSUME BillingTypeOK, NEW i \in Ids,
         \/ Pay(i) \/ Cancel(i)
         \/ \E plan \in Plans : ChangePrice(i, plan)
         \/ \E status \in {"active", "past_due"} : ChangeStatus(i, status)
  PROVE  /\ \A j \in Ids : /\ stripe'[j].names = stripe[j].names
                           /\ stripe[j].status = "canceled" => stripe'[j].status = "canceled"
         /\ UNCHANGED subscription
         /\ EventsTell => EventsTell'
<1>1. /\ \A j \in Ids : /\ stripe'[j].names = stripe[j].names
                        /\ stripe[j].status = "canceled" => stripe'[j].status = "canceled"
      /\ UNCHANGED subscription
  BY DEF Pay, Cancel, ChangePrice, ChangeStatus, BillingTypeOK
<1>2. \A e \in events' : \/ e \in events
                         \/ e.id = i /\ (e.type = "deleted" \/ e.status = "canceled" => stripe'[i].status = "canceled")
  <2>1. CASE Pay(i)
    BY <2>1 DEF Pay, Sends
  <2>2. CASE Cancel(i)
    BY <2>2 DEF Cancel, Sends, BillingTypeOK
  <2>3. ASSUME NEW plan \in Plans, ChangePrice(i, plan)
        PROVE  \A e \in events' \ events : e.id = i /\ e.type # "deleted" /\ e.status # "canceled"
    BY <2>3 DEF ChangePrice, Sends
  <2>4. ASSUME NEW status \in {"active", "past_due"}, ChangeStatus(i, status)
        PROVE  \A e \in events' \ events : e.id = i /\ e.type # "deleted" /\ e.status # "canceled"
    BY <2>4 DEF ChangeStatus, Sends
  <2> QED
    BY <2>1, <2>2, <2>3, <2>4
<1>3. \A e \in events : e.id \in Ids
  BY DEF BillingTypeOK
<1> QED
  BY <1>1, <1>2, <1>3 DEF EventsTell

\* What the application finds or makes of the row is the free row or the row there was.
LEMMA FoundKeeps ==
  ASSUME RowInv, subscription' = Found, UNCHANGED <<stripe, events>>, BillingTypeOK'
  PROVE  RowInv'
BY PlanTypes DEF RowInv, Found, EventsTell, NoRow

\* Every step keeps the row the row of one subscription.
LEMMA RowStep == RowInv /\ [BillingNext]_billing => RowInv'
<1> SUFFICES ASSUME RowInv, [BillingNext]_billing PROVE RowInv'
  OBVIOUS
<1>0. BillingTypeOK /\ BillingTypeOK'
  BY BillingTypeStep DEF RowInv
<1>1. CASE LoadBilling \/ OpenPortal
  BY <1>0, <1>1, FoundKeeps DEF LoadBilling, GetUsage, OpenPortal, CreateCustomerPortalSession
<1>2. ASSUME NEW i \in Ids, Checkout(i) PROVE RowInv'
  BY <1>0, <1>2, FoundKeeps DEF Checkout, CreateCheckoutSession
<1>3. ASSUME NEW i \in Ids,
             \/ Pay(i) \/ Cancel(i)
             \/ \E plan \in Plans : ChangePrice(i, plan)
             \/ \E status \in {"active", "past_due"} : ChangeStatus(i, status)
      PROVE  RowInv'
  <2>1. subscription.id \in Ids \cup {"none"}
    BY <1>0 DEF BillingTypeOK, RowType
  <2> QED
    BY <1>0, <1>3, <2>1, StripeKeeps DEF RowInv
<1>4. ASSUME NEW e \in events, NEW again \in BOOLEAN, HandleWebhook(e, again) PROVE RowInv'
  <2>1. e.id \in Ids /\ e.type \in {"checkout", "subscription", "deleted"} /\ "none" \notin Ids
    BY <1>0 DEF BillingTypeOK, Ids
  <2>2. PlanOf(e) \in Plans /\ (stripe[e.id].names # Unnamed => PlanOf(e) = ValidPlan(stripe[e.id].names))
    BY PlanTypes DEF PlanOf
  <2>3. LimitForPlan(PlanOf(e)) = LimitOf[PlanOf(e)]
    BY <2>2, PlanTypes
  <2>4. EventsTell' /\ UNCHANGED stripe
    BY <1>4 DEF HandleWebhook, RowInv, EventsTell
  <2>5. CASE e.type = "checkout"
    BY <1>0, <1>4, <2>1, <2>2, <2>3, <2>4, <2>5 DEF HandleWebhook, HandleCheckoutCompleted, RowInv, BillingTypeOK, RowType
  <2>6. CASE e.type = "subscription"
    BY <1>0, <1>4, <2>1, <2>2, <2>3, <2>4, <2>6 DEF HandleWebhook, UpsertSubscriptionFromStripe, RowInv, EventsTell
  <2>7. CASE e.type = "deleted"
    BY <1>0, <1>4, <2>1, <2>4, <2>7 DEF HandleWebhook, MarkSubscriptionCanceled, RowOf, RowInv, EventsTell, BillingTypeOK, RowType
  <2> QED
    BY <2>1, <2>5, <2>6, <2>7
<1>5. CASE UNCHANGED billing
  BY <1>0, <1>5 DEF billing, RowInv, EventsTell
<1> QED
  BY <1>1, <1>2, <1>3, <1>4, <1>5 DEF BillingNext

\* In whatever order and number the events arrive, the row's plan, limit and status are one
\* subscription's, and a former one's period shows only in a row that a checkout made active.
THEOREM OneSubscription == BillingSpec => []RowIsOneSubscription
<1>1. BillingInit => RowInv
  <2>1. BillingInit => subscription = NoRow /\ events = {}
    BY DEF BillingInit
  <2> QED
    BY <2>1, BillingTypeInit DEF RowInv, EventsTell, NoRow
<1>2. RowInv => RowIsOneSubscription
  BY DEF RowInv, RowIsOneSubscription
<1> QED
  BY <1>1, <1>2, RowStep, PTL DEF BillingSpec

----------------------------------------------------------------------------
(* The row when the events arrive in order.  Of the events under way about a *)
(* subscription the newest say what Stripe has now; when none is under way,   *)
(* the row says it.  A deletion's event does not carry the plan to the row,   *)
(* so prices are about the events of the other types.                         *)

Priced(e) == e.type # "deleted"
NewestTells == \A e \in events :
  (\A f \in events : f.id = e.id => f.at <= e.at) => e.status = stripe[e.id].status
NewestPriceTells == \A e \in events :
  Priced(e) /\ (\A f \in events : f.id = e.id /\ Priced(f) => f.at <= e.at) => e.price = stripe[e.id].price
Dated == \A e \in events :
  /\ e.at \in Nat /\ e.at <= sent /\ e.id \in Ids /\ e.type \in {"checkout", "subscription", "deleted"}
  /\ (e.type = "checkout" => e.status = "active") /\ (e.type = "deleted" => e.status = "canceled")

RowTells ==
  subscription.id # "none" =>
    /\ (\A e \in events : e.id # subscription.id) => subscription.status = stripe[subscription.id].status
    /\ (\A e \in events : ~(e.id = subscription.id /\ Priced(e))) /\ stripe[subscription.id].names = Unnamed =>
         subscription.plan = PlanIdForPrice(stripe[subscription.id].price)

SettledInv == Dated /\ (inOrder => NewestTells /\ NewestPriceTells /\ RowTells)

\* Whatever Stripe changes about a subscription, it sends the newest event about it.
LEMMA StripeTells ==
  ASSUME BillingTypeOK, SettledInv, NEW i \in Ids,
         \/ Pay(i) \/ Cancel(i)
         \/ \E plan \in Plans : ChangePrice(i, plan)
         \/ \E status \in {"active", "past_due"} : ChangeStatus(i, status)
  PROVE  SettledInv'
<1>1. PICK types \in SUBSET {"checkout", "subscription", "deleted"}, status \in Statuses :
        /\ Sends(types, i, status) /\ types # {} /\ stripe'[i].status = status
        /\ types = {"deleted"} \/ "deleted" \notin types
        /\ "deleted" \in types => status = "canceled" /\ stripe'[i].price = stripe[i].price
        /\ "checkout" \in types => status = "active"
  <2>1. CASE Pay(i)
    <3>1. stripe'[i].status = "active" /\ "active" \in Statuses
      BY <2>1 DEF Pay, Statuses, BillingTypeOK
    <3>2. CASE i \in sessions
      <4>1. Sends({"checkout", "subscription"}, i, "active")
        BY <2>1, <3>2 DEF Pay
      <4> QED
        BY <3>1, <4>1
    <3>3. CASE i \notin sessions
      <4>1. Sends({"subscription"}, i, "active")
        BY <2>1, <3>3 DEF Pay
      <4> QED
        BY <3>1, <4>1
    <3> QED
      BY <3>2, <3>3
  <2>2. CASE Cancel(i)
    <3>1. /\ stripe'[i].status = "canceled" /\ "canceled" \in Statuses /\ stripe'[i].price = stripe[i].price
          /\ Sends({"deleted"}, i, "canceled")
      BY <2>2 DEF Cancel, Statuses, BillingTypeOK
    <3> QED
      BY <3>1
  <2>3. ASSUME NEW plan \in Plans, ChangePrice(i, plan)
        PROVE  /\ Sends({"subscription"}, i, stripe[i].status) /\ stripe[i].status \in Statuses
               /\ stripe'[i].status = stripe[i].status
    BY <2>3 DEF ChangePrice, Statuses, BillingTypeOK
  <2>4. ASSUME NEW status \in {"active", "past_due"}, ChangeStatus(i, status)
        PROVE  Sends({"subscription"}, i, status) /\ stripe'[i].status = status
    BY <2>4 DEF ChangeStatus, BillingTypeOK
  <2> QED
    BY <2>1, <2>2, <2>3, <2>4 DEF Statuses
<1>2. /\ \A j \in Ids : j # i => stripe'[j] = stripe[j]
      /\ stripe'[i].names = stripe[i].names
      /\ UNCHANGED <<subscription, inOrder>>
  BY <1>1 DEF Sends, Pay, Cancel, ChangePrice, ChangeStatus, BillingTypeOK
<1> DEFINE new(t) == [type |-> t, id |-> i, status |-> status, price |-> stripe'[i].price, at |-> sent + 1]
<1>3. /\ \A e \in events' : e \in events \/ \E t \in types : e = new(t)
      /\ \A t \in types : new(t) \in events'
      /\ events \subseteq events' /\ sent' = sent + 1 /\ sent \in Nat
  <2>1. events' = events \cup {new(t) : t \in types} /\ sent' = sent + 1
    BY <1>1 DEF Sends
  <2>2. sent \in Nat
    BY DEF BillingTypeOK
  <2> HIDE DEF new
  <2> QED
    BY <2>1, <2>2
<1>4. PICK u \in types : TRUE
  BY <1>1
<1>5. Dated'
  BY <1>1, <1>3 DEF SettledInv, Dated
<1>6. \A e \in events : e.at < sent + 1
  BY <1>3 DEF SettledInv, Dated
<1>7. ASSUME inOrder PROVE NewestTells'
  <2> SUFFICES ASSUME NEW e \in events', \A f \in events' : f.id = e.id => f.at <= e.at
               PROVE  e.status = stripe'[e.id].status
    BY DEF NewestTells
  <2>1. CASE e.id = i
    <3>1. new(u) \in events' /\ sent + 1 <= e.at
      BY <1>3, <2>1
    <3>2. e \notin events
      BY <1>3, <1>6, <3>1 DEF SettledInv, Dated
    <3> QED
      BY <1>1, <1>3, <3>2
  <2>2. CASE e.id # i
    BY <1>2, <1>3, <1>7, <2>2 DEF SettledInv, NewestTells, Dated
  <2> QED
    BY <2>1, <2>2
<1>8. ASSUME inOrder PROVE NewestPriceTells'
  <2> SUFFICES ASSUME NEW e \in events', Priced(e), \A f \in events' : f.id = e.id /\ Priced(f) => f.at <= e.at
               PROVE  e.price = stripe'[e.id].price
    BY DEF NewestPriceTells, Priced
  <2>1. CASE e.id = i /\ "deleted" \notin types
    <3>1. new(u) \in events' /\ Priced(new(u)) /\ sent + 1 <= e.at
      BY <1>3, <2>1 DEF Priced
    <3>2. e \notin events
      BY <1>3, <1>6, <3>1 DEF SettledInv, Dated
    <3> QED
      BY <1>1, <1>3, <3>2
  <2>2. CASE e.id = i /\ types = {"deleted"}
    <3>1. e \in events
      BY <1>3, <2>2 DEF Priced
    <3> QED
      BY <1>1, <1>3, <1>8, <2>2, <3>1 DEF SettledInv, NewestPriceTells
  <2>3. CASE e.id # i
    BY <1>2, <1>3, <1>8, <2>3 DEF SettledInv, NewestPriceTells, Dated
  <2> QED
    BY <1>1, <2>1, <2>2, <2>3
<1>9. ASSUME inOrder PROVE RowTells'
  <2> SUFFICES ASSUME subscription.id # "none" PROVE RowTells'
    BY <1>2 DEF RowTells
  <2>1. subscription.id \in Ids
    BY DEF BillingTypeOK, RowType
  <2>2. CASE subscription.id = i /\ "deleted" \notin types
    BY <1>2, <1>3, <2>2 DEF RowTells, Priced
  <2>3. CASE subscription.id = i /\ types = {"deleted"}
    BY <1>1, <1>2, <1>3, <1>9, <2>3 DEF SettledInv, RowTells, Priced
  <2>4. CASE subscription.id # i
    BY <1>2, <1>3, <1>9, <2>1, <2>4 DEF SettledInv, RowTells
  <2> QED
    BY <1>1, <2>2, <2>3, <2>4
<1> QED
  BY <1>2, <1>5, <1>7, <1>8, <1>9 DEF SettledInv

\* An event delivered in its turn brings what it says to the row, and the newest stay the newest.
LEMMA DeliveryTells ==
  ASSUME BillingTypeOK, SettledInv, NEW e \in events, NEW again \in BOOLEAN, HandleWebhook(e, again)
  PROVE  SettledInv'
<1>1. /\ events' \subseteq events /\ \A f \in events : f # e => f \in events'
      /\ UNCHANGED <<stripe, inOrder, sent>>
      /\ inOrder => \A f \in events : e.at <= f.at
  BY DEF HandleWebhook
<1>2. Dated'
  BY <1>1 DEF SettledInv, Dated
<1>3. ASSUME inOrder PROVE NewestTells'
  BY <1>1, <1>3 DEF SettledInv, NewestTells, Dated
<1>4. ASSUME inOrder PROVE NewestPriceTells'
  BY <1>1, <1>4 DEF SettledInv, NewestPriceTells, Dated, Priced
<1>5. e.id \in Ids /\ e.type \in {"checkout", "subscription", "deleted"} /\ "none" \notin Ids
  BY DEF SettledInv, Dated, Ids
<1>6. ASSUME inOrder, \A f \in events' : f.id # e.id PROVE e.status = stripe[e.id].status
  BY <1>1, <1>6 DEF SettledInv, NewestTells, Dated
<1>7. ASSUME inOrder, Priced(e), \A f \in events' : ~(f.id = e.id /\ Priced(f)) PROVE e.price = stripe[e.id].price
  BY <1>1, <1>7 DEF SettledInv, NewestPriceTells, Dated
<1>8. ASSUME inOrder, e.type # "deleted" PROVE RowTells'
  <2>1. /\ subscription'.id = e.id /\ subscription'.plan = PlanOf(e) /\ subscription'.status = e.status
    BY <1>5, <1>8 DEF HandleWebhook, HandleCheckoutCompleted, UpsertSubscriptionFromStripe, SettledInv, Dated
  <2> QED
    BY <1>1, <1>6, <1>7, <1>8, <2>1 DEF RowTells, PlanOf, Priced
<1>9. ASSUME inOrder, e.type = "deleted" PROVE RowTells'
  <2>1. CASE subscription.id = e.id
    <3>1. /\ subscription'.id = e.id /\ subscription'.plan = subscription.plan /\ subscription'.status = e.status
      BY <1>5, <1>9, <2>1 DEF HandleWebhook, MarkSubscriptionCanceled, RowOf, NoRow, SettledInv, Dated, BillingTypeOK
    <3> QED
      BY <1>1, <1>6, <1>9, <2>1, <3>1 DEF RowTells, SettledInv, Priced
  <2>2. CASE subscription.id # e.id
    <3>1. UNCHANGED subscription
      BY <1>9, <2>2 DEF HandleWebhook, MarkSubscriptionCanceled, RowOf
    <3> QED
      BY <1>1, <1>9, <2>2, <3>1 DEF RowTells, SettledInv
  <2> QED
    BY <2>1, <2>2
<1> QED
  BY <1>1, <1>2, <1>3, <1>4, <1>8, <1>9 DEF SettledInv

\* Every step keeps the newest events and the row telling what Stripe has.
LEMMA SettledStep == BillingTypeOK /\ SettledInv /\ [BillingNext]_billing => SettledInv'
<1> SUFFICES ASSUME BillingTypeOK, SettledInv, [BillingNext]_billing PROVE SettledInv'
  OBVIOUS
<1>1. ASSUME subscription' = Found, UNCHANGED <<stripe, events, inOrder, sent>> PROVE SettledInv'
  <2>1. Dated' /\ (NewestTells => NewestTells') /\ (NewestPriceTells => NewestPriceTells')
    BY <1>1 DEF SettledInv, Dated, NewestTells, NewestPriceTells, Priced
  <2>2. RowTells => RowTells'
    BY <1>1 DEF RowTells, Found, NoRow, Priced
  <2> QED
    BY <1>1, <2>1, <2>2 DEF SettledInv
<1>2. CASE LoadBilling \/ OpenPortal
  BY <1>1, <1>2 DEF LoadBilling, GetUsage, OpenPortal, CreateCustomerPortalSession
<1>3. ASSUME NEW i \in Ids, Checkout(i) PROVE SettledInv'
  BY <1>1, <1>3 DEF Checkout, CreateCheckoutSession
<1>4. CASE UNCHANGED billing
  BY <1>4 DEF billing, SettledInv, Dated, NewestTells, NewestPriceTells, RowTells, Priced
<1> QED
  BY <1>2, <1>3, <1>4, StripeTells, DeliveryTells DEF BillingNext

----------------------------------------------------------------------------
(* A checkout leaves the end of a former subscription's period in the row.    *)
(* In order, the event that brings its own is the next to be delivered then,  *)
(* or has been delivered already.                                             *)

OwnPeriod(row) == row.periodEnd = row.id /\ row.cancelAtEnd = row.id
Due(e, waiting) == \A f \in waiting : e.at <= f.at

SameMoment(waiting) == \A e, f \in waiting : e.at = f.at => e.id = f.id /\ (e.type = "deleted" => f.type = "deleted")
PeriodComes(row, waiting) ==
  \/ row.id = "none" \/ OwnPeriod(row)
  \/ \E g \in waiting : g.type = "subscription" /\ g.id = row.id /\ Due(g, waiting)
CheckoutsLead(row, waiting) == \A e \in waiting : e.type = "checkout" =>
  \/ \E g \in waiting : g.type = "subscription" /\ g.id = e.id /\ g.at = e.at
  \/ row.id = e.id /\ OwnPeriod(row) /\ Due(e, waiting)

PeriodInv ==
  inOrder => SameMoment(events) /\ PeriodComes(subscription, events) /\ CheckoutsLead(subscription, events)

\* What Stripe sends is later than all that is under way, a checkout's event together with its
\* subscription's.
LEMMA StripeFollows ==
  ASSUME BillingTypeOK, Dated, PeriodInv, NEW i \in Ids,
         \/ Pay(i) \/ Cancel(i)
         \/ \E plan \in Plans : ChangePrice(i, plan)
         \/ \E status \in {"active", "past_due"} : ChangeStatus(i, status)
  PROVE  PeriodInv'
<1>1. PICK types \in {{"checkout", "subscription"}, {"subscription"}, {"deleted"}}, status \in Statuses \cup {"none"} :
        Sends(types, i, status) /\ UNCHANGED subscription
  <2>1. CASE Pay(i)
    BY <2>1 DEF Pay, Statuses
  <2>2. CASE Cancel(i)
    BY <2>2 DEF Cancel, Statuses
  <2>3. ASSUME NEW plan \in Plans, ChangePrice(i, plan)
        PROVE  /\ Sends({"subscription"}, i, stripe[i].status) /\ stripe[i].status \in Statuses \cup {"none"}
               /\ UNCHANGED subscription
    BY <2>3 DEF ChangePrice, BillingTypeOK
  <2>4. ASSUME NEW status \in {"active", "past_due"}, ChangeStatus(i, status)
        PROVE  Sends({"subscription"}, i, status) /\ UNCHANGED subscription
    BY <2>4 DEF ChangeStatus
  <2> QED
    BY <2>1, <2>2, <2>3, <2>4 DEF Statuses
<1> DEFINE new(t) == [type |-> t, id |-> i, status |-> status, price |-> stripe'[i].price, at |-> sent + 1]
<1>2. /\ events' = events \cup {new(t) : t \in types} /\ sent \in Nat /\ UNCHANGED inOrder
      /\ \A t \in types : new(t).type = t /\ new(t).id = i /\ new(t).at = sent + 1
  BY <1>1 DEF Sends, BillingTypeOK
<1>3. \A e \in events : e.at \in Nat /\ e.at < sent + 1
  BY <1>2 DEF Dated
<1> HIDE DEF new
<1> SUFFICES ASSUME inOrder PROVE PeriodInv'
  BY <1>2 DEF PeriodInv
<1>4. SameMoment(events) /\ PeriodComes(subscription, events) /\ CheckoutsLead(subscription, events)
  BY DEF PeriodInv
<1>5. SameMoment(events')
  BY <1>1, <1>2, <1>3, <1>4 DEF SameMoment
<1>6. \A e \in events : Due(e, events) => Due(e, events')
  BY <1>2, <1>3 DEF Due
<1>7. PeriodComes(subscription, events')
  BY <1>2, <1>4, <1>6 DEF PeriodComes
<1>8. CheckoutsLead(subscription, events')
  <2> SUFFICES ASSUME NEW e \in events', e.type = "checkout"
               PROVE  \/ \E g \in events' : g.type = "subscription" /\ g.id = e.id /\ g.at = e.at
                      \/ subscription.id = e.id /\ OwnPeriod(subscription) /\ Due(e, events')
    BY DEF CheckoutsLead
  <2>1. CASE e \in events
    BY <1>2, <1>4, <1>6, <2>1 DEF CheckoutsLead
  <2>2. CASE e \notin events
    <3>1. types = {"checkout", "subscription"} /\ e = new("checkout") /\ new("subscription") \in events'
      BY <1>1, <1>2, <2>2
    <3> QED
      BY <1>2, <3>1
  <2> QED
    BY <2>1, <2>2
<1> QED
  BY <1>1, <1>5, <1>7, <1>8 DEF PeriodInv

\* A checkout delivered in its turn has its subscription's event beside it, or came after it.
LEMMA DeliveryFollows ==
  ASSUME BillingTypeOK, Dated, PeriodInv, NEW e \in events, NEW again \in BOOLEAN, HandleWebhook(e, again)
  PROVE  PeriodInv'
<1>1. /\ events' \subseteq events /\ \A f \in events : f # e => f \in events'
      /\ UNCHANGED inOrder
  BY DEF HandleWebhook
<1> SUFFICES ASSUME inOrder PROVE PeriodInv'
  BY <1>1 DEF PeriodInv
<1>2. SameMoment(events) /\ PeriodComes(subscription, events) /\ CheckoutsLead(subscription, events)
  BY DEF PeriodInv
<1>3. Due(e, events) /\ \A f \in events : f.at \in Nat
  BY DEF HandleWebhook, Due, Dated
<1>4. SameMoment(events')
  BY <1>1, <1>2 DEF SameMoment
<1>5. \A f \in events' : Due(f, events) => Due(f, events')
  BY <1>1 DEF Due
<1>6. e.id \in Ids /\ "none" \notin Ids /\ subscription \in RowType
  BY DEF Dated, Ids, BillingTypeOK
<1>7. CASE e.type = "checkout"
  <2>1. /\ subscription'.id = e.id
        /\ subscription'.periodEnd = subscription.periodEnd /\ subscription'.cancelAtEnd = subscription.cancelAtEnd
    BY <1>6, <1>7 DEF HandleWebhook, HandleCheckoutCompleted, RowType
  <2>2. CASE subscription.id = e.id /\ OwnPeriod(subscription)
    <3>1. OwnPeriod(subscription')
      BY <2>1, <2>2 DEF OwnPeriod
    <3>2. ASSUME NEW f \in events', f.type = "checkout",
                 ~ \E g \in events' : g.type = "subscription" /\ g.id = f.id /\ g.at = f.at
          PROVE  subscription'.id = f.id /\ Due(f, events')
      <4>1. ~ \E g \in events : g.type = "subscription" /\ g.id = f.id /\ g.at = f.at
        BY <1>1, <1>7, <3>2
      <4> QED
        BY <1>1, <1>2, <1>5, <2>1, <2>2, <3>2, <4>1 DEF CheckoutsLead
    <3> QED
      BY <1>4, <3>1, <3>2 DEF PeriodInv, PeriodComes, CheckoutsLead
  <2>3. CASE ~(subscription.id = e.id /\ OwnPeriod(subscription))
    <3>1. PICK g \in events : g.type = "subscription" /\ g.id = e.id /\ g.at = e.at
      BY <1>2, <1>7, <2>3 DEF CheckoutsLead
    <3>2. g \in events' /\ Due(g, events')
      BY <1>1, <1>3, <1>5, <1>7, <3>1 DEF Due
    <3>3. PeriodComes(subscription', events')
      BY <2>1, <3>1, <3>2 DEF PeriodComes
    <3>4. ASSUME NEW f \in events', f.type = "checkout"
          PROVE  \E h \in events' : h.type = "subscription" /\ h.id = f.id /\ h.at = f.at
      <4>1. CASE \E h \in events : h.type = "subscription" /\ h.id = f.id /\ h.at = f.at
        BY <1>1, <1>7, <4>1
      <4>2. CASE Due(f, events)
        <5>1. f.at = e.at /\ f.id = e.id
          BY <1>1, <1>2, <1>3, <4>2 DEF Due, SameMoment
        <5> QED
          BY <3>1, <3>2, <5>1
      <4> QED
        BY <1>1, <1>2, <3>4, <4>1, <4>2 DEF CheckoutsLead
    <3> QED
      BY <1>4, <3>3, <3>4 DEF PeriodInv, CheckoutsLead
  <2> QED
    BY <2>2, <2>3
<1>8. CASE e.type = "subscription"
  <2>1. subscription'.id = e.id /\ OwnPeriod(subscription')
    BY <1>8 DEF HandleWebhook, UpsertSubscriptionFromStripe, OwnPeriod
  <2>2. ASSUME NEW f \in events', f.type = "checkout",
               ~ \E g \in events' : g.type = "subscription" /\ g.id = f.id /\ g.at = f.at
        PROVE  subscription'.id = f.id /\ Due(f, events')
    <3>1. CASE \E g \in events : g.type = "subscription" /\ g.id = f.id /\ g.at = f.at
      <4>1. e.id = f.id /\ e.at = f.at
        BY <1>1, <2>2, <3>1
      <4>2. Due(f, events)
        BY <1>3, <4>1 DEF Due
      <4> QED
        BY <1>5, <2>1, <4>1, <4>2
    <3>2. CASE Due(f, events)
      <4>1. f.at = e.at
        BY <1>1, <1>3, <3>2 DEF Due
      <4> QED
        BY <1>1, <1>2, <1>5, <2>1, <3>2, <4>1 DEF SameMoment
    <3> QED
      BY <1>1, <1>2, <2>2, <3>1, <3>2 DEF CheckoutsLead
  <2> QED
    BY <1>4, <2>1, <2>2 DEF PeriodInv, PeriodComes, CheckoutsLead
<1>9. CASE e.type = "deleted"
  <2>1. \A f \in events : f.type # "deleted" => f \in events' /\ f.at # e.at
    BY <1>1, <1>2, <1>9 DEF SameMoment
  <2>2. /\ subscription'.id = subscription.id /\ subscription'.periodEnd = subscription.periodEnd
        /\ OwnPeriod(subscription) => OwnPeriod(subscription')
    BY <1>6, <1>9 DEF HandleWebhook, MarkSubscriptionCanceled, RowOf, RowType, OwnPeriod
  <2>3. PeriodComes(subscription', events')
    BY <1>2, <1>5, <2>1, <2>2 DEF PeriodComes
  <2>4. CheckoutsLead(subscription', events')
    BY <1>1, <1>2, <1>5, <2>1, <2>2 DEF CheckoutsLead
  <2> QED
    BY <1>4, <2>3, <2>4 DEF PeriodInv
<1> QED
  BY <1>7, <1>8, <1>9 DEF Dated

\* In order, the end of the period comes after every checkout.
LEMMA PeriodStep == BillingTypeOK /\ Dated /\ PeriodInv /\ [BillingNext]_billing => PeriodInv'
<1> SUFFICES ASSUME BillingTypeOK, Dated, PeriodInv, [BillingNext]_billing PROVE PeriodInv'
  OBVIOUS
<1>1. ASSUME subscription' = Found, UNCHANGED <<events, inOrder>> PROVE PeriodInv'
  <2>1. subscription = NoRow \/ subscription' = subscription
    BY <1>1 DEF Found
  <2>2. CASE subscription = NoRow
    <3>1. subscription.id = "none" /\ subscription'.id = "none"
      BY <1>1, <2>2 DEF Found, NoRow
    <3>2. \A e \in events : e.id # "none"
      BY DEF Dated, Ids
    <3> QED
      BY <1>1, <3>1, <3>2 DEF PeriodInv, PeriodComes, CheckoutsLead
  <2>3. CASE subscription' = subscription
    BY <1>1, <2>3 DEF PeriodInv
  <2> QED
    BY <2>1, <2>2, <2>3
<1>2. CASE LoadBilling \/ OpenPortal
  BY <1>1, <1>2 DEF LoadBilling, GetUsage, OpenPortal, CreateCustomerPortalSession
<1>3. ASSUME NEW i \in Ids, Checkout(i) PROVE PeriodInv'
  BY <1>1, <1>3 DEF Checkout, CreateCheckoutSession
<1>4. CASE UNCHANGED billing
  BY <1>4 DEF billing, PeriodInv
<1> QED
  BY <1>2, <1>3, <1>4, StripeFollows, DeliveryFollows DEF BillingNext

\* When all events have been delivered in order, however often, the row has the status, the end
\* of the period and, without a plan in the metadata, the plan that Stripe has for the
\* subscription it names.
THEOREM Settled == BillingSpec => []SettledRow
<1>1. BillingInit => SettledInv /\ PeriodInv
  <2>1. BillingInit => subscription = NoRow /\ events = {}
    BY DEF BillingInit
  <2> QED
    BY <2>1 DEF SettledInv, Dated, NewestTells, NewestPriceTells, RowTells, NoRow, PeriodInv, SameMoment,
                PeriodComes, CheckoutsLead
<1>2. SettledInv /\ PeriodInv => SettledRow
  BY DEF SettledInv, RowTells, PeriodInv, PeriodComes, OwnPeriod, SettledRow
<1>3. SettledInv => Dated
  BY DEF SettledInv
<1> QED
  BY <1>1, <1>2, <1>3, BillingTypeInit, BillingTypeStep, SettledStep, PeriodStep, PTL DEF BillingSpec
HIDE BillingAssumptions

----------------------------------------------------------------------------
(* The types of Contacts.  A request's call is a record; what it holds of a   *)
(* person is of one with a row, and what it took for an enrollment is one.    *)

CallType ==
  [pc : {"new", "received", "matched", "looked", "allowed", "collided", "done"}, person : Persons \cup {NoPerson},
   existing : {"none", "active", "aged", "removed"}, count : Int, answer : {"none", "accepted", "failed"}]
RecordType == [addresses : (SUBSET Addresses) \ {{}}, campaign : Campaigns, person : Persons]

RequestInv(r, call_r, knownNow, enrolled) ==
  /\ call_r.pc # "done" => call_r.answer = "none"
  /\ call_r.pc \in {"received", "matched", "collided"} => r.kind = "intake"
  /\ call_r.pc \in {"new", "received", "matched"} => call_r.existing = "none"
  /\ call_r.pc \in {"new", "received"} => call_r.person = NoPerson
  /\ call_r.pc = "looked" => call_r.existing \in {"none", "removed"}
  /\ call_r.pc # "new" /\ call_r.person # NoPerson => call_r.person \in knownNow
  /\ call_r.pc \in {"looked", "allowed"} /\ r.kind = "enroll" =>
       call_r.person # NoPerson /\ call_r.existing \in {"none", "removed"}
  /\ call_r.pc = "allowed" /\ call_r.existing \notin {"none", "removed"} =>
       call_r.person # NoPerson /\ enrolled[<<call_r.person, r.campaign>>] # "none"

TypeInv ==
  /\ TypeOK
  /\ call \in [Requests -> CallType]
  /\ recorded \in [Events -> RecordType \cup {NoEvent}]
  /\ IsFiniteSet(ActiveContacts)
  /\ \A r \in Requests : RequestInv(r, call[r], known, enrollment)

\* A request's own types.
LEMMA RequestTypes ==
  ASSUME NEW r \in Requests
  PROVE  /\ r.campaign \in Campaigns
         /\ r.kind \in {"enroll", "intake"}
         /\ r.kind = "enroll" => r.person \in Persons
         /\ r.kind = "intake" => /\ r \in Intakes /\ r.event \in Events
                                /\ r.addresses \in (SUBSET Addresses) \ {{}}
BY ContactAssumptions DEF Intakes, Events

\* A row on record is not the absence of one.
LEMMA RecordIsEvent == \A x \in RecordType : x # NoEvent
BY DEF RecordType, NoEvent

\* What a request starts from and what it is answered.
LEMMA AnswerTypes ==
  /\ NewCall \in CallType /\ Failed \in CallType
  /\ \A p \in Persons : Accepted(p) \in CallType
  /\ \A r, k, e : RequestInv(r, NewCall, k, e) /\ RequestInv(r, Failed, k, e)
  /\ \A r, k, e : \A p \in k : RequestInv(r, Accepted(p), k, e)
BY DEF NewCall, Failed, Accepted, CallType, RequestInv

\* What may change beside a request without touching what it knows.
LEMMA OthersKeep ==
  ASSUME NEW r, NEW c, NEW k1, NEW k2, NEW e1, NEW e2,
         RequestInv(r, c, k1, e1), k1 \subseteq k2, \A q \in Pairs : e1[q] # "none" => e2[q] # "none",
         c \in CallType, r.campaign \in Campaigns
  PROVE  RequestInv(r, c, k2, e2)
BY DEF RequestInv, CallType, Pairs

\* The active contacts after one enrollment has become active, or others have ceased to be.
LEMMA ActiveGrows ==
  ASSUME NEW q \in Pairs, enrollment \in [Pairs -> {"none", "active", "aged", "paused", "removed", "completed"}],
         NEW s, enrollment' = [enrollment EXCEPT ![q] = s]
  PROVE  /\ ActiveContacts' \subseteq ActiveContacts \cup {q[1]}
         /\ s # "active" => ActiveContacts' \subseteq ActiveContacts
<1>1. ASSUME NEW p \in Persons, NEW c \in Campaigns, enrollment'[<<p, c>>] = "active"
      PROVE  enrollment[<<p, c>>] = "active" \/ (s = "active" /\ p = q[1])
  <2>1. <<p, c>> \in Pairs
    BY DEF Pairs
  <2>2. CASE <<p, c>> = q
    BY <1>1, <2>1, <2>2
  <2>3. CASE <<p, c>> # q
    BY <1>1, <2>1, <2>3
  <2> QED
    BY <2>2, <2>3
<1> QED
  BY <1>1 DEF ActiveContacts

\* What TypeOK says of the calls.
CallsTyped(calls) == \A s \in Requests :
  /\ calls[s].pc \in {"new", "received", "matched", "looked", "allowed", "collided", "done"}
  /\ calls[s].person \in Persons \cup {NoPerson}
  /\ calls[s].answer \in {"none", "accepted", "failed"}

LEMMA CallShape == \A calls \in [Requests -> CallType] : CallsTyped(calls)
BY DEF CallsTyped, CallType

\* An event on record keeps its person and the enrollment made for it.
LEMMA RecordsKeep ==
  ASSUME TypeInv, UNCHANGED recorded, known \subseteq known',
         \A q \in Pairs : enrollment[q] # "none" => enrollment'[q] # "none"
  PROVE  \A v \in Events : recorded'[v] # NoEvent =>
           recorded'[v].person \in known' /\ enrollment'[<<recorded'[v].person, recorded'[v].campaign>>] # "none"
<1> SUFFICES ASSUME NEW v \in Events, recorded[v] # NoEvent
             PROVE  recorded[v].person \in known' /\ enrollment'[<<recorded[v].person, recorded[v].campaign>>] # "none"
  OBVIOUS
<1>1. recorded[v] \in RecordType
  BY DEF TypeInv
<1>2. <<recorded[v].person, recorded[v].campaign>> \in Pairs
  BY <1>1 DEF RecordType, Pairs
<1> QED
  BY <1>2 DEF TypeInv, TypeOK

\* A request's step leaves the other requests' calls what they know, and has its own known.
LEMMA CallStep ==
  ASSUME TypeInv, NEW r \in Requests, NEW to \in CallType, Step(r, to), RequestInv(r, to, known', enrollment'),
         known \subseteq known', \A q \in Pairs : enrollment[q] # "none" => enrollment'[q] # "none"
  PROVE  /\ call' \in [Requests -> CallType]
         /\ \A s \in Requests : RequestInv(s, call'[s], known', enrollment')
<1>1. call' \in [Requests -> CallType] /\ call'[r] = to /\ \A s \in Requests : s # r => call'[s] = call[s]
  BY DEF Step, TypeInv
<1>2. ASSUME NEW s \in Requests PROVE RequestInv(s, call'[s], known', enrollment')
  <2>1. CASE s = r
    BY <1>1, <2>1
  <2>2. CASE s # r
    <3>1. RequestInv(s, call[s], known, enrollment) /\ call[s] \in CallType /\ s.campaign \in Campaigns
      BY RequestTypes DEF TypeInv
    <3> QED
      BY <1>1, <2>2, <3>1, OthersKeep
  <2> QED
    BY <2>1, <2>2
<1> QED
  BY <1>1, <1>2

\* A request's step that only reads.
LEMMA ReadingStep ==
  ASSUME TypeInv, NEW r \in Requests, NEW to \in CallType, Step(r, to), OnlyCall, UNCHANGED billing,
         RequestInv(r, to, known, enrollment)
  PROVE  TypeInv'
<1>1. UNCHANGED <<known, inactive, owner, optedOut, enrollment, archived, keyRotated, recorded, changes>>
  BY DEF OnlyCall
<1>2. call' \in [Requests -> CallType] /\ \A s \in Requests : RequestInv(s, call'[s], known', enrollment')
  BY <1>1, CallStep
<1>3. BillingTypeOK'
  BY DEF TypeInv, TypeOK, BillingTypeOK, billing
<1>4. ActiveContacts' = ActiveContacts
  BY <1>1 DEF ActiveContacts
<1>5. CallsTyped(call')
  BY <1>2, CallShape
<1>6. TypeOK'
  BY <1>1, <1>3, <1>5 DEF TypeInv, TypeOK, CallsTyped
<1> QED
  BY <1>1, <1>2, <1>4, <1>6 DEF TypeInv

\* What createForTenant has read up to the count.
LEMMA LookedTypes ==
  ASSUME TypeInv, NEW r \in Requests, NEW person \in Persons, call[r].answer = "none"
  PROVE  Looked(r, person) \in CallType /\ RequestInv(r, Looked(r, person), known, enrollment)
<1> DEFINE count == IF person \in ActiveContacts THEN Exempt ELSE Cardinality(ActiveContacts)
           found == [call[r] EXCEPT !.pc = "looked", !.person = person,
                                    !.existing = enrollment[<<person, r.campaign>>], !.count = count]
<1>1. count \in Int
  BY FS_CardinalityType DEF TypeInv, Exempt
<1>2. Looked(r, person) = Failed
      \/ /\ Looked(r, person) = found
         /\ person \in known /\ enrollment[<<person, r.campaign>>] \in {"none", "removed"}
  BY DEF Looked
<1>3. call[r] \in CallType
  BY DEF TypeInv
<1> HIDE DEF count
<1>4. ASSUME person \in known, enrollment[<<person, r.campaign>>] \in {"none", "removed"}
      PROVE  found \in CallType /\ RequestInv(r, found, known, enrollment)
  <2>1. /\ found.pc = "looked" /\ found.person = person /\ found.answer = "none"
        /\ found.existing = enrollment[<<person, r.campaign>>] /\ found \in CallType
    BY <1>1, <1>3, <1>4 DEF CallType
  <2>2. person # NoPerson
    BY ContactAssumptions
  <2> HIDE DEF found
  <2> QED
    BY <1>4, <2>1, <2>2 DEF RequestInv
<1> QED
  BY <1>2, <1>4, AnswerTypes

\* A repeated event is answered with the person on record.
LEMMA ReplayTypes ==
  ASSUME TypeInv, NEW r \in Requests, r.kind = "intake", recorded[r.event] # NoEvent, Replay(r), UNCHANGED billing
  PROVE  TypeInv'
<1>1. recorded[r.event].person \in known /\ recorded[r.event].person \in Persons
  BY RequestTypes DEF TypeInv, TypeOK
<1> DEFINE to == IF PayloadOf(recorded[r.event]) = Payload(r) THEN Accepted(recorded[r.event].person) ELSE Failed
<1>2. to \in CallType /\ RequestInv(r, to, known, enrollment)
  BY <1>1, AnswerTypes
<1>3. Step(r, to) /\ OnlyCall
  BY DEF Replay
<1> HIDE DEF to
<1> QED
  BY <1>2, <1>3, ReadingStep

\* The reads of an administrator's request and of an intake, each with all that can come of it.
LEMMA EnrollTypes == ASSUME TypeInv, NEW r \in Requests, Enroll(r), UNCHANGED billing PROVE TypeInv'
<1>1. call[r].answer = "none" /\ r.person \in Persons
  BY RequestTypes DEF Enroll, Begins, TypeInv, RequestInv
<1> QED
  BY <1>1, LookedTypes, ReadingStep DEF Enroll

LEMMA CheckLimitTypes == ASSUME TypeInv, NEW r \in Requests, CheckLimit(r), UNCHANGED billing PROVE TypeInv'
<1> DEFINE to == [call[r] EXCEPT !.pc = "allowed"]
<1>1. call[r] \in CallType /\ RequestInv(r, call[r], known, enrollment) /\ call[r].pc = "looked"
  BY DEF TypeInv, CheckLimit
<1>2. /\ to \in CallType /\ to.pc = "allowed" /\ to.answer = call[r].answer
      /\ to.person = call[r].person /\ to.existing = call[r].existing
  BY <1>1 DEF CallType
<1>3. (Step(r, to) \/ Step(r, Failed)) /\ OnlyCall
  BY DEF CheckLimit
<1> HIDE DEF to
<1>4. RequestInv(r, to, known, enrollment)
  BY <1>1, <1>2 DEF RequestInv
<1> QED
  BY <1>2, <1>3, <1>4, AnswerTypes, ReadingStep

LEMMA ReceiveTypes == ASSUME TypeInv, NEW r \in Requests, Receive(r), UNCHANGED billing PROVE TypeInv'
<1> DEFINE to == [call[r] EXCEPT !.pc = "received"]
<1>1. call[r] \in CallType /\ RequestInv(r, call[r], known, enrollment) /\ call[r].pc = "new" /\ r.kind = "intake"
  BY DEF TypeInv, Receive, Begins
<1>2. /\ to \in CallType /\ to.pc = "received" /\ to.answer = call[r].answer
      /\ to.person = call[r].person /\ to.existing = call[r].existing
  BY <1>1 DEF CallType
<1>3. \/ (Step(r, to) \/ Step(r, Failed)) /\ OnlyCall
      \/ recorded[r.event] # NoEvent /\ Replay(r)
  BY DEF Receive
<1>4. call[r].person = NoPerson
  BY <1>1 DEF RequestInv
<1> HIDE DEF to
<1>5. RequestInv(r, to, known, enrollment)
  BY <1>1, <1>2, <1>4 DEF RequestInv
<1> QED
  BY <1>1, <1>2, <1>3, <1>5, AnswerTypes, ReadingStep, ReplayTypes

LEMMA MatchTypes == ASSUME TypeInv, NEW r \in Requests, Match(r), UNCHANGED billing PROVE TypeInv'
<1> DEFINE person == IF Matches(r) = {} THEN NoPerson ELSE CHOOSE p \in Matches(r) : TRUE
           to == [call[r] EXCEPT !.pc = "matched", !.person = person]
<1>1. call[r] \in CallType /\ RequestInv(r, call[r], known, enrollment) /\ call[r].pc = "received"
  BY DEF TypeInv, Match
<1>2. r.kind = "intake" /\ r.addresses \subseteq Addresses
  BY <1>1, RequestTypes DEF RequestInv
<1>3. Matches(r) \subseteq known /\ known \subseteq Persons
  BY <1>2 DEF Matches, TypeInv, TypeOK
<1>4. person \in known \/ person = NoPerson
  BY <1>3
<1>5. \/ (Step(r, to) \/ Step(r, Failed)) /\ OnlyCall
      \/ recorded[r.event] # NoEvent /\ Replay(r)
  BY DEF Match
<1> HIDE DEF person
<1>6. /\ to \in CallType /\ to.pc = "matched" /\ to.answer = call[r].answer
      /\ to.person = person /\ to.existing = call[r].existing
  BY <1>1, <1>3, <1>4 DEF CallType
<1> HIDE DEF to
<1>7. RequestInv(r, to, known, enrollment)
  BY <1>1, <1>2, <1>4, <1>6 DEF RequestInv
<1> QED
  BY <1>2, <1>5, <1>6, <1>7, AnswerTypes, ReadingStep, ReplayTypes

LEMMA LookForEnrollmentTypes == ASSUME TypeInv, NEW r \in Requests, LookForEnrollment(r), UNCHANGED billing PROVE TypeInv'
<1> DEFINE person == call[r].person
           status == IF person = NoPerson THEN "none" ELSE enrollment[<<person, r.campaign>>]
           there == [call[r] EXCEPT !.pc = "allowed", !.existing = status]
           new == [call[r] EXCEPT !.pc = "looked", !.count = Cardinality(ActiveContacts)]
<1>1. call[r] \in CallType /\ RequestInv(r, call[r], known, enrollment) /\ call[r].pc = "matched"
  BY DEF TypeInv, LookForEnrollment
<1>2. r.kind = "intake" /\ call[r].answer = "none" /\ call[r].existing = "none"
  BY <1>1 DEF RequestInv
<1>3. /\ \/ Step(r, Failed)
         \/ status \in {"active", "aged"} /\ Step(r, there)
         \/ person = NoPerson /\ Step(r, new)
         \/ person # NoPerson /\ Step(r, Looked(r, person))
      /\ OnlyCall
  BY DEF LookForEnrollment
<1>4. CASE Step(r, Failed)
  BY <1>3, <1>4, AnswerTypes, ReadingStep
<1>5. CASE status \in {"active", "aged"} /\ Step(r, there)
  <2>1. person # NoPerson /\ enrollment[<<person, r.campaign>>] # "none"
    BY <1>5
  <2>2. /\ there \in CallType /\ there.pc = "allowed" /\ there.answer = call[r].answer
        /\ there.person = person /\ there.existing \in {"active", "aged"}
    BY <1>1, <1>5 DEF CallType
  <2> HIDE DEF there
  <2>3. RequestInv(r, there, known, enrollment)
    BY <1>1, <1>2, <2>1, <2>2 DEF RequestInv
  <2> QED
    BY <1>3, <1>5, <2>2, <2>3, ReadingStep
<1>6. CASE person = NoPerson /\ Step(r, new)
  <2>1. Cardinality(ActiveContacts) \in Int
    BY FS_CardinalityType DEF TypeInv
  <2>2. /\ new \in CallType /\ new.pc = "looked" /\ new.answer = call[r].answer
        /\ new.person = person /\ new.existing = "none"
    BY <1>1, <1>2, <2>1 DEF CallType
  <2> HIDE DEF new
  <2>3. RequestInv(r, new, known, enrollment)
    BY <1>1, <1>2, <1>6, <2>2 DEF RequestInv
  <2> QED
    BY <1>3, <1>6, <2>2, <2>3, ReadingStep
<1>7. CASE person # NoPerson /\ Step(r, Looked(r, person))
  <2>1. person \in Persons
    BY <1>1, <1>7 DEF CallType
  <2> QED
    BY <1>2, <1>3, <1>7, <2>1, LookedTypes, ReadingStep
<1> QED
  BY <1>3, <1>4, <1>5, <1>6, <1>7

LEMMA AfterCollisionTypes == ASSUME TypeInv, NEW r \in Requests, AfterCollision(r), UNCHANGED billing PROVE TypeInv'
<1>1. r.kind = "intake"
  BY DEF TypeInv, AfterCollision, RequestInv
<1> QED
  BY <1>1, AnswerTypes, ReadingStep, ReplayTypes DEF AfterCollision

\* The person an intake has matched, or one there is no row of.
MeantBy(r, person) ==
  \/ call[r].person = person /\ person \in known
  \/ call[r].person = NoPerson /\ person \notin known

\* A commit writes nothing, or all of it, for the person it has matched or one there was no row of.
LEMMA CommitCases ==
  ASSUME TypeInv, NEW r \in Requests, Commit(r)
  PROVE  \/ OnlyCall /\ Step(r, [call[r] EXCEPT !.pc = "collided"])
         \/ \E person \in Persons :
              /\ MeantBy(r, person)
              /\ ~Collides(r, person)
              /\ known' = known \cup {person}
              /\ owner' = [a \in Addresses |-> IF a \in r.addresses THEN person ELSE owner[a]]
              /\ enrollment' = [enrollment EXCEPT ![<<person, r.campaign>>] =
                   IF call[r].existing \in {"none", "removed"} THEN "active" ELSE enrollment[<<person, r.campaign>>]]
              /\ recorded' = [recorded EXCEPT ![r.event] =
                   [addresses |-> r.addresses, campaign |-> r.campaign, person |-> person]]
              /\ Step(r, Accepted(person))
              /\ UNCHANGED <<inactive, optedOut, archived, keyRotated, changes>>
<1> DEFINE person == IF call[r].person # NoPerson THEN call[r].person ELSE CHOOSE p \in Persons : p \notin known
<1>1. call[r] \in CallType /\ RequestInv(r, call[r], known, enrollment) /\ call[r].pc = "allowed"
  BY DEF TypeInv, Commit
<1>2. /\ person \in Persons
      /\ MeantBy(r, person)
  <2>1. CASE call[r].person # NoPerson
    BY <1>1, <2>1 DEF RequestInv, CallType, MeantBy
  <2>2. CASE call[r].person = NoPerson
    <3>1. \E p \in Persons : p \notin known
      BY <2>2 DEF Commit, TypeInv, TypeOK
    <3> QED
      BY <2>2, <3>1 DEF MeantBy
  <2> QED
    BY <2>1, <2>2
<1>3. UNCHANGED <<inactive, optedOut, archived, keyRotated, changes>> /\ known' = KnownAfter(r, person)
  BY DEF Commit
<1>4. CASE Collides(r, person)
  BY <1>3, <1>4 DEF Commit, KnownAfter, OnlyCall
<1>5. CASE ~Collides(r, person)
  <2>1. /\ owner' = [a \in Addresses |-> IF a \in r.addresses THEN person ELSE owner[a]]
        /\ enrollment' = [enrollment EXCEPT ![<<person, r.campaign>>] =
             IF call[r].existing \in {"none", "removed"} THEN "active" ELSE enrollment[<<person, r.campaign>>]]
        /\ recorded' = [recorded EXCEPT ![r.event] =
             [addresses |-> r.addresses, campaign |-> r.campaign, person |-> person]]
        /\ Step(r, Accepted(person))
    BY <1>5 DEF Commit
  <2>2. known' = known \cup {person}
    BY <1>3, <1>5 DEF KnownAfter
  <2> HIDE DEF person
  <2> QED
    BY <1>2, <1>3, <1>5, <2>1, <2>2
<1> QED
  BY <1>4, <1>5

\* One enrollment is written: it stays one, and the others are as they were.
LEMMA EnrollmentWritten ==
  ASSUME TypeInv, NEW q \in Pairs, q[1] \in known', known \subseteq known',
         NEW s \in {"active", "aged", "paused", "removed", "completed"}, enrollment' = [enrollment EXCEPT ![q] = s]
  PROVE  /\ enrollment' \in [Pairs -> {"none", "active", "aged", "paused", "removed", "completed"}]
         /\ \A x \in Pairs : enrollment'[x] # "none" => x[1] \in known'
         /\ \A x \in Pairs : enrollment[x] # "none" => enrollment'[x] # "none"
         /\ enrollment'[q] = s
         /\ IsFiniteSet(ActiveContacts')
<1>1. enrollment \in [Pairs -> {"none", "active", "aged", "paused", "removed", "completed"}]
  BY DEF TypeInv, TypeOK
<1>2. ActiveContacts' \subseteq ActiveContacts \cup {q[1]}
  BY <1>1, ActiveGrows
<1>3. IsFiniteSet(ActiveContacts \cup {q[1]})
  BY FS_AddElement DEF TypeInv
<1>4. IsFiniteSet(ActiveContacts')
  BY <1>2, <1>3, FS_Subset
<1> QED
  BY <1>1, <1>4 DEF TypeInv, TypeOK

\* The write of an administrator's request.
LEMMA WriteEnrollmentTypes == ASSUME TypeInv, NEW r \in Requests, WriteEnrollment(r), UNCHANGED billing PROVE TypeInv'
<1> DEFINE q == <<call[r].person, r.campaign>>
<1>1. call[r] \in CallType /\ RequestInv(r, call[r], known, enrollment) /\ call[r].pc = "allowed" /\ r.kind = "enroll"
  BY DEF TypeInv, WriteEnrollment
<1>2. q \in Pairs /\ q[1] = call[r].person /\ call[r].person \in Persons /\ call[r].person \in known
  BY <1>1, RequestTypes DEF RequestInv, CallType, Pairs
<1>3. UNCHANGED <<known, inactive, owner, optedOut, archived, keyRotated, recorded, changes, granted>>
  BY DEF WriteEnrollment
<1>4. CASE Step(r, Failed) /\ UNCHANGED enrollment
  BY <1>3, <1>4, AnswerTypes, ReadingStep DEF OnlyCall
<1>5. CASE Step(r, Accepted(q[1])) /\ enrollment' = [enrollment EXCEPT ![q] = "active"]
  <2> HIDE DEF q
  <2>1. /\ enrollment' \in [Pairs -> {"none", "active", "aged", "paused", "removed", "completed"}]
        /\ \A x \in Pairs : enrollment'[x] # "none" => x[1] \in known'
        /\ \A x \in Pairs : enrollment[x] # "none" => enrollment'[x] # "none"
        /\ IsFiniteSet(ActiveContacts')
    BY <1>2, <1>3, <1>5, EnrollmentWritten
  <2>2. Accepted(q[1]) \in CallType /\ RequestInv(r, Accepted(q[1]), known', enrollment')
    BY <1>2, <1>3, AnswerTypes
  <2>3. call' \in [Requests -> CallType] /\ \A s \in Requests : RequestInv(s, call'[s], known', enrollment')
    BY <1>3, <1>5, <2>1, <2>2, CallStep
  <2>4. CallsTyped(call')
    BY <2>3, CallShape
  <2>5. BillingTypeOK'
    BY DEF TypeInv, TypeOK, BillingTypeOK, billing
  <2>6. \A v \in Events : recorded'[v] # NoEvent =>
          recorded'[v].person \in known' /\ enrollment'[<<recorded'[v].person, recorded'[v].campaign>>] # "none"
    BY <1>3, <2>1, RecordsKeep
  <2>7. TypeOK'
    BY <1>3, <2>1, <2>4, <2>5, <2>6 DEF TypeInv, TypeOK, CallsTyped
  <2> QED
    BY <1>3, <2>1, <2>3, <2>7 DEF TypeInv
<1> QED
  BY <1>4, <1>5 DEF WriteEnrollment

LEMMA CommitTypes == ASSUME TypeInv, NEW r \in Requests, Commit(r), UNCHANGED billing PROVE TypeInv'
<1>1. call[r] \in CallType /\ RequestInv(r, call[r], known, enrollment) /\ call[r].pc = "allowed" /\ r.kind = "intake"
  BY DEF TypeInv, Commit
<1>2. CASE OnlyCall /\ Step(r, [call[r] EXCEPT !.pc = "collided"])
  <2> DEFINE to == [call[r] EXCEPT !.pc = "collided"]
  <2>1. to \in CallType /\ to.pc = "collided" /\ to.answer = call[r].answer /\ to.person = call[r].person
    BY <1>1 DEF CallType
  <2>2. Step(r, to) /\ OnlyCall
    BY <1>2
  <2> HIDE DEF to
  <2>3. RequestInv(r, to, known, enrollment)
    BY <1>1, <2>1 DEF RequestInv
  <2> QED
    BY <2>1, <2>2, <2>3, ReadingStep
<1>3. ASSUME NEW person \in Persons, MeantBy(r, person), ~Collides(r, person),
             known' = known \cup {person},
             owner' = [a \in Addresses |-> IF a \in r.addresses THEN person ELSE owner[a]],
             enrollment' = [enrollment EXCEPT ![<<person, r.campaign>>] =
               IF call[r].existing \in {"none", "removed"} THEN "active" ELSE enrollment[<<person, r.campaign>>]],
             recorded' = [recorded EXCEPT ![r.event] =
               [addresses |-> r.addresses, campaign |-> r.campaign, person |-> person]],
             Step(r, Accepted(person)), UNCHANGED <<inactive, optedOut, archived, keyRotated, changes>>
      PROVE  TypeInv'
  <2> DEFINE q == <<person, r.campaign>>
             s == IF call[r].existing \in {"none", "removed"} THEN "active" ELSE enrollment[q]
             row == [addresses |-> r.addresses, campaign |-> r.campaign, person |-> person]
  <2>1. q \in Pairs /\ q[1] = person /\ r.event \in Events /\ r.addresses \subseteq Addresses /\ row \in RecordType
    BY <1>1, RequestTypes DEF Pairs, RecordType
  <2>2. row.person = person /\ row.campaign = r.campaign
    OBVIOUS
  <2>3. s \in {"active", "aged", "paused", "removed", "completed"}
    <3>1. CASE call[r].existing \in {"none", "removed"}
      BY <3>1
    <3>2. CASE call[r].existing \notin {"none", "removed"}
      <4>1. call[r].person = person /\ enrollment[q] # "none"
        BY <1>1, <1>3, <3>2 DEF RequestInv, MeantBy
      <4>2. enrollment[q] \in {"none", "active", "aged", "paused", "removed", "completed"}
        BY <2>1 DEF TypeInv, TypeOK
      <4> QED
        BY <3>2, <4>1, <4>2
    <3> QED
      BY <3>1, <3>2
  <2>4. enrollment' = [enrollment EXCEPT ![q] = s] /\ recorded' = [recorded EXCEPT ![r.event] = row]
    BY <1>3
  <2> HIDE DEF q, s, row
  <2>5. /\ enrollment' \in [Pairs -> {"none", "active", "aged", "paused", "removed", "completed"}]
        /\ \A x \in Pairs : enrollment'[x] # "none" => x[1] \in known'
        /\ \A x \in Pairs : enrollment[x] # "none" => enrollment'[x] # "none"
        /\ enrollment'[q] # "none"
        /\ IsFiniteSet(ActiveContacts')
    BY <1>3, <2>1, <2>3, <2>4, EnrollmentWritten
  <2>6. call' \in [Requests -> CallType] /\ \A t \in Requests : RequestInv(t, call'[t], known', enrollment')
    BY <1>3, <2>5, AnswerTypes, CallStep
  <2>7. CallsTyped(call')
    BY <2>6, CallShape
  <2>8. BillingTypeOK'
    BY DEF TypeInv, TypeOK, BillingTypeOK, billing
  <2>9. recorded' \in [Events -> RecordType \cup {NoEvent}] /\ recorded'[r.event] = row
        /\ \A v \in Events : v # r.event => recorded'[v] = recorded[v]
    BY <2>1, <2>4 DEF TypeInv
  <2>10. \A v \in Events : recorded'[v] # NoEvent =>
          recorded'[v].person \in known' /\ enrollment'[<<recorded'[v].person, recorded'[v].campaign>>] # "none"
    <3> SUFFICES ASSUME NEW v \in Events, recorded'[v] # NoEvent
                 PROVE  /\ recorded'[v].person \in known'
                        /\ enrollment'[<<recorded'[v].person, recorded'[v].campaign>>] # "none"
      OBVIOUS
    <3>1. CASE v = r.event
      BY <1>3, <2>2, <2>5, <2>9, <3>1 DEF q
    <3>2. CASE v # r.event
      <4>1. recorded'[v] = recorded[v] /\ recorded[v] \in RecordType
        BY <2>9, <3>2 DEF TypeInv
      <4>2. <<recorded[v].person, recorded[v].campaign>> \in Pairs
        BY <4>1 DEF RecordType, Pairs
      <4> QED
        BY <1>3, <2>5, <4>1, <4>2 DEF TypeInv, TypeOK
    <3> QED
      BY <3>1, <3>2
  <2>11. /\ known' \subseteq Persons /\ inactive' \subseteq known' /\ owner' \in [Addresses -> known' \cup {NoPerson}]
         /\ optedOut' \subseteq {a \in Addresses : owner'[a] # NoPerson}
    BY <1>3, <2>1, ContactAssumptions DEF TypeInv, TypeOK
  <2>12. archived' \subseteq Campaigns /\ keyRotated' \in BOOLEAN /\ changes' \in 0..MaxChanges
    BY <1>3 DEF TypeInv, TypeOK
  <2>13. TypeOK'
    BY <2>5, <2>7, <2>8, <2>10, <2>11, <2>12 DEF TypeOK, CallsTyped
  <2> QED
    BY <2>5, <2>6, <2>9, <2>13 DEF TypeInv
<1> QED
  BY <1>2, <1>3, CommitCases

\* What happens beside the requests: no person, channel or record comes or goes.
Beside ==
  \/ \E q \in Pairs : PauseEnrollment(q) \/ RemoveEnrollment(q) \/ CompleteEnrollment(q) \/ LeaveWindow(q)
  \/ \E a \in Addresses : OptOut(a)
  \/ \E p \in Persons : RequestDeletion(p)
  \/ \E c \in Campaigns : ArchiveCampaign(c)
  \/ RotateIntakeKey

LEMMA BesideKeeps ==
  ASSUME TypeInv, Beside
  PROVE  /\ UNCHANGED <<known, owner, recorded, call, granted>>
         /\ enrollment' \in [Pairs -> {"none", "active", "aged", "paused", "removed", "completed"}]
         /\ \A x \in Pairs : enrollment'[x] # "none" <=> enrollment[x] # "none"
         /\ ActiveContacts' \subseteq ActiveContacts
         /\ inactive' \subseteq known /\ optedOut' \subseteq {a \in Addresses : owner[a] # NoPerson}
         /\ archived' \subseteq Campaigns /\ keyRotated' \in BOOLEAN /\ changes' \in 0..MaxChanges
<1>0. /\ enrollment \in [Pairs -> {"none", "active", "aged", "paused", "removed", "completed"}]
      /\ inactive \subseteq known /\ optedOut \subseteq {a \in Addresses : owner[a] # NoPerson}
      /\ archived \subseteq Campaigns /\ keyRotated \in BOOLEAN /\ known \subseteq Persons
  BY DEF TypeInv, TypeOK
<1>1. changes' \in 0..MaxChanges
  <2>1. changes \in Nat /\ MaxChanges \in Nat /\ changes < MaxChanges /\ changes' = changes + 1
    BY ContactAssumptions DEF Beside, PauseEnrollment, RemoveEnrollment, CompleteEnrollment, LeaveWindow,
       MutateEnrollment, OptOut, RequestDeletion, ArchiveCampaign, RotateIntakeKey, Change, TypeInv, TypeOK
  <2> QED
    BY <2>1
<1>2. ASSUME NEW q \in Pairs, NEW s \in {"aged", "paused", "removed", "completed"}, MutateEnrollment(q, s)
      PROVE  /\ enrollment' \in [Pairs -> {"none", "active", "aged", "paused", "removed", "completed"}]
             /\ \A x \in Pairs : enrollment'[x] # "none" <=> enrollment[x] # "none"
             /\ ActiveContacts' \subseteq ActiveContacts
  <2>1. enrollment' = [enrollment EXCEPT ![q] = s] /\ enrollment[q] # "none"
    BY <1>2 DEF MutateEnrollment
  <2>2. ActiveContacts' \subseteq ActiveContacts
    BY <1>0, <2>1, ActiveGrows
  <2> QED
    BY <1>0, <2>1, <2>2
<1>3. ASSUME NEW q \in Pairs, NEW s \in {"aged", "paused", "removed", "completed"}, MutateEnrollment(q, s)
      PROVE  UNCHANGED <<known, owner, recorded, call, granted, inactive, optedOut, archived, keyRotated>>
  BY <1>3 DEF MutateEnrollment
<1>4. CASE \E q \in Pairs : PauseEnrollment(q) \/ RemoveEnrollment(q) \/ CompleteEnrollment(q) \/ LeaveWindow(q)
  <2>1. PICK q \in Pairs, s \in {"aged", "paused", "removed", "completed"} : MutateEnrollment(q, s)
    BY <1>4 DEF PauseEnrollment, RemoveEnrollment, CompleteEnrollment, LeaveWindow
  <2> QED
    BY <1>0, <1>1, <1>2, <1>3, <2>1
<1>5. ASSUME UNCHANGED enrollment PROVE ActiveContacts' \subseteq ActiveContacts
  BY <1>5 DEF ActiveContacts
<1>6. ASSUME NEW a \in Addresses, OptOut(a)
      PROVE  /\ UNCHANGED <<known, owner, recorded, call, granted, enrollment, inactive, archived, keyRotated>>
             /\ optedOut' \subseteq {b \in Addresses : owner[b] # NoPerson}
  BY <1>0, <1>6 DEF OptOut
<1>7. ASSUME NEW p \in Persons, RequestDeletion(p)
      PROVE  /\ UNCHANGED <<known, owner, recorded, call, granted, archived, keyRotated>>
             /\ inactive' \subseteq known /\ optedOut' \subseteq {b \in Addresses : owner[b] # NoPerson}
             /\ enrollment' \in [Pairs -> {"none", "active", "aged", "paused", "removed", "completed"}]
             /\ \A x \in Pairs : enrollment'[x] # "none" <=> enrollment[x] # "none"
             /\ ActiveContacts' \subseteq ActiveContacts
  <2>1. p # NoPerson
    BY ContactAssumptions
  <2>2. /\ UNCHANGED <<known, owner, recorded, call, granted, archived, keyRotated>>
        /\ inactive' = inactive \cup {p} /\ p \in known
        /\ optedOut' = optedOut \cup {a \in Addresses : owner[a] = p}
        /\ enrollment' = [q \in Pairs |->
             IF q[1] = p /\ enrollment[q] \in {"active", "aged"} THEN "removed" ELSE enrollment[q]]
    BY <1>7 DEF RequestDeletion
  <2>3. \A c \in Campaigns, x \in Persons : <<x, c>> \in Pairs
    BY DEF Pairs
  <2>4. /\ enrollment' \in [Pairs -> {"none", "active", "aged", "paused", "removed", "completed"}]
        /\ \A x \in Pairs : enrollment'[x] # "none" <=> enrollment[x] # "none"
        /\ \A x \in Pairs : enrollment'[x] = "active" => enrollment[x] = "active"
    BY <1>0, <2>2
  <2>5. ActiveContacts' \subseteq ActiveContacts
    BY <2>3, <2>4 DEF ActiveContacts
  <2> QED
    BY <1>0, <2>1, <2>2, <2>4, <2>5
<1>8. CASE \E c \in Campaigns : ArchiveCampaign(c)
  BY <1>0, <1>1, <1>5, <1>8 DEF ArchiveCampaign
<1>9. CASE RotateIntakeKey
  BY <1>0, <1>1, <1>5, <1>9 DEF RotateIntakeKey, RotateKey
<1> QED
  BY <1>0, <1>1, <1>4, <1>5, <1>6, <1>7, <1>8, <1>9 DEF Beside

LEMMA BesideTypes == ASSUME TypeInv, Beside, UNCHANGED billing PROVE TypeInv'
<1>1. BillingTypeOK'
  BY DEF TypeInv, TypeOK, BillingTypeOK, billing
<1>2. IsFiniteSet(ActiveContacts')
  BY BesideKeeps, FS_Subset DEF TypeInv
<1>3. \A r \in Requests : RequestInv(r, call[r], known, enrollment')
  <2> SUFFICES ASSUME NEW r \in Requests PROVE RequestInv(r, call[r], known, enrollment')
    OBVIOUS
  <2>1. RequestInv(r, call[r], known, enrollment) /\ call[r] \in CallType /\ r.campaign \in Campaigns
    BY RequestTypes DEF TypeInv
  <2> QED
    BY <2>1, BesideKeeps, OthersKeep
<1>4. \A v \in Events : recorded'[v] # NoEvent =>
        recorded'[v].person \in known' /\ enrollment'[<<recorded'[v].person, recorded'[v].campaign>>] # "none"
  BY BesideKeeps, RecordsKeep
<1>5. TypeOK'
  BY <1>1, <1>4, BesideKeeps DEF TypeInv, TypeOK
<1> QED
  BY <1>2, <1>3, <1>5, BesideKeeps DEF TypeInv

LEMMA SendAgainTypes == ASSUME TypeInv, NEW r \in Requests, SendAgain(r), UNCHANGED billing PROVE TypeInv'
<1>1. /\ UNCHANGED <<known, inactive, owner, optedOut, enrollment, archived, keyRotated, recorded>> /\ Step(r, NewCall)
      /\ changes < MaxChanges /\ changes' = changes + 1
  BY DEF SendAgain, Change
<1>2. call' \in [Requests -> CallType] /\ \A s \in Requests : RequestInv(s, call'[s], known', enrollment')
  BY <1>1, AnswerTypes, CallStep
<1>3. BillingTypeOK'
  BY DEF TypeInv, TypeOK, BillingTypeOK, billing
<1>4. changes' \in 0..MaxChanges
  <2>1. changes \in Nat /\ MaxChanges \in Nat
    BY ContactAssumptions DEF TypeInv, TypeOK
  <2> QED
    BY <1>1, <2>1
<1>5. ActiveContacts' = ActiveContacts
  BY <1>1 DEF ActiveContacts
<1>6. TypeOK'
  BY <1>1, <1>2, <1>3, <1>4, CallShape DEF TypeInv, TypeOK, CallsTyped
<1> QED
  BY <1>1, <1>2, <1>5, <1>6 DEF TypeInv

\* The steps of Contacts: billing's own, a request's, a repeated event, and what happens beside.
LEMMA ContactsSteps ==
  ASSUME [Next]_vars
  PROVE  \/ [BillingNext]_billing /\ UNCHANGED contacts
         \/ /\ \/ \E r \in Requests : Serve(r) \/ SendAgain(r)
               \/ Beside
            /\ UNCHANGED billing
BY DEF Next, vars, contacts, billing, Beside

LEMMA ContactsTypeStep == TypeInv /\ [Next]_vars => TypeInv'
<1> SUFFICES ASSUME TypeInv, [Next]_vars PROVE TypeInv'
  OBVIOUS
<1>1. CASE [BillingNext]_billing /\ UNCHANGED contacts
  <2>1. BillingTypeOK'
    BY <1>1, BillingTypeStep DEF TypeInv, TypeOK
  <2>2. ActiveContacts' = ActiveContacts
    BY <1>1 DEF contacts, ActiveContacts
  <2> QED
    BY <1>1, <2>1, <2>2 DEF contacts, TypeInv, TypeOK
<1>2. ASSUME NEW r \in Requests, Serve(r), UNCHANGED billing PROVE TypeInv'
  BY <1>2, EnrollTypes, CheckLimitTypes, WriteEnrollmentTypes, ReceiveTypes, MatchTypes, LookForEnrollmentTypes,
     CommitTypes, AfterCollisionTypes DEF Serve
<1> QED
  BY <1>1, <1>2, BesideTypes, SendAgainTypes, ContactsSteps

LEMMA ContactsTypeInit == Init => TypeInv
<1> SUFFICES ASSUME Init PROVE TypeInv
  OBVIOUS
<1>1. BillingTypeOK
  BY BillingTypeInit DEF Init
<1>2. /\ owner = FirstOwner /\ known = {FirstOwner[a] : a \in Addresses} \ {NoPerson}
      /\ inactive = {} /\ optedOut = {} /\ archived = {} /\ enrollment = [q \in Pairs |-> "none"]
      /\ keyRotated = FALSE /\ recorded = [v \in Events |-> NoEvent] /\ call = [r \in Requests |-> NewCall]
      /\ changes = 0
  BY DEF Init
<1>3. known \subseteq Persons /\ owner \in [Addresses -> known \cup {NoPerson}] /\ changes \in 0..MaxChanges
  BY <1>2, ContactAssumptions
<1>4. call \in [Requests -> CallType] /\ \A r \in Requests : RequestInv(r, call[r], known, enrollment)
  BY <1>2, AnswerTypes
<1>5. ActiveContacts = {}
  <2>1. \A p \in Persons, c \in Campaigns : <<p, c>> \in Pairs
    BY DEF Pairs
  <2> QED
    BY <1>2, <2>1 DEF ActiveContacts
<1>6. TypeOK
  BY <1>1, <1>2, <1>3, <1>4, CallShape DEF TypeOK, CallsTyped
<1> QED
  BY <1>2, <1>4, <1>5, <1>6, FS_EmptySet DEF TypeInv

\* Every variable keeps its type: an enrollment is of a person with a row, an event on record
\* has its person and an enrollment, and only channels that somebody owns are opted out.
THEOREM ContactsTyping == Spec => []TypeOK
<1>1. TypeInv => TypeOK
  BY DEF TypeInv
<1> QED
  BY <1>1, ContactsTypeInit, ContactsTypeStep, PTL DEF Spec

----------------------------------------------------------------------------
(* People and events.  The unique keys make that an address keeps its owner   *)
(* and an event its row; only a commit makes a person, and not without both.  *)

\* Whether a person is accounted for by the addresses and events there are.
Accounted(p, owners, records) ==
  \/ \E a \in Addresses : FirstOwner[a] = p
  \/ /\ \E a \in Addresses : owners[a] = p
     /\ \E v \in Events : records[v].person = p

\* What no step takes back, and the only step that brings a person.
LEMMA ContactsKeep ==
  ASSUME TypeInv, [Next]_vars
  PROVE  /\ \A a \in Addresses : owner[a] # NoPerson => owner'[a] = owner[a]
         /\ \A v \in Events : recorded[v] # NoEvent => recorded'[v] = recorded[v]
         /\ \A p \in known' : p \in known \/ Accounted(p, owner', recorded')
<1>1. CASE [BillingNext]_billing /\ UNCHANGED contacts
  BY <1>1 DEF contacts
<1>2. CASE Beside
  BY <1>2, BesideKeeps
<1>3. ASSUME NEW r \in Requests, Replay(r) PROVE UNCHANGED <<known, owner, recorded>>
  BY <1>3 DEF Replay, OnlyCall
<1>4. ASSUME NEW r \in Requests,
             \/ Enroll(r) \/ CheckLimit(r) \/ Receive(r) \/ Match(r) \/ LookForEnrollment(r) \/ AfterCollision(r)
             \/ WriteEnrollment(r) \/ SendAgain(r)
      PROVE  UNCHANGED <<known, owner, recorded>>
  BY <1>3, <1>4 DEF Enroll, CheckLimit, Receive, Match, LookForEnrollment, AfterCollision, WriteEnrollment, SendAgain, OnlyCall
<1>5. ASSUME NEW r \in Requests, Commit(r), ~UNCHANGED <<known, owner, recorded>>
      PROVE  /\ \A a \in Addresses : owner[a] # NoPerson => owner'[a] = owner[a]
             /\ \A v \in Events : recorded[v] # NoEvent => recorded'[v] = recorded[v]
             /\ \A p \in known' : p \in known \/ Accounted(p, owner', recorded')
  <2>1. r.event \in Events /\ r.addresses \subseteq Addresses /\ r.addresses # {}
    <3>1. r.kind = "intake"
      BY <1>5 DEF Commit
    <3> QED
      BY <3>1, RequestTypes
  <2>2. PICK person \in Persons :
          /\ ~Collides(r, person) /\ known' = known \cup {person}
          /\ owner' = [a \in Addresses |-> IF a \in r.addresses THEN person ELSE owner[a]]
          /\ recorded' = [recorded EXCEPT ![r.event] =
               [addresses |-> r.addresses, campaign |-> r.campaign, person |-> person]]
    BY <1>5, CommitCases DEF OnlyCall
  <2>3. recorded[r.event] = NoEvent /\ \A a \in r.addresses : owner[a] \in {NoPerson, person}
    BY <2>2 DEF Collides
  <2>4. recorded'[r.event].person = person /\ \A v \in Events : v # r.event => recorded'[v] = recorded[v]
    BY <2>1, <2>2 DEF TypeInv
  <2>5. PICK b \in r.addresses : TRUE
    BY <2>1
  <2>6. Accounted(person, owner', recorded')
    BY <2>1, <2>2, <2>4, <2>5 DEF Accounted
  <2> QED
    BY <2>1, <2>2, <2>3, <2>4, <2>6
<1> QED
  BY <1>1, <1>2, <1>4, <1>5, ContactsSteps DEF Serve

LEMMA AccountedStays ==
  ASSUME TypeInv, [Next]_vars, NEW p \in Persons, Accounted(p, owner, recorded)
  PROVE  Accounted(p, owner', recorded')
<1>1. p # NoPerson
  BY ContactAssumptions
<1>2. \A a \in Addresses : owner[a] = p => owner'[a] = p
  BY <1>1, ContactsKeep
<1>3. \A v \in Events : recorded[v].person = p => recorded'[v].person = p
  <2>1. NoEvent.person = NoPerson
    BY DEF NoEvent
  <2> QED
    BY <1>1, <2>1, ContactsKeep
<1> QED
  BY <1>2, <1>3 DEF Accounted

\* An intake that fails leaves nobody behind, whatever it ran into: everybody there is was
\* there at first, or has both an address and an event.
THEOREM NobodyLeftBehind == Spec => []NoOrphans
<1>1. Init => NoOrphans
  BY DEF Init, NoOrphans
<1>2. TypeInv /\ NoOrphans /\ [Next]_vars => NoOrphans'
  <2> SUFFICES ASSUME TypeInv, NoOrphans, [Next]_vars, NEW p \in known'
               PROVE  Accounted(p, owner', recorded')
    BY DEF NoOrphans, Accounted
  <2>1. CASE p \in known
    <3>1. p \in Persons /\ Accounted(p, owner, recorded)
      BY <2>1 DEF TypeInv, TypeOK, NoOrphans, Accounted
    <3> QED
      BY <3>1, AccountedStays
  <2> QED
    BY <2>1, ContactsKeep
<1> QED
  BY <1>1, <1>2, ContactsTypeInit, ContactsTypeStep, PTL DEF Spec

\* Who is told that an intake was accepted is told the person on record for its event.
EffectInv == \A r \in Intakes : call[r].answer = "accepted" =>
  recorded[r.event] # NoEvent /\ call[r].person = recorded[r.event].person

\* A request is answered by a replay or by its commit; what it does before says nothing yet.
LEMMA AnswerComes ==
  ASSUME TypeInv, NEW r \in Intakes, Serve(r), call'[r].answer = "accepted"
  PROVE  recorded'[r.event] # NoEvent /\ call'[r].person = recorded'[r.event].person
<1>1. r \in Requests /\ r.kind = "intake" /\ r.event \in Events
  BY RequestTypes DEF Intakes
<1>2. call[r] \in CallType /\ (call[r].pc # "done" => call[r].answer = "none")
  BY <1>1 DEF TypeInv, RequestInv
<1>3. ASSUME Replay(r), recorded[r.event] # NoEvent
      PROVE  recorded'[r.event] # NoEvent /\ call'[r].person = recorded'[r.event].person
  <2>1. UNCHANGED recorded
    BY <1>3 DEF Replay, OnlyCall
  <2>2. Step(r, Accepted(recorded[r.event].person)) \/ Step(r, Failed)
    BY <1>3 DEF Replay
  <2>3. call'[r] = Accepted(recorded[r.event].person) \/ call'[r] = Failed
    BY <1>1, <2>2 DEF Step, TypeInv
  <2> QED
    BY <1>3, <2>1, <2>3 DEF Accepted, Failed
<1>4. CASE Enroll(r) \/ WriteEnrollment(r)
  BY <1>1, <1>4 DEF Enroll, WriteEnrollment
<1>5. CASE CheckLimit(r) \/ LookForEnrollment(r)
  <2>1. call[r].answer = "none"
    BY <1>2, <1>5 DEF CheckLimit, LookForEnrollment
  <2>2. \E to : Step(r, to) /\ to.answer # "accepted"
    <3>1. \A x : [call[r] EXCEPT !.pc = x].answer = "none"
      BY <1>2, <2>1 DEF CallType
    <3>2. \A x, y : [call[r] EXCEPT !.pc = x, !.existing = y].answer = "none"
      BY <1>2, <2>1 DEF CallType
    <3>3. \A x, y : [call[r] EXCEPT !.pc = x, !.count = y].answer = "none"
      BY <1>2, <2>1 DEF CallType
    <3>4. \A x, y, z, u : [call[r] EXCEPT !.pc = x, !.person = y, !.existing = z, !.count = u].answer = "none"
      BY <1>2, <2>1 DEF CallType
    <3>5. Failed.answer = "failed"
      BY DEF Failed
    <3>6. \A person : Looked(r, person).answer # "accepted"
      BY <3>4, <3>5 DEF Looked
    <3> QED
      BY <1>5, <3>1, <3>2, <3>3, <3>5, <3>6 DEF CheckLimit, LookForEnrollment
  <2> QED
    BY <1>1, <2>2 DEF Step, TypeInv
<1>6. CASE Receive(r) \/ Match(r) \/ AfterCollision(r)
  <2>1. call[r].answer = "none"
    BY <1>2, <1>6 DEF Receive, Begins, Match, AfterCollision
  <2>2. \/ Replay(r) /\ recorded[r.event] # NoEvent
        \/ \E to : Step(r, to) /\ to.answer # "accepted"
    <3>1. \A x : [call[r] EXCEPT !.pc = x].answer = "none"
      BY <1>2, <2>1 DEF CallType
    <3>2. \A x, y : [call[r] EXCEPT !.pc = x, !.person = y].answer = "none"
      BY <1>2, <2>1 DEF CallType
    <3>3. Failed.answer = "failed"
      BY DEF Failed
    <3> QED
      BY <1>6, <3>1, <3>2, <3>3 DEF Receive, Match, AfterCollision
  <2> QED
    BY <1>1, <1>3, <2>2 DEF Step, TypeInv
<1>7. CASE Commit(r)
  <2>1. CASE Step(r, [call[r] EXCEPT !.pc = "collided"])
    <3>1. call[r].answer = "none"
      BY <1>2, <1>7 DEF Commit
    <3>2. [call[r] EXCEPT !.pc = "collided"].answer = "none"
      BY <1>2, <3>1 DEF CallType
    <3>3. call'[r] = [call[r] EXCEPT !.pc = "collided"]
      BY <1>1, <2>1 DEF Step, TypeInv
    <3> QED
      BY <3>2, <3>3
  <2>2. ASSUME NEW person \in Persons, Step(r, Accepted(person)),
               recorded' = [recorded EXCEPT ![r.event] =
                 [addresses |-> r.addresses, campaign |-> r.campaign, person |-> person]]
        PROVE  recorded'[r.event] # NoEvent /\ call'[r].person = recorded'[r.event].person
    <3>1. call'[r] = Accepted(person)
      BY <1>1, <2>2 DEF Step, TypeInv
    <3>2. recorded'[r.event] = [addresses |-> r.addresses, campaign |-> r.campaign, person |-> person]
      BY <1>1, <2>2 DEF TypeInv
    <3>3. r.addresses # {}
      BY <1>1, RequestTypes
    <3> QED
      BY <3>1, <3>2, <3>3 DEF Accepted, NoEvent
  <2> QED
    BY <1>1, <1>7, <2>1, <2>2, CommitCases
<1> QED
  BY <1>4, <1>5, <1>6, <1>7 DEF Serve

\* A step is of one request: what the others were answered stays.
LEMMA OthersStay ==
  ASSUME TypeInv, NEW r \in Requests, Serve(r) \/ SendAgain(r)
  PROVE  \A s \in Requests : s # r => call'[s] = call[s]
<1>1. \E to : Step(r, to)
  <2>1. CASE Commit(r)
    BY <2>1, CommitCases
  <2> QED
    BY <2>1 DEF Serve, SendAgain, Enroll, CheckLimit, WriteEnrollment, Receive, Match, LookForEnrollment,
       AfterCollision, Replay
<1> QED
  BY <1>1 DEF Step, TypeInv

\* Deliveries of an event may be repeated, overlap and collide: all that succeed name the one
\* person on record for it.
THEOREM OneEffect == Spec => []OneEffectPerEvent
<1>1. Init => EffectInv
  <2>1. NewCall.answer = "none"
    BY DEF NewCall
  <2> QED
    BY <2>1 DEF Init, EffectInv, Intakes
<1>2. TypeInv /\ EffectInv /\ [Next]_vars => EffectInv'
  <2> SUFFICES ASSUME TypeInv, EffectInv, [Next]_vars, NEW s \in Intakes, call'[s].answer = "accepted"
               PROVE  recorded'[s.event] # NoEvent /\ call'[s].person = recorded'[s.event].person
    BY DEF EffectInv
  <2>0. s \in Requests /\ s.event \in Events
    BY RequestTypes DEF Intakes
  <2>1. ASSUME call'[s] = call[s] PROVE recorded'[s.event] # NoEvent /\ call'[s].person = recorded'[s.event].person
    BY <2>0, <2>1, ContactsKeep DEF EffectInv
  <2>2. CASE (([BillingNext]_billing /\ UNCHANGED contacts) \/ Beside)
    BY <2>1, <2>2, BesideKeeps DEF contacts
  <2>3. ASSUME NEW r \in Requests, Serve(r) \/ SendAgain(r)
        PROVE  recorded'[s.event] # NoEvent /\ call'[s].person = recorded'[s.event].person
    <3>1. CASE s # r
      BY <2>0, <2>1, <2>3, <3>1, OthersStay
    <3>2. CASE s = r /\ Serve(r)
      BY <3>2, AnswerComes
    <3>3. CASE s = r /\ SendAgain(r)
      BY <2>0, <3>3 DEF SendAgain, Step, NewCall, TypeInv
    <3> QED
      BY <2>3, <3>1, <3>2, <3>3
  <2> QED
    BY <2>2, <2>3, ContactsSteps
<1>3. EffectInv => OneEffectPerEvent
  BY DEF EffectInv, OneEffectPerEvent
<1> QED
  BY <1>1, <1>2, <1>3, ContactsTypeInit, ContactsTypeStep, PTL DEF Spec

----------------------------------------------------------------------------
(* The overrun.  For a limit k, the requests ahead of it are those that have  *)
(* passed the check and are to write, and those that would pass it, as they   *)
(* have counted less than k.  A count is taken when no more than              *)
(* MaxConcurrent requests are in progress, so that with all of them written   *)
(* the contacts are at most the count and MaxConcurrent; and only requests    *)
(* that were ahead of a limit already come to be beyond its check.  Requests  *)
(* for people still without a row are counted one by one.                     *)

Busy(calls) == {r \in Requests : calls[r].pc \notin {"new", "done"}}
Ahead(calls, k) == {r \in Requests :
  \/ calls[r].pc = "looked" /\ calls[r].count < k
  \/ calls[r].pc = "allowed" /\ calls[r].existing \in {"none", "removed"}}
Unborn(calls, k) == {r \in Ahead(calls, k) : calls[r].person = NoPerson}
PeopleOf(calls, S) == {calls[r].person : r \in S}
Foreseen(active, calls, k) == active \cup PeopleOf(calls, Ahead(calls, k) \ Unborn(calls, k))
Weight(active, calls, k) == Cardinality(Foreseen(active, calls, k)) + Cardinality(Unborn(calls, k))

CountInv ==
  /\ granted \in Nat
  /\ IsFiniteSet(Busy(call)) /\ Cardinality(Busy(call)) <= MaxConcurrent
  /\ \A k \in Nat : k >= granted => Weight(ActiveContacts, call, k) <= k + MaxConcurrent - 1

\* A set of requests names no more people than there are requests.
LEMMA PeopleCount ==
  ASSUME NEW calls, NEW S, IsFiniteSet(S)
  PROVE  IsFiniteSet(PeopleOf(calls, S)) /\ Cardinality(PeopleOf(calls, S)) <= Cardinality(S)
<1> DEFINE f == [r \in S |-> calls[r].person]
<1>1. f \in Surjection(S, PeopleOf(calls, S))
  BY DEF Surjection, PeopleOf
<1> QED
  BY <1>1, FS_Surjection

\* The sets that are weighed are finite, and weigh at most the contacts and the requests in progress.
LEMMA WeightOfBusy ==
  ASSUME NEW active, IsFiniteSet(active), NEW calls, IsFiniteSet(Busy(calls)), NEW k \in Nat
  PROVE  /\ IsFiniteSet(Foreseen(active, calls, k)) /\ IsFiniteSet(Unborn(calls, k))
         /\ Cardinality(Foreseen(active, calls, k)) \in Nat /\ Cardinality(Unborn(calls, k)) \in Nat
         /\ Weight(active, calls, k) \in Nat
         /\ Weight(active, calls, k) <= Cardinality(active) + Cardinality(Busy(calls))
<1> DEFINE U == Unborn(calls, k)
           N == Ahead(calls, k) \ U
<1>1. U \subseteq Busy(calls) /\ N \subseteq Busy(calls) /\ U \cap N = {}
  BY DEF Unborn, Ahead, Busy
<1>2. IsFiniteSet(U) /\ IsFiniteSet(N)
  BY <1>1, FS_Subset
<1>3. Cardinality(U \cup N) = Cardinality(U) + Cardinality(N) - Cardinality(U \cap N) /\ IsFiniteSet(U \cup N)
  BY <1>2, FS_Union
<1>4. Cardinality(U \cap N) = 0 /\ Cardinality(U) \in Nat /\ Cardinality(N) \in Nat
  BY <1>1, <1>2, FS_EmptySet, FS_CardinalityType
<1>5. Cardinality(U \cup N) <= Cardinality(Busy(calls)) /\ Cardinality(Busy(calls)) \in Nat
  BY <1>1, FS_Subset, FS_CardinalityType
<1> DEFINE P == PeopleOf(calls, N)
<1>6. IsFiniteSet(P) /\ Cardinality(P) <= Cardinality(N) /\ Cardinality(P) \in Nat
  BY <1>2, PeopleCount, FS_CardinalityType
<1>7. /\ IsFiniteSet(active \cup P)
      /\ Cardinality(active \cup P) = Cardinality(active) + Cardinality(P) - Cardinality(active \cap P)
  BY <1>6, FS_Union
<1>8. IsFiniteSet(active \cap P)
  BY FS_Subset
<1>9. Cardinality(active) \in Nat /\ Cardinality(active \cap P) \in Nat /\ Cardinality(active \cup P) \in Nat
  BY <1>7, <1>8, FS_CardinalityType
<1>10. Foreseen(active, calls, k) = active \cup P
  BY DEF Foreseen
<1> HIDE DEF U, N, P
<1>11. Cardinality(active \cup P) + Cardinality(U) <= Cardinality(active) + Cardinality(Busy(calls))
  BY <1>3, <1>4, <1>5, <1>6, <1>7, <1>9
<1> QED
  BY <1>2, <1>4, <1>7, <1>9, <1>10, <1>11 DEF Weight, U

\* Fewer people and requests to weigh weigh less.
LEMMA WeightShrinks ==
  ASSUME NEW a1, IsFiniteSet(a1), NEW c1, IsFiniteSet(Busy(c1)), NEW a2, NEW c2, NEW k \in Nat,
         Foreseen(a2, c2, k) \subseteq Foreseen(a1, c1, k), Unborn(c2, k) \subseteq Unborn(c1, k)
  PROVE  Weight(a2, c2, k) \in Nat /\ Weight(a1, c1, k) \in Nat /\ Weight(a2, c2, k) <= Weight(a1, c1, k)
<1>1. /\ IsFiniteSet(Foreseen(a1, c1, k)) /\ IsFiniteSet(Unborn(c1, k))
      /\ Cardinality(Foreseen(a1, c1, k)) \in Nat /\ Cardinality(Unborn(c1, k)) \in Nat
  BY WeightOfBusy
<1>2. Cardinality(Foreseen(a2, c2, k)) <= Cardinality(Foreseen(a1, c1, k)) /\ IsFiniteSet(Foreseen(a2, c2, k))
  BY <1>1, FS_Subset
<1>3. Cardinality(Unborn(c2, k)) <= Cardinality(Unborn(c1, k)) /\ IsFiniteSet(Unborn(c2, k))
  BY <1>1, FS_Subset
<1>4. Cardinality(Foreseen(a2, c2, k)) \in Nat /\ Cardinality(Unborn(c2, k)) \in Nat
  BY <1>2, <1>3, FS_CardinalityType
<1> QED
  BY <1>1, <1>2, <1>3, <1>4 DEF Weight

\* A request's step weighs nothing when it was ahead with the same person, or is for an active contact.
LEMMA StepShrinks ==
  ASSUME TypeInv, CountInv, NEW r \in Requests, \A s \in Requests : s # r => call'[s] = call[s],
         NEW k \in Nat, k >= granted,
         ActiveContacts' \subseteq Foreseen(ActiveContacts, call, k),
         r \in Ahead(call', k) => \/ r \in Ahead(call, k) /\ call'[r].person = call[r].person
                                  \/ call'[r].person \in ActiveContacts
  PROVE  Weight(ActiveContacts', call', k) <= k + MaxConcurrent - 1
<1>0. ActiveContacts \subseteq Persons /\ NoPerson \notin Persons
  BY ContactAssumptions DEF ActiveContacts
<1>1. Unborn(call', k) \subseteq Unborn(call, k)
  BY <1>0 DEF Unborn, Ahead
<1>2. ASSUME NEW s \in Ahead(call', k) \ Unborn(call', k) PROVE call'[s].person \in Foreseen(ActiveContacts, call, k)
  <2>1. s \in Requests /\ call'[s].person # NoPerson
    BY DEF Ahead, Unborn
  <2>2. CASE s # r
    <3>1. s \in Ahead(call, k) \ Unborn(call, k) /\ call'[s] = call[s]
      BY <2>1, <2>2 DEF Ahead, Unborn
    <3> QED
      BY <3>1 DEF Foreseen, PeopleOf
  <2>3. CASE s = r
    BY <2>1, <2>3 DEF Foreseen, PeopleOf, Unborn
  <2> QED
    BY <2>2, <2>3
<1>3. Foreseen(ActiveContacts', call', k) \subseteq Foreseen(ActiveContacts, call, k)
  BY <1>2 DEF Foreseen, PeopleOf
<1>4. IsFiniteSet(ActiveContacts) /\ IsFiniteSet(Busy(call))
  BY DEF TypeInv, CountInv
<1>5. /\ Weight(ActiveContacts', call', k) <= Weight(ActiveContacts, call, k)
      /\ Weight(ActiveContacts', call', k) \in Nat /\ Weight(ActiveContacts, call, k) \in Nat
  BY <1>1, <1>3, <1>4, WeightShrinks
<1>6. Weight(ActiveContacts, call, k) <= k + MaxConcurrent - 1
  BY DEF CountInv
<1> QED
  BY <1>5, <1>6, ContactAssumptions

\* A contact counted: with every request in progress written there would be no more than the
\* count and as many as may be in progress.
LEMMA CountedStep ==
  ASSUME TypeInv, CountInv, UNCHANGED ActiveContacts, IsFiniteSet(Busy(call')), Cardinality(Busy(call')) <= MaxConcurrent,
         NEW k \in Nat, Cardinality(ActiveContacts) < k
  PROVE  Weight(ActiveContacts', call', k) <= k + MaxConcurrent - 1
<1>1. /\ Weight(ActiveContacts', call', k) <= Cardinality(ActiveContacts') + Cardinality(Busy(call'))
      /\ Weight(ActiveContacts', call', k) \in Nat
  BY WeightOfBusy DEF TypeInv
<1>2. Cardinality(ActiveContacts) \in Nat /\ Cardinality(Busy(call')) \in Nat
  BY FS_CardinalityType DEF TypeInv
<1> QED
  BY <1>1, <1>2, ContactAssumptions

\* Only the beginning of a request takes a place.
LEMMA BusyStep ==
  ASSUME TypeInv, CountInv, NEW r \in Requests, \A s \in Requests : s # r => call'[s] = call[s],
         Begins(r) \/ call[r].pc \notin {"new", "done"} \/ call'[r].pc \in {"new", "done"}
  PROVE  IsFiniteSet(Busy(call')) /\ Cardinality(Busy(call')) <= MaxConcurrent
<1>1. IsFiniteSet(Busy(call)) /\ Cardinality(Busy(call)) <= MaxConcurrent /\ MaxConcurrent \in Nat
  BY ContactAssumptions DEF CountInv
<1>2. Cardinality(Busy(call)) \in Nat
  BY <1>1, FS_CardinalityType
<1>3. CASE Begins(r)
  <2>1. Cardinality(Busy(call)) < MaxConcurrent
    BY <1>3 DEF Begins, Busy
  <2>2. Busy(call') \subseteq Busy(call) \cup {r}
    BY DEF Busy
  <2>3. IsFiniteSet(Busy(call) \cup {r}) /\ Cardinality(Busy(call) \cup {r}) <= MaxConcurrent
    BY <1>1, <1>2, <2>1, FS_AddElement
  <2>4. IsFiniteSet(Busy(call')) /\ Cardinality(Busy(call')) <= Cardinality(Busy(call) \cup {r})
    BY <2>2, <2>3, FS_Subset
  <2>5. Cardinality(Busy(call')) \in Nat /\ Cardinality(Busy(call) \cup {r}) \in Nat
    BY <2>3, <2>4, FS_CardinalityType
  <2> QED
    BY <1>1, <2>3, <2>4, <2>5
<1>4. CASE call[r].pc \notin {"new", "done"} \/ call'[r].pc \in {"new", "done"}
  <2>1. Busy(call') \subseteq Busy(call)
    BY <1>4 DEF Busy
  <2>2. IsFiniteSet(Busy(call')) /\ Cardinality(Busy(call')) <= Cardinality(Busy(call))
    BY <1>1, <2>1, FS_Subset
  <2>3. Cardinality(Busy(call')) \in Nat
    BY <2>2, FS_CardinalityType
  <2> QED
    BY <1>1, <1>2, <2>2, <2>3
<1> QED
  BY <1>3, <1>4

\* The limit checked against is a number, and on record.
LEMMA LimitGranted ==
  ASSUME TypeInv, CountInv, NEW r \in Requests, CheckLimit(r)
  PROVE  ActiveContactLimit \in Nat /\ granted' \in Nat /\ granted <= granted' /\ ActiveContactLimit <= granted'
<1>1. ActiveContactLimit \in Nat
  <2>1. /\ subscription.limit \in Nat \cup {Unlimited} /\ subscription.plan \in Plans
    BY DEF TypeInv, TypeOK, BillingTypeOK, RowType
  <2>2. LimitOf[subscription.plan] \in Nat \cup {Unlimited} /\ LimitOf["free"] \in Nat
    BY <2>1, BillingAssumptions
  <2> QED
    BY <2>1, <2>2 DEF ActiveContactLimit, Unlimited
<1>2. granted' = Max({granted, ActiveContactLimit}) /\ granted \in Nat
  BY DEF CheckLimit, CountInv
<1> DEFINE L == ActiveContactLimit
           S == {granted, L}
<1>3. \E x \in S : \A y \in S : x >= y
  BY <1>1, <1>2
<1>4. Max(S) \in S /\ \A y \in S : Max(S) >= y
  BY <1>3 DEF Max
<1> QED
  BY <1>1, <1>2, <1>4

\* A step that writes no enrollment: a request it puts ahead of a limit was ahead of it, is
\* for an active contact, or has just been counted.
LEMMA ReadCounts ==
  ASSUME TypeInv, CountInv, NEW r \in Requests, NEW to, Step(r, to), UNCHANGED enrollment,
         granted' \in Nat, granted <= granted',
         Begins(r) \/ call[r].pc \notin {"new", "done"} \/ to.pc \in {"new", "done"},
         \A k \in Nat : k >= granted' => \/ r \notin Ahead(call', k)
                                         \/ r \in Ahead(call, k) /\ to.person = call[r].person
                                         \/ to.person \in ActiveContacts
                                         \/ Cardinality(ActiveContacts) < k
  PROVE  CountInv'
<1>1. call'[r] = to /\ \A s \in Requests : s # r => call'[s] = call[s]
  BY DEF Step, TypeInv
<1>2. IsFiniteSet(Busy(call')) /\ Cardinality(Busy(call')) <= MaxConcurrent
  BY <1>1, BusyStep
<1>3. UNCHANGED ActiveContacts
  BY DEF ActiveContacts
<1>4. ASSUME NEW k \in Nat, k >= granted' PROVE Weight(ActiveContacts', call', k) <= k + MaxConcurrent - 1
  <2>1. k >= granted /\ granted \in Nat
    BY <1>4 DEF CountInv
  <2>2. CASE Cardinality(ActiveContacts) < k
    BY <1>2, <1>3, <2>2, CountedStep
  <2>3. ActiveContacts' \subseteq Foreseen(ActiveContacts, call, k)
    BY <1>3 DEF Foreseen
  <2> QED
    BY <1>1, <1>4, <2>1, <2>2, <2>3, StepShrinks
<1> QED
  BY <1>2, <1>4 DEF CountInv

\* What a request has read up to the count.
LEMMA LookedCounts ==
  ASSUME TypeInv, NEW r \in Requests, NEW person
  PROVE  LET to == Looked(r, person) IN
         \/ to = Failed
         \/ to.pc = "looked" /\ to.person = person
            /\ (person \in ActiveContacts \/ to.count = Cardinality(ActiveContacts))
<1>1. call[r] \in CallType
  BY DEF TypeInv
<1>2. \A e, n : /\ [call[r] EXCEPT !.pc = "looked", !.person = person, !.existing = e, !.count = n].pc = "looked"
                /\ [call[r] EXCEPT !.pc = "looked", !.person = person, !.existing = e, !.count = n].person = person
                /\ [call[r] EXCEPT !.pc = "looked", !.person = person, !.existing = e, !.count = n].count = n
  BY <1>1 DEF CallType
<1> QED
  BY <1>2 DEF Looked

LEMMA EnrollCounts == ASSUME TypeInv, CountInv, NEW r \in Requests, Enroll(r) PROVE CountInv'
<1> DEFINE to == Looked(r, r.person)
<1>1. Step(r, to) /\ Begins(r) /\ UNCHANGED <<enrollment, granted>> /\ granted \in Nat
  BY DEF Enroll, OnlyCall, CountInv
<1>2. \/ to = Failed
      \/ /\ to.pc = "looked"
         /\ (to.person \in ActiveContacts \/ to.count = Cardinality(ActiveContacts))
  BY LookedCounts
<1>3. call'[r] = to
  BY <1>1 DEF Step, TypeInv
<1> HIDE DEF to
<1>4. \A k \in Nat : \/ r \notin Ahead(call', k)
                     \/ to.person \in ActiveContacts
                     \/ Cardinality(ActiveContacts) < k
  BY <1>2, <1>3 DEF Ahead, Failed
<1> QED
  BY <1>1, <1>4, ReadCounts

LEMMA CheckLimitCounts == ASSUME TypeInv, CountInv, NEW r \in Requests, CheckLimit(r) PROVE CountInv'
<1> DEFINE to == [call[r] EXCEPT !.pc = "allowed"]
<1>1. call[r].pc = "looked" /\ UNCHANGED enrollment /\ call[r] \in CallType
  BY DEF CheckLimit, OnlyCall, TypeInv
<1>2. ActiveContactLimit \in Nat /\ granted' \in Nat /\ granted <= granted' /\ ActiveContactLimit <= granted'
  BY LimitGranted
<1>3. to.pc = "allowed" /\ to.person = call[r].person
  BY <1>1 DEF CallType
<1>4. CASE Step(r, to) /\ (call[r].count = Exempt \/ call[r].count < ActiveContactLimit)
  <2>1. ASSUME NEW k \in Nat, k >= granted' PROVE r \in Ahead(call, k)
    <3>1. call[r].count \in Int
      BY <1>1 DEF CallType
    <3>2. call[r].count < k
      BY <1>2, <1>4, <2>1, <3>1 DEF Exempt
    <3> QED
      BY <1>1, <3>2 DEF Ahead
  <2> HIDE DEF to
  <2> QED
    BY <1>1, <1>2, <1>3, <1>4, <2>1, ReadCounts
<1>5. CASE Step(r, Failed)
  <2>1. call'[r] = Failed
    BY <1>5 DEF Step, TypeInv
  <2>2. \A k \in Nat : r \notin Ahead(call', k)
    BY <2>1 DEF Ahead, Failed
  <2> QED
    BY <1>1, <1>2, <1>5, <2>2, ReadCounts
<1> QED
  BY <1>4, <1>5 DEF CheckLimit, Allows

\* A step to where a request is not ahead of any limit.
LEMMA OutOfTheRace ==
  ASSUME TypeInv, CountInv, NEW r \in Requests, NEW to, Step(r, to), UNCHANGED <<enrollment, granted>>,
         Begins(r) \/ call[r].pc \notin {"new", "done"} \/ to.pc \in {"new", "done"},
         \/ to.pc \notin {"looked", "allowed"}
         \/ to.pc = "allowed" /\ to.existing \notin {"none", "removed"}
  PROVE  CountInv'
<1>1. call'[r] = to
  BY DEF Step, TypeInv
<1>2. \A k \in Nat : r \notin Ahead(call', k)
  BY <1>1 DEF Ahead
<1>3. granted' \in Nat /\ granted <= granted'
  BY DEF CountInv
<1> QED
  BY <1>2, <1>3, ReadCounts

LEMMA IntakeReadCounts ==
  ASSUME TypeInv, CountInv, NEW r \in Requests, Receive(r) \/ Match(r) \/ AfterCollision(r) \/ SendAgain(r)
  PROVE  CountInv'
<1>1. UNCHANGED <<enrollment, granted>>
  BY DEF Receive, Match, AfterCollision, SendAgain, Replay, OnlyCall
<1>2. /\ Failed.pc = "done" /\ NewCall.pc = "new" /\ \A p : Accepted(p).pc = "done"
      /\ [call[r] EXCEPT !.pc = "received"].pc = "received"
      /\ \A p : [call[r] EXCEPT !.pc = "matched", !.person = p].pc = "matched"
  BY DEF Failed, NewCall, Accepted, TypeInv, CallType
<1>3. \E to : /\ Step(r, to) /\ to.pc \in {"new", "done", "received", "matched"}
              /\ Begins(r) \/ call[r].pc \notin {"new", "done"} \/ to.pc \in {"new", "done"}
  <2>1. CASE Replay(r)
    BY <1>2, <2>1 DEF Replay
  <2>2. CASE Receive(r) /\ ~Replay(r)
    BY <1>2, <2>2 DEF Receive
  <2>3. CASE Match(r) /\ ~Replay(r)
    BY <1>2, <2>3 DEF Match
  <2>4. CASE (AfterCollision(r) \/ SendAgain(r)) /\ ~Replay(r)
    BY <1>2, <2>4 DEF AfterCollision, SendAgain
  <2> QED
    BY <2>1, <2>2, <2>3, <2>4
<1> QED
  BY <1>1, <1>3, OutOfTheRace

LEMMA LookForEnrollmentCounts ==
  ASSUME TypeInv, CountInv, NEW r \in Requests, LookForEnrollment(r) PROVE CountInv'
<1> DEFINE person == call[r].person
           status == IF person = NoPerson THEN "none" ELSE enrollment[<<person, r.campaign>>]
           there == [call[r] EXCEPT !.pc = "allowed", !.existing = status]
           new == [call[r] EXCEPT !.pc = "looked", !.count = Cardinality(ActiveContacts)]
<1>1. /\ call[r] \in CallType /\ call[r].pc = "matched" /\ UNCHANGED <<enrollment, granted>>
      /\ granted' \in Nat /\ granted <= granted'
  BY DEF TypeInv, LookForEnrollment, OnlyCall, CountInv
<1>2. \/ Step(r, Failed)
      \/ status \in {"active", "aged"} /\ Step(r, there)
      \/ Step(r, new)
      \/ Step(r, Looked(r, person))
  BY DEF LookForEnrollment
<1>3. CASE Step(r, Failed)
  BY <1>1, <1>3, OutOfTheRace DEF Failed
<1>4. CASE status \in {"active", "aged"} /\ Step(r, there)
  <2>1. there.pc = "allowed" /\ there.existing = status
    BY <1>1 DEF CallType
  <2> HIDE DEF there, status
  <2> QED
    BY <1>1, <1>4, <2>1, OutOfTheRace
<1>5. ASSUME NEW to, Step(r, to), to.pc = "looked",
             to.person \in ActiveContacts \/ to.count = Cardinality(ActiveContacts)
      PROVE  CountInv'
  <2>1. call'[r] = to
    BY <1>5 DEF Step, TypeInv
  <2>2. \A k \in Nat : \/ r \notin Ahead(call', k)
                       \/ to.person \in ActiveContacts
                       \/ Cardinality(ActiveContacts) < k
    BY <1>5, <2>1 DEF Ahead
  <2> QED
    BY <1>1, <1>5, <2>2, ReadCounts
<1>6. CASE Step(r, new)
  <2>1. new.pc = "looked" /\ new.count = Cardinality(ActiveContacts)
    BY <1>1 DEF CallType
  <2> HIDE DEF new
  <2> QED
    BY <1>5, <1>6, <2>1
<1>7. CASE Step(r, Looked(r, person))
  BY <1>3, <1>5, <1>7, LookedCounts
<1> QED
  BY <1>2, <1>3, <1>4, <1>6, <1>7

LEMMA WriteEnrollmentCounts ==
  ASSUME TypeInv, CountInv, NEW r \in Requests, WriteEnrollment(r) PROVE CountInv'
<1> DEFINE q == <<call[r].person, r.campaign>>
<1>1. call[r] \in CallType /\ RequestInv(r, call[r], known, enrollment) /\ call[r].pc = "allowed" /\ r.kind = "enroll"
  BY DEF TypeInv, WriteEnrollment
<1>2. /\ call[r].person \in Persons /\ call[r].person # NoPerson /\ call[r].existing \in {"none", "removed"}
      /\ r.campaign \in Campaigns
  BY <1>1, RequestTypes DEF RequestInv, CallType
<1>3. q \in Pairs /\ q[1] = call[r].person
  BY <1>2 DEF Pairs
<1>4. UNCHANGED granted
  BY DEF WriteEnrollment
<1>5. CASE Step(r, Failed) /\ UNCHANGED enrollment
  BY <1>1, <1>4, <1>5, OutOfTheRace DEF Failed
<1>6. CASE Step(r, Accepted(q[1])) /\ enrollment' = [enrollment EXCEPT ![q] = "active"]
  <2> HIDE DEF q
  <2>1. call'[r] = Accepted(q[1]) /\ \A s \in Requests : s # r => call'[s] = call[s]
    BY <1>6 DEF Step, TypeInv
  <2>2. ActiveContacts' \subseteq ActiveContacts \cup {call[r].person}
    BY <1>3, <1>6, ActiveGrows DEF TypeInv, TypeOK
  <2>3. call'[r].pc = "done"
    BY <2>1 DEF Accepted
  <2>4. IsFiniteSet(Busy(call')) /\ Cardinality(Busy(call')) <= MaxConcurrent
    BY <1>1, <2>1, BusyStep
  <2>5. ASSUME NEW k \in Nat, k >= granted PROVE Weight(ActiveContacts', call', k) <= k + MaxConcurrent - 1
    <3>1. r \in Ahead(call, k) \ Unborn(call, k)
      BY <1>1, <1>2 DEF Ahead, Unborn
    <3>2. ActiveContacts' \subseteq Foreseen(ActiveContacts, call, k)
      BY <2>2, <3>1 DEF Foreseen, PeopleOf
    <3>3. r \notin Ahead(call', k)
      BY <2>3 DEF Ahead
    <3> QED
      BY <2>1, <2>5, <3>2, <3>3, StepShrinks
  <2> QED
    BY <1>4, <2>4, <2>5 DEF CountInv
<1> QED
  BY <1>5, <1>6 DEF WriteEnrollment

LEMMA CommitCounts == ASSUME TypeInv, CountInv, NEW r \in Requests, Commit(r) PROVE CountInv'
<1>1. call[r] \in CallType /\ RequestInv(r, call[r], known, enrollment) /\ call[r].pc = "allowed" /\ r.campaign \in Campaigns
  BY RequestTypes DEF TypeInv, Commit
<1>2. UNCHANGED granted
  BY DEF Commit
<1>3. CASE OnlyCall /\ Step(r, [call[r] EXCEPT !.pc = "collided"])
  <2>1. [call[r] EXCEPT !.pc = "collided"].pc = "collided"
    BY <1>1 DEF CallType
  <2> QED
    BY <1>1, <1>2, <1>3, <2>1, OutOfTheRace DEF OnlyCall
<1>4. ASSUME NEW person \in Persons, MeantBy(r, person), Step(r, Accepted(person)),
             enrollment' = [enrollment EXCEPT ![<<person, r.campaign>>] =
               IF call[r].existing \in {"none", "removed"} THEN "active" ELSE enrollment[<<person, r.campaign>>]]
      PROVE  CountInv'
  <2> DEFINE q == <<person, r.campaign>>
             s == IF call[r].existing \in {"none", "removed"} THEN "active" ELSE enrollment[q]
  <2>1. q \in Pairs /\ q[1] = person /\ person # NoPerson
    BY <1>1, ContactAssumptions DEF Pairs
  <2>2. enrollment' = [enrollment EXCEPT ![q] = s]
    BY <1>4
  <2>3. enrollment \in [Pairs -> {"none", "active", "aged", "paused", "removed", "completed"}]
    BY DEF TypeInv, TypeOK
  <2>4. ActiveContacts' \subseteq ActiveContacts \cup {person}
    <3> HIDE DEF q, s
    <3> QED
      BY <2>1, <2>2, <2>3, ActiveGrows
  <2>5. call[r].existing \notin {"none", "removed"} => ActiveContacts' = ActiveContacts
    BY <2>1, <2>2, <2>3 DEF ActiveContacts
  <2>6. call'[r] = Accepted(person) /\ \A t \in Requests : t # r => call'[t] = call[t]
    BY <1>4 DEF Step, TypeInv
  <2>7. call'[r].pc = "done"
    BY <2>6 DEF Accepted
  <2>8. IsFiniteSet(Busy(call')) /\ Cardinality(Busy(call')) <= MaxConcurrent
    BY <1>1, <2>6, BusyStep
  <2>9. ASSUME NEW k \in Nat, k >= granted PROVE Weight(ActiveContacts', call', k) <= k + MaxConcurrent - 1
    <3>1. r \notin Ahead(call', k)
      BY <2>7 DEF Ahead
    <3>2. CASE call[r].existing \notin {"none", "removed"}
      BY <2>5, <2>6, <2>9, <3>1, <3>2, StepShrinks DEF Foreseen
    <3>3. CASE call[r].existing \in {"none", "removed"} /\ call[r].person = person
      <4>1. r \in Ahead(call, k) \ Unborn(call, k)
        BY <1>1, <2>1, <3>3 DEF Ahead, Unborn
      <4>2. ActiveContacts' \subseteq Foreseen(ActiveContacts, call, k)
        BY <2>4, <3>3, <4>1 DEF Foreseen, PeopleOf
      <4> QED
        BY <2>6, <2>9, <3>1, <4>2, StepShrinks
    <3>4. CASE call[r].existing \in {"none", "removed"} /\ call[r].person = NoPerson
      <4> DEFINE F == Foreseen(ActiveContacts, call, k)
                 U == Unborn(call, k)
                 F2 == Foreseen(ActiveContacts', call', k)
                 U2 == Unborn(call', k)
      <4>1. r \in U
        BY <1>1, <3>4 DEF Ahead, Unborn
      <4>2. U2 \subseteq U \ {r}
        BY <2>6, <3>1 DEF Unborn, Ahead
      <4>3. \A t \in Ahead(call', k) \ U2 : t \in Ahead(call, k) \ U /\ call'[t] = call[t]
        BY <2>6, <3>1 DEF Unborn, Ahead
      <4>4. F2 \subseteq F \cup {person}
        BY <2>4, <4>3 DEF Foreseen, PeopleOf
      <4>5. IsFiniteSet(F) /\ IsFiniteSet(U) /\ Cardinality(F) \in Nat /\ Cardinality(U) \in Nat
        BY WeightOfBusy DEF TypeInv, CountInv
      <4>6. Cardinality(F) + Cardinality(U) <= k + MaxConcurrent - 1
        BY <2>9 DEF CountInv, Weight
      <4> HIDE DEF F, U, F2, U2
      <4>7. /\ IsFiniteSet(F \cup {person}) /\ Cardinality(F \cup {person}) <= Cardinality(F) + 1
            /\ IsFiniteSet(U \ {r}) /\ Cardinality(U \ {r}) = Cardinality(U) - 1
        <5>1. IsFiniteSet(F \cup {person}) /\ Cardinality(F \cup {person}) <= Cardinality(F) + 1
          BY <4>5, FS_AddElement
        <5>2. IsFiniteSet(U \ {r}) /\ Cardinality(U \ {r}) = Cardinality(U) - 1
          BY <4>1, <4>5, FS_RemoveElement
        <5> QED
          BY <5>1, <5>2
      <4>8. /\ IsFiniteSet(F2) /\ Cardinality(F2) <= Cardinality(F \cup {person})
            /\ IsFiniteSet(U2) /\ Cardinality(U2) <= Cardinality(U \ {r})
        BY <4>2, <4>4, <4>7, FS_Subset
      <4>9. Cardinality(F2) \in Nat /\ Cardinality(U2) \in Nat /\ Cardinality(F \cup {person}) \in Nat
        BY <4>7, <4>8, FS_CardinalityType
      <4>10. Cardinality(F2) + Cardinality(U2) <= k + MaxConcurrent - 1
        BY <4>5, <4>6, <4>7, <4>8, <4>9, ContactAssumptions
      <4> QED
        BY <4>10 DEF Weight, F2, U2
    <3> QED
      BY <1>4, <3>2, <3>3, <3>4 DEF MeantBy
  <2> QED
    BY <1>2, <2>8, <2>9 DEF CountInv
<1> QED
  BY <1>3, <1>4, CommitCases

\* What is weighed is what the property counts: contacts and the people to be written.
LEMMA CountBounds == ASSUME TypeInv, CountInv PROVE OverrunBounded
<1> DEFINE writing == {r \in Requests : call[r].pc = "allowed" /\ call[r].existing \in {"none", "removed"}}
           S == ActiveContacts \cup {call[r].person : r \in writing}
           F == Foreseen(ActiveContacts, call, granted)
           U == Unborn(call, granted)
<1>1. granted \in Nat /\ Weight(ActiveContacts, call, granted) <= granted + MaxConcurrent - 1
  BY DEF CountInv
<1>2. IsFiniteSet(F) /\ IsFiniteSet(U) /\ Cardinality(F) \in Nat /\ Cardinality(U) \in Nat
  BY <1>1, WeightOfBusy DEF TypeInv, CountInv
<1>3. Cardinality(F) + Cardinality(U) <= granted + MaxConcurrent - 1
  BY <1>1 DEF Weight
<1>4. \A r \in writing : r \in Ahead(call, granted) /\ (r \notin U => call[r].person \in F)
                         /\ (r \in U => call[r].person = NoPerson)
  BY DEF Ahead, Unborn, Foreseen, PeopleOf
<1>5. ActiveContacts \subseteq F
  BY DEF Foreseen
<1>6. IsFiniteSet(F \cup {NoPerson}) /\ Cardinality(F \cup {NoPerson}) \in Nat
      /\ Cardinality(F \cup {NoPerson}) <= Cardinality(F) + 1
  <2> HIDE DEF F
  <2>1. IsFiniteSet(F \cup {NoPerson}) /\ Cardinality(F \cup {NoPerson}) <= Cardinality(F) + 1
    BY <1>2, FS_AddElement
  <2> QED
    BY <2>1, FS_CardinalityType
<1> HIDE DEF F, U, writing
<1>7. Cardinality(S) <= Cardinality(F) + Cardinality(U)
  <2>1. CASE U = {}
    <3>1. S \subseteq F
      BY <1>4, <1>5, <2>1
    <3>2. Cardinality(S) <= Cardinality(F) /\ IsFiniteSet(S)
      BY <1>2, <3>1, FS_Subset
    <3>3. Cardinality(S) \in Nat
      BY <3>2, FS_CardinalityType
    <3> QED
      BY <1>2, <3>2, <3>3
  <2>2. CASE U # {}
    <3>1. S \subseteq F \cup {NoPerson}
      BY <1>4, <1>5
    <3>2. Cardinality(S) <= Cardinality(F \cup {NoPerson}) /\ IsFiniteSet(S)
      BY <1>6, <3>1, FS_Subset
    <3>3. Cardinality(S) \in Nat
      BY <3>2, FS_CardinalityType
    <3>4. Cardinality(U) # 0
      BY <1>2, <2>2, FS_EmptySet
    <3> QED
      BY <1>2, <1>6, <3>2, <3>3, <3>4
  <2> QED
    BY <2>1, <2>2
<1>8. IsFiniteSet(S) /\ Cardinality(S) \in Nat
  <2>1. S \subseteq F \cup {NoPerson}
    BY <1>4, <1>5
  <2>2. IsFiniteSet(S)
    BY <1>6, <2>1, FS_Subset
  <2> QED
    BY <2>2, FS_CardinalityType
<1>9. Cardinality(S) <= granted + MaxConcurrent - 1
  <2> HIDE DEF S
  <2> QED
    BY <1>1, <1>2, <1>3, <1>7, <1>8, ContactAssumptions
<1> QED
  BY <1>9 DEF OverrunBounded, writing

\* However many requests come one after the other, and whatever plans and enrollments do
\* meanwhile, the contacts exceed the largest limit checked against by less than the number of
\* requests in progress at a time.
THEOREM Overrun == Spec => []OverrunBounded
<1>1. Init => CountInv
  <2> SUFFICES ASSUME Init PROVE CountInv
    OBVIOUS
  <2>1. granted = 0 /\ call = [r \in Requests |-> NewCall]
    BY DEF Init
  <2>2. ActiveContacts = {}
    <3>1. \A p \in Persons, c \in Campaigns : <<p, c>> \in Pairs
      BY DEF Pairs
    <3> QED
      BY <3>1 DEF Init, ActiveContacts
  <2>3. Busy(call) = {}
    BY <2>1 DEF Busy, NewCall
  <2>4. \A k \in Nat : Foreseen(ActiveContacts, call, k) = {} /\ Unborn(call, k) = {}
    BY <2>1, <2>2 DEF Foreseen, Unborn, PeopleOf, Ahead, NewCall
  <2>5. IsFiniteSet({}) /\ Cardinality({}) = 0
    BY FS_EmptySet
  <2>6. \A k \in Nat : Weight(ActiveContacts, call, k) = 0
    BY <2>4, <2>5 DEF Weight
  <2>7. MaxConcurrent \in Nat \ {0}
    BY ContactAssumptions
  <2>8. \A k \in Nat : Weight(ActiveContacts, call, k) <= k + MaxConcurrent - 1
    BY <2>6, <2>7
  <2>9. IsFiniteSet(Busy(call)) /\ Cardinality(Busy(call)) <= MaxConcurrent
    BY <2>3, <2>5, <2>7
  <2> QED
    BY <2>1, <2>8, <2>9 DEF CountInv
<1>2. TypeInv /\ CountInv /\ [Next]_vars => CountInv'
  <2> SUFFICES ASSUME TypeInv, CountInv, [Next]_vars PROVE CountInv'
    OBVIOUS
  <2>1. ASSUME UNCHANGED <<call, granted>>, ActiveContacts' \subseteq ActiveContacts PROVE CountInv'
    <3>1. ASSUME NEW k \in Nat, k >= granted PROVE Weight(ActiveContacts', call', k) <= k + MaxConcurrent - 1
      <4>1. /\ Foreseen(ActiveContacts', call', k) \subseteq Foreseen(ActiveContacts, call, k)
            /\ Unborn(call', k) \subseteq Unborn(call, k)
        BY <2>1 DEF Foreseen
      <4>2. /\ Weight(ActiveContacts', call', k) <= Weight(ActiveContacts, call, k)
            /\ Weight(ActiveContacts', call', k) \in Nat /\ Weight(ActiveContacts, call, k) \in Nat
        BY <4>1, WeightShrinks DEF TypeInv, CountInv
      <4> QED
        BY <3>1, <4>2, ContactAssumptions DEF CountInv
    <3> QED
      BY <2>1, <3>1 DEF CountInv
  <2>2. CASE [BillingNext]_billing /\ UNCHANGED contacts
    BY <2>1, <2>2 DEF contacts, ActiveContacts
  <2>3. CASE Beside
    BY <2>1, <2>3, BesideKeeps
  <2> QED
    BY <2>2, <2>3, ContactsSteps, EnrollCounts, CheckLimitCounts, WriteEnrollmentCounts, IntakeReadCounts,
       LookForEnrollmentCounts, CommitCounts DEF Serve
<1> QED
  BY <1>1, <1>2, CountBounds, ContactsTypeInit, ContactsTypeStep, PTL DEF Spec

=============================================================================
