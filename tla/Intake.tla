------------------------------- MODULE Intake --------------------------------
(***************************************************************************)
(* How orders come in: OrdersService.create, accept, reject and cancel for *)
(* the orders of one client with several providers.  The client repeats a  *)
(* request whose answer got lost, with the identifier it had or without    *)
(* one; providers have limits of requests waiting and of orders at work,   *)
(* and change their terms, limits and availability at any time.            *)
(*                                                                         *)
(* A transaction holds the workload lock of its provider; what it reads    *)
(* and what it writes are steps of their own.                              *)
(***************************************************************************)
EXTENDS Pricing, Sequences, FiniteSets

CONSTANTS
  Calls,        \* HTTP requests for an order
  Keys,         \* clientRequestIds
  Details,      \* what may be ordered: a service with its options
  ProviderOf,   \* the provider of each
  OptionOf,     \* the delivery option of each, or "PACKAGE" for an old listing
  SpeedOf,      \* the normal delivery time and the fastest rush of each service
  Prices,       \* base prices of a service
  Limits,       \* the limits a provider may choose
  MaxOrders,    \* bound: orders in all
  MaxChanges    \* bound: changes of terms, limits and availability in all

VARIABLES
  offer,     \* the price of each service, 0 while it is not PUBLISHED
  profile,   \* ProviderProfile: availability, maxPendingOrders, maxActiveOrders
  orders,    \* the orders, in the order they were created
  call,      \* the requests
  accepting, \* the transaction of accept of each order
  changes

Providers == {ProviderOf[d] : d \in Details}

TermsAt(d, price) == [base |-> price, normal |-> SpeedOf[d].normal, fastest |-> SpeedOf[d].fastest]

\* submitService publishes only what updateService could save.
ASSUME OffersAreSellable == \A d \in Details, price \in Prices : Sellable(TermsAt(d, price))

\* CreateServiceDto and UpdateProviderProfileDto: nothing is free or instant.
ASSUME MarketIsSane ==
  /\ Details # {} /\ Prices # {} /\ Prices \subseteq Nat \ {0} /\ Limits \subseteq Nat
  /\ SpeedOf \in [Details -> [normal : Nat \ {0}, fastest : Rush \cup {"none"}]]
  /\ MaxOrders \in Nat

\* createV2Order and the part of create for packages
QuoteOf(d, price) ==
  IF OptionOf[d] = "PACKAGE" THEN PackageQuote(price) ELSE Quote(TermsAt(d, price), OptionOf[d])
Orderable(d) == OptionOf[d] = "PACKAGE" \/ OptionOf[d] \in Eligible(TermsAt(d, offer[d]))

shopVars == <<offer, profile, changes>>
vars     == <<shopVars, orders, call, accepting>>

NoKey  == "none"
Status == {"REQUESTED", "ACCEPTED", "REJECTED", "CANCELLED", "COMPLETED"}
Stage  == {"new", "sent", "priced", "locked", "counted", "clashed", "answered", "refused"}

IntakeTypeOK ==
  /\ offer \in [Details -> Prices \cup {0}]
  /\ profile \in [Providers -> [available : BOOLEAN, pending : Limits, active : Limits]]
  /\ \A i \in DOMAIN orders :
       /\ orders[i].status \in Status /\ orders[i].key \in Keys \cup {NoKey}
       /\ orders[i].details \in Details
  /\ \A c \in Calls :
       /\ call[c].stage \in Stage /\ call[c].key \in Keys \cup {NoKey}
       /\ call[c].price \in Prices \cup {0} /\ call[c].order \in 0..MaxOrders
       /\ call[c].stage = "answered" => call[c].order \in DOMAIN orders
  /\ accepting \in [1..MaxOrders -> [stage : {"no", "locked", "counted"}, limit : Limits \cup {0}]]

Unsent == [stage |-> "new", key |-> NoKey, details |-> CHOOSE d \in Details : TRUE,
           price |-> 0, limit |-> 0, order |-> 0]
NotAccepting == [stage |-> "no", limit |-> 0]

Init ==
  /\ offer = [d \in Details |-> CHOOSE p \in Prices : TRUE]
  /\ \E l \in Limits : profile = [q \in Providers |-> [available |-> TRUE, pending |-> l, active |-> l]]
  /\ orders = << >>
  /\ call = [c \in Calls |-> Unsent]
  /\ accepting = [i \in 1..MaxOrders |-> NotAccepting]
  /\ changes = 0

-----------------------------------------------------------------------------
Of(q, statuses) == {i \in DOMAIN orders : ProviderOf[orders[i].details] = q /\ orders[i].status \in statuses}
Pending(q) == Of(q, {"REQUESTED"})
Active(q)  == Of(q, {"ACCEPTED"})

\* lockProviderWorkload
Holding  == {"locked", "counted"}
LockFree(q) ==
  /\ \A c \in Calls : call[c].stage \in Holding => ProviderOf[call[c].details] # q
  /\ \A i \in DOMAIN orders : accepting[i].stage \in Holding => ProviderOf[orders[i].details] # q

Known(k) == {i \in DOMAIN orders : k # NoKey /\ orders[i].key = k}

\* idempotentOrderResponse: an identifier stands for one set of details.
Repeat(c, i) ==
  call' = [call EXCEPT ![c].stage = IF orders[i].details = call[c].details THEN "answered" ELSE "refused",
                       ![c].order = IF orders[i].details = call[c].details THEN i ELSE 0]
Goto(c, s) == call' = [call EXCEPT ![c].stage = s]

Send(c, d, k) ==
  /\ call[c].stage = "new"
  /\ call' = [call EXCEPT ![c] = [Unsent EXCEPT !.stage = "sent", !.key = k, !.details = d]]
  /\ UNCHANGED <<shopVars, orders, accepting>>

\* create, up to its transaction: the terms are those of this moment.
Look(c) ==
  /\ call[c].stage = "sent"
  /\ \/ \E i \in Known(call[c].key) : Repeat(c, i)
     \/ /\ Known(call[c].key) = {}
        /\ IF /\ offer[call[c].details] > 0 /\ profile[ProviderOf[call[c].details]].available
              /\ Orderable(call[c].details)
           THEN call' = [call EXCEPT ![c].stage = "priced", ![c].price = offer[call[c].details]]
           ELSE Goto(c, "refused")
  /\ UNCHANGED <<shopVars, orders, accepting>>

Lock(c) ==
  /\ call[c].stage = "priced" /\ LockFree(ProviderOf[call[c].details])
  /\ Goto(c, "locked")
  /\ UNCHANGED <<shopVars, orders, accepting>>

\* Under the lock: is it here already, and is there room?
CountPending(c) ==
  LET q == ProviderOf[call[c].details] IN
  /\ call[c].stage = "locked"
  /\ \/ \E i \in Known(call[c].key) : Repeat(c, i)
     \/ /\ Known(call[c].key) = {}
        /\ IF profile[q].available /\ Cardinality(Pending(q)) < profile[q].pending
           THEN call' = [call EXCEPT ![c].stage = "counted", ![c].limit = profile[q].pending]
           ELSE Goto(c, "refused")
  /\ UNCHANGED <<shopVars, orders, accepting>>

NewOrder(c) == [details |-> call[c].details, key |-> call[c].key, status |-> "REQUESTED",
                quote |-> QuoteOf(call[c].details, call[c].price)]

\* Slip: the unique index on client and identifier is missing.
InsertAnyway(c) ==
  /\ call[c].stage = "counted" /\ Len(orders) < MaxOrders
  /\ orders' = Append(orders, NewOrder(c))
  /\ call' = [call EXCEPT ![c].stage = "answered", ![c].order = Len(orders) + 1]
  /\ UNCHANGED <<shopVars, accepting>>

\* The order is created and committed, unless its identifier came in meanwhile
\* for another provider.
Insert(c) ==
  /\ call[c].stage = "counted"
  /\ IF Known(call[c].key) # {}
     THEN Goto(c, "clashed") /\ UNCHANGED orders
     ELSE /\ Len(orders) < MaxOrders
          /\ orders' = Append(orders, NewOrder(c))
          /\ call' = [call EXCEPT ![c].stage = "answered", ![c].order = Len(orders) + 1]
  /\ UNCHANGED <<shopVars, accepting>>

\* After P2002.
FindAgain(c) ==
  /\ call[c].stage = "clashed"
  /\ \E i \in Known(call[c].key) : Repeat(c, i)
  /\ UNCHANGED <<shopVars, orders, accepting>>

\* The process stops, or the transaction is rolled back.
CrashCall(c) ==
  /\ call[c].stage \notin {"new", "answered", "refused"}
  /\ Goto(c, "refused")
  /\ UNCHANGED <<shopVars, orders, accepting>>

-----------------------------------------------------------------------------
SetStatus(i, s) == orders' = [orders EXCEPT ![i].status = s]

\* accept
LockAccept(i) ==
  /\ i \in DOMAIN orders /\ orders[i].status = "REQUESTED" /\ accepting[i].stage = "no"
  /\ LockFree(ProviderOf[orders[i].details])
  /\ accepting' = [accepting EXCEPT ![i].stage = "locked"]
  /\ UNCHANGED <<shopVars, orders, call>>

\* Slip: one too many.
CountActiveLoosely(i) ==
  LET q == ProviderOf[orders[i].details] IN
  /\ accepting[i].stage = "locked"
  /\ accepting' = [accepting EXCEPT ![i] =
       IF orders[i].status = "REQUESTED" /\ Cardinality(Active(q)) <= profile[q].active
       THEN [stage |-> "counted", limit |-> profile[q].active] ELSE NotAccepting]
  /\ UNCHANGED <<shopVars, orders, call>>

CountActive(i) ==
  LET q == ProviderOf[orders[i].details] IN
  /\ accepting[i].stage = "locked"
  /\ accepting' = [accepting EXCEPT ![i] =
       IF orders[i].status = "REQUESTED" /\ Cardinality(Active(q)) < profile[q].active
       THEN [stage |-> "counted", limit |-> profile[q].active] ELSE NotAccepting]
  /\ UNCHANGED <<shopVars, orders, call>>

\* Nothing but the order's status is looked at again.
Accept(i) ==
  /\ accepting[i].stage = "counted"
  /\ accepting' = [accepting EXCEPT ![i] = NotAccepting]
  /\ IF orders[i].status = "REQUESTED" THEN SetStatus(i, "ACCEPTED") ELSE UNCHANGED orders
  /\ UNCHANGED <<shopVars, call>>

\* reject and cancel take no lock.
Reject(i) ==
  /\ i \in DOMAIN orders /\ orders[i].status = "REQUESTED"
  /\ SetStatus(i, "REJECTED") /\ UNCHANGED <<shopVars, call, accepting>>
Cancel(i) ==
  /\ i \in DOMAIN orders /\ orders[i].status = "REQUESTED"
  /\ SetStatus(i, "CANCELLED") /\ UNCHANGED <<shopVars, call, accepting>>

-----------------------------------------------------------------------------
Change == changes < MaxChanges /\ changes' = changes + 1 /\ UNCHANGED <<orders, call, accepting>>

\* A listing is published, paused or published again at another price.
SetOffer(d, p)   == offer' = [offer EXCEPT ![d] = p] /\ Change /\ UNCHANGED profile
SetProfile(q, r) == profile' = [profile EXCEPT ![q] = r] /\ Change /\ UNCHANGED offer
UpdateProfile(q, l, m)   == SetProfile(q, [available |-> TRUE, pending |-> l, active |-> m])
UpdateAvailability(q, b) == SetProfile(q, [profile[q] EXCEPT !.available = b])

CallStep(c) ==
  \/ Look(c) \/ Lock(c) \/ CountPending(c) \/ Insert(c) \/ FindAgain(c)

IntakeNext ==
  \/ \E c \in Calls :
       \/ \E d \in Details, k \in Keys \cup {NoKey} : Send(c, d, k)
       \/ CallStep(c) \/ CrashCall(c)
  \/ \E i \in DOMAIN orders :
       LockAccept(i) \/ CountActive(i) \/ Accept(i) \/ Reject(i) \/ Cancel(i)
  \/ \E d \in Details, p \in Prices \cup {0} : SetOffer(d, p)
  \/ \E q \in Providers :
       \/ \E l, m \in Limits : UpdateProfile(q, l, m)
       \/ \E b \in BOOLEAN : UpdateAvailability(q, b)
=============================================================================
