------------------------------ MODULE Checkout ------------------------------
(***************************************************************************)
(* The checkout of one accepted order, step by step: concurrent calls of   *)
(* PaymentLedgerService.createCheckout, the sessions PayMongo keeps        *)
(* (external), its webhooks, which are repeated until they are processed,  *)
(* and the refresh of a page that asks PayMongo itself.  Each database     *)
(* statement and each HTTP call is a step of its own, and the server may   *)
(* stop between any two.                                                   *)
(*                                                                         *)
(* Payments are numbered as they are created.  A payment is claimed once,  *)
(* so its number also names its session.                                   *)
(***************************************************************************)
EXTENDS Naturals

CONSTANTS
  Calls,        \* calls of createCheckout that can be in progress together
  Handlers,     \* webhook requests that can be in progress together
  MaxPayments   \* bound: payments ever created for the order

ASSUME CheckoutAssumption == MaxPayments \in Nat \ {0} /\ 0 \notin Calls

VARIABLES
  payment,    \* Payment.status, "NONE" before the row exists
  linked,     \* payments whose providerCheckoutId and checkoutUrl are stored
  unknown,    \* payments marked checkout_creation_unknown
  step,       \* where each call stands
  mine,       \* the payment each call works on; 0 before it has one
  session,    \* PayMongo's side of each payment
  failedTry,  \* sessions in which an attempt to pay has failed
  recorded,   \* webhook events with a PaymentWebhookEvent row
  processed,  \* webhook events whose row has processedAt
  handling    \* the event each webhook request is about to process

vars == <<payment, linked, unknown, step, mine, session, failedTry,
          recorded, processed, handling>>
payVars  == <<payment, linked, unknown>>
callVars == <<step, mine>>
hookVars == <<recorded, processed, handling>>
proVars  == <<session, failedTry>>

PaymentId == 1 .. MaxPayments
Event     == PaymentId \X {"paid", "failed"}
NoEvent   == <<0, "none">>

Live    == {"PENDING", "REQUIRES_ACTION"}
Indexed == Live \cup {"PAID"}   \* Payment_one_active_checkout_per_order

Steps == {"idle", "looking", "creating", "claiming", "waiting",
          "calling", "answered", "rejected", "unsure"}

TypeOK ==
  /\ payment \in [PaymentId -> {"NONE", "PENDING", "REQUIRES_ACTION", "PAID", "FAILED"}]
  /\ linked \subseteq PaymentId /\ unknown \subseteq PaymentId
  /\ step \in [Calls -> Steps]
  /\ mine \in [Calls -> {0} \cup PaymentId]
  /\ session \in [PaymentId -> {"none", "open", "paid"}]
  /\ failedTry \subseteq PaymentId
  /\ recorded \subseteq Event /\ processed \subseteq Event
  /\ handling \in [Handlers -> Event \cup {NoEvent}]

Init ==
  /\ payment = [p \in PaymentId |-> "NONE"]
  /\ linked = {} /\ unknown = {}
  /\ step = [c \in Calls |-> "idle"] /\ mine = [c \in Calls |-> 0]
  /\ session = [p \in PaymentId |-> "none"] /\ failedTry = {}
  /\ recorded = {} /\ processed = {}
  /\ handling = [h \in Handlers |-> NoEvent]

-----------------------------------------------------------------------------
In(statuses) == {p \in PaymentId : payment[p] \in statuses}
Latest(ps)   == CHOOSE p \in ps : \A q \in ps : q <= p

Goto(c, s)  == step' = [step EXCEPT ![c] = s]
Set(p, s)   == payment' = [payment EXCEPT ![p] = s]
Return(c)   == Goto(c, "idle") /\ mine' = [mine EXCEPT ![c] = 0]
Take(c, p, s) == Goto(c, s) /\ mine' = [mine EXCEPT ![c] = p]

\* createCheckout: no settled payment.
CheckSettled(c) ==
  /\ step[c] = "idle"
  /\ In({"PAID"}) = {}
  /\ Goto(c, "looking")
  /\ UNCHANGED <<mine, payVars, proVars, hookVars>>

\* An unfinished payment is taken over; one with a stored url is returned as it
\* is, and one whose session is unknown is refused.
FindExisting(c) ==
  /\ step[c] = "looking"
  /\ IF In(Live) = {}
     THEN Goto(c, "creating") /\ UNCHANGED mine
     ELSE LET p == Latest(In(Live)) IN
          IF p \in linked \cup unknown THEN Return(c) ELSE Take(c, p, "claiming")
  /\ UNCHANGED <<payVars, proVars, hookVars>>

\* The number a new row gets.
NextNew(p) == payment[p] = "NONE" /\ \A q \in PaymentId : q < p => payment[q] # "NONE"

\* Slip: a payment is created beside the one that exists.
AlwaysCreate(c) ==
  /\ step[c] = "creating"
  /\ \E p \in PaymentId : NextNew(p) /\ Set(p, "PENDING") /\ Take(c, p, "claiming")
  /\ UNCHANGED <<linked, unknown, proVars, hookVars>>

\* createPending: the unique index turns a second creation into a lookup.
CreatePending(c) ==
  /\ step[c] = "creating"
  /\ IF In(Indexed) # {}
     THEN Take(c, Latest(In(Indexed)), "claiming") /\ UNCHANGED payment
     ELSE \E p \in PaymentId : NextNew(p) /\ Set(p, "PENDING") /\ Take(c, p, "claiming")
  /\ UNCHANGED <<linked, unknown, proVars, hookVars>>

\* Slip: the claim does not look whether another call has claimed already.
ClaimAgain(c) ==
  /\ step[c] = "claiming"
  /\ Set(mine[c], "REQUIRES_ACTION")
  /\ unknown' = unknown \ {mine[c]}
  /\ Goto(c, "calling")
  /\ UNCHANGED <<linked, mine, proVars, hookVars>>

\* One call gets to create the session, the others wait for its url.
Claim(c) ==
  /\ step[c] = "claiming"
  /\ IF payment[mine[c]] = "PENDING" /\ mine[c] \notin linked
     THEN /\ Set(mine[c], "REQUIRES_ACTION")
          /\ unknown' = unknown \ {mine[c]}
          /\ Goto(c, "calling")
     ELSE Goto(c, "waiting") /\ UNCHANGED <<payment, unknown>>
  /\ UNCHANGED <<linked, mine, proVars, hookVars>>

\* waitForCheckout ends with the url, with a failure or with its patience.
EndWait(c) ==
  /\ step[c] = "waiting"
  /\ Return(c)
  /\ UNCHANGED <<payVars, proVars, hookVars>>

\* PayMongo creates the session and answers, refuses it, or is not heard of:
\* then the session may exist or not.
CallPaymongo(c) ==
  /\ step[c] = "calling"
  /\ \/ Goto(c, "answered") /\ session' = [session EXCEPT ![mine[c]] = "open"]
     \/ Goto(c, "rejected") /\ UNCHANGED session
     \/ Goto(c, "unsure") /\ UNCHANGED session
     \/ Goto(c, "unsure") /\ session' = [session EXCEPT ![mine[c]] = "open"]
  /\ UNCHANGED <<mine, failedTry, payVars, hookVars>>

StoreUrl(c) ==
  /\ step[c] = "answered"
  /\ linked' = linked \cup {mine[c]}
  /\ Return(c)
  /\ UNCHANGED <<payment, unknown, proVars, hookVars>>

\* The same statement fails: the error is not PayMongo's, so it counts as unsure.
StoreUrlFails(c) ==
  /\ step[c] = "answered"
  /\ Goto(c, "unsure")
  /\ UNCHANGED <<mine, payVars, proVars, hookVars>>

Unlinked(p) == payment[p] = "REQUIRES_ACTION" /\ p \notin linked

MarkRejected(c) ==
  /\ step[c] = "rejected"
  /\ IF Unlinked(mine[c]) THEN Set(mine[c], "FAILED") ELSE UNCHANGED payment
  /\ Return(c)
  /\ UNCHANGED <<linked, unknown, proVars, hookVars>>

MarkUnknown(c) ==
  /\ step[c] = "unsure"
  /\ unknown' = IF Unlinked(mine[c]) THEN unknown \cup {mine[c]} ELSE unknown
  /\ Return(c)
  /\ UNCHANGED <<payment, linked, proVars, hookVars>>

\* The server stops, or the client's connection does: the call is gone.
CrashCall(c) ==
  /\ step[c] # "idle"
  /\ Return(c)
  /\ UNCHANGED <<payVars, proVars, hookVars>>

-----------------------------------------------------------------------------
\* A client can only pay through a url, which is stored before it is given.
\* After a failed attempt the session stays open for another.
AttemptFails(p) ==
  /\ session[p] = "open" /\ p \in linked
  /\ failedTry' = failedTry \cup {p}
  /\ UNCHANGED <<session, payVars, callVars, hookVars>>

Pay(p) ==
  /\ session[p] = "open" /\ p \in linked
  /\ session' = [session EXCEPT ![p] = "paid"]
  /\ UNCHANGED <<failedTry, payVars, callVars, hookVars>>

\* What PayMongo has to say, in any order and as often as it takes.
Happened(e) ==
  \/ e[2] = "paid" /\ session[e[1]] = "paid"
  \/ e[2] = "failed" /\ e[1] \in failedTry

\* Slip: an event that was recorded once is taken for processed.
ReceiveNew(h, e) ==
  /\ handling[h] = NoEvent /\ Happened(e)
  /\ e \notin recorded
  /\ recorded' = recorded \cup {e}
  /\ handling' = [handling EXCEPT ![h] = e]
  /\ UNCHANGED <<processed, payVars, callVars, proVars>>

\* recordWebhookOnce; a duplicate of a processed event ends here.
Receive(h, e) ==
  /\ handling[h] = NoEvent /\ Happened(e)
  /\ e \notin processed
  /\ recorded' = recorded \cup {e}
  /\ handling' = [handling EXCEPT ![h] = e]
  /\ UNCHANGED <<processed, payVars, callVars, proVars>>

\* Slip: whatever is reported about a session is believed.
PaidFromAny(p) == Set(p, "PAID")

\* markPaid: only an unfinished payment becomes PAID, with its earning.
MarkPaid(p) == IF payment[p] \in Live THEN Set(p, "PAID") ELSE UNCHANGED payment

MarkFailed(p) == IF payment[p] \in Live THEN Set(p, "FAILED") ELSE UNCHANGED payment

Handle(h) ==
  LET e == handling[h] IN
  /\ e # NoEvent
  /\ IF e[2] = "paid" THEN MarkPaid(e[1]) ELSE MarkFailed(e[1])
  /\ processed' = processed \cup {e}
  /\ handling' = [handling EXCEPT ![h] = NoEvent]
  /\ UNCHANGED <<recorded, linked, unknown, callVars, proVars>>

CrashHandler(h) ==
  /\ handling[h] # NoEvent
  /\ handling' = [handling EXCEPT ![h] = NoEvent]
  /\ UNCHANGED <<recorded, processed, payVars, callVars, proVars>>

\* reconcilePendingPayment: a page is read and PayMongo is asked about the latest
\* unfinished payment.  markPaid looks at the status again, so asking and
\* recording are one step.
Refresh ==
  /\ In(Live) \cap linked # {}
  /\ LET p == Latest(In(Live) \cap linked) IN session[p] = "paid" /\ MarkPaid(p)
  /\ UNCHANGED <<linked, unknown, callVars, proVars, hookVars>>

CallStep(c) ==
  \/ FindExisting(c) \/ CreatePending(c) \/ Claim(c) \/ EndWait(c)
  \/ CallPaymongo(c) \/ StoreUrl(c) \/ StoreUrlFails(c)
  \/ MarkRejected(c) \/ MarkUnknown(c)

ReceiveAny(e) == \E h \in Handlers : Receive(h, e)

Next ==
  \/ \E c \in Calls : CheckSettled(c) \/ CallStep(c) \/ CrashCall(c)
  \/ \E p \in PaymentId : AttemptFails(p) \/ Pay(p)
  \/ \E e \in Event : ReceiveAny(e)
  \/ \E h \in Handlers : Handle(h) \/ CrashHandler(h)
  \/ Refresh

Spec == Init /\ [][Next]_vars

\* PayMongo repeats a webhook until it is processed, and not every attempt to
\* process it is cut short.  Nothing makes a client reload a page.
CheckoutFairness ==
  /\ \A e \in Event : SF_vars(ReceiveAny(e))
  /\ \A h \in Handlers : SF_vars(Handle(h))

FairSpec == Spec /\ CheckoutFairness

\* The same, with calls that run to their end and clients who do come back.
EagerSpec ==
  /\ FairSpec
  /\ WF_vars(Refresh)
  /\ \A c \in Calls : WF_vars(CheckSettled(c)) /\ WF_vars(CallStep(c))

-----------------------------------------------------------------------------
\* Whatever the calls, the failures and the order of the webhooks, the order has
\* at most one payment that is unfinished or paid, so it is credited once.
OnePaymentCounts ==
  \A p, q \in In(Indexed) : p = q

\* Only one call at a time acts for a payment, between its claim and the storing
\* of the outcome: PayMongo is never asked twice for the same payment.
Acting == {"calling", "answered", "rejected", "unsure"}
ClaimExclusive ==
  \A c, d \in Calls :
    step[c] \in Acting /\ step[d] \in Acting /\ mine[c] = mine[d] => c = d

\* A payment counts as paid only if its session was paid: neither coming back
\* from the checkout nor an event about another session is enough.
PaidHasEvidence ==
  \A p \in PaymentId : payment[p] = "PAID" => session[p] = "paid"

\* However stale the check a call made when it began, no session is opened for an
\* order that is paid.
NoSessionOncePaid ==
  [][\A p \in PaymentId :
       session[p] = "none" /\ session'[p] = "open" => In({"PAID"}) = {}]_vars

\* A paid session is settled one way or the other, although webhooks are lost,
\* repeated and interrupted and nobody reloads a page.
PaidSessionSettled ==
  \A p \in PaymentId :
    session[p] = "paid" ~> payment[p] \in {"PAID", "FAILED"}

-----------------------------------------------------------------------------
\* What makes these inductive: a payment is claimed before its session exists and
\* is still unsettled then, and all that is known of a session is true of it.
CallInv ==
  \A c \in Calls :
    /\ step[c] \in Acting \cup {"claiming", "waiting"} =>
         mine[c] \in PaymentId /\ payment[mine[c]] # "NONE"
    /\ step[c] \in Acting => payment[mine[c]] # "PENDING"
    /\ step[c] = "calling" =>
         payment[mine[c]] = "REQUIRES_ACTION" /\ session[mine[c]] = "none"
    /\ step[c] = "answered" => session[mine[c]] # "none"

SessionInv ==
  /\ \A p \in PaymentId : session[p] # "none" => payment[p] \notin {"NONE", "PENDING"}
  /\ \A p \in linked \cup failedTry : session[p] # "none"
  /\ \A h \in Handlers : handling[h] # NoEvent => Happened(handling[h])

CheckoutInv ==
  TypeOK /\ OnePaymentCounts /\ ClaimExclusive /\ PaidHasEvidence /\ CallInv /\ SessionInv

-----------------------------------------------------------------------------
\* The acceptance criterion of the monetisation strategy: repeated checkout calls
\* and duplicate webhooks cannot charge the client twice.
NoDoubleCharge ==
  \A p, q \in PaymentId : session[p] = "paid" /\ session[q] = "paid" => p = q

\* What the client is told when PayMongo does not answer: it will be verified
\* whether the checkout was created.
UnknownVerified ==
  \A p \in PaymentId : p \in unknown ~> p \notin unknown \/ payment[p] \notin Live
=============================================================================
