--------------------------- MODULE LaravelCheckout ---------------------------
(***************************************************************************)
(* PaymentService of the Laravel backend, the checkout of one order: the   *)
(* client's calls of createCheckout, the sessions at PayMongo (external)   *)
(* and what its webhooks and the look at a pending payment do with them.   *)
(***************************************************************************)
EXTENDS Naturals, FiniteSets

CONSTANTS
  Call,         \* calls of createCheckout under way
  MaxPayments   \* bound: payments the order ever has

VARIABLES
  payment,   \* Payment rows: status, whether the session is stored, failureCode
  sessions,  \* the sessions PayMongo opened for each payment
  paid,      \* the payments whose session the client has paid
  failed,    \* those PayMongo has reported a failed attempt of
  earned,    \* the earnings each payment has created
  call       \* what each call is doing, and the row it has read

checkoutVars == <<payment, sessions, paid, failed, earned, call>>

PaymentId == 1 .. MaxPayments
Open      == {"PENDING", "REQUIRES_ACTION"}
Payment   == [status: {"NONE", "PAID", "FAILED"} \cup Open, url: BOOLEAN, unknown: BOOLEAN]
NoPayment == [status |-> "NONE", url |-> FALSE, unknown |-> FALSE]
NoCall    == [at |-> "IDLE", of |-> 0]

CheckoutTypeOK ==
  /\ payment \in [PaymentId -> Payment]
  /\ sessions \in [PaymentId -> Nat] /\ earned \in [PaymentId -> Nat]
  /\ paid \subseteq PaymentId /\ failed \subseteq PaymentId
  /\ call \in [Call -> [at: {"IDLE", "LOOKED", "HAS", "CLAIMED", "ANSWERED", "REJECTED", "UNKNOWN"},
                        of: 0 .. MaxPayments]]

CheckoutInit ==
  /\ payment = [p \in PaymentId |-> NoPayment]
  /\ sessions = [p \in PaymentId |-> 0] /\ earned = [p \in PaymentId |-> 0]
  /\ paid = {} /\ failed = {}
  /\ call = [c \in Call |-> NoCall]

Outside == UNCHANGED <<sessions, paid, failed, earned>>
Step(c, from, to) == call[c].at = from /\ call' = [call EXCEPT ![c].at = to]
Return(c) == call' = [call EXCEPT ![c] = NoCall]
Set(p, row) == payment' = [payment EXCEPT ![p] = row]

OpenPayments == {p \in PaymentId : payment[p].status \in Open}
Unused       == {p \in PaymentId : payment[p].status = "NONE"}

-----------------------------------------------------------------------------
\* Has the order been paid already?  Asked before the transaction.
LookForSettled(c) ==
  /\ \A p \in PaymentId : payment[p].status # "PAID"
  /\ Step(c, "IDLE", "LOOKED") /\ UNCHANGED payment /\ Outside

\* The transaction that finds the open payment or creates one.
FindOrOpen(c) ==
  /\ call[c].at = "LOOKED"
  /\ \/ \E p \in OpenPayments :
          /\ call' = [call EXCEPT ![c] = [at |-> "HAS", of |-> p]] /\ UNCHANGED payment
     \/ /\ OpenPayments = {} /\ Unused # {}
        /\ LET p == CHOOSE q \in Unused : \A other \in Unused : q <= other IN
             /\ Set(p, [NoPayment EXCEPT !.status = "PENDING"])
             /\ call' = [call EXCEPT ![c] = [at |-> "HAS", of |-> p]]
  /\ Outside

\* Slip: a payment that is claimed is claimed again.
ClaimAgain(c) ==
  LET p == call[c].of IN
  /\ call[c].at = "HAS" /\ payment[p].status \in Open /\ ~payment[p].url
  /\ Set(p, [payment[p] EXCEPT !.status = "REQUIRES_ACTION", !.unknown = FALSE])
  /\ Step(c, "HAS", "CLAIMED") /\ Outside

\* Only the call that turns it from PENDING goes on to PayMongo.
Claim(c) ==
  LET p == call[c].of IN
  /\ call[c].at = "HAS" /\ payment[p].status = "PENDING" /\ ~payment[p].url
  /\ Set(p, [payment[p] EXCEPT !.status = "REQUIRES_ACTION", !.unknown = FALSE])
  /\ Step(c, "HAS", "CLAIMED") /\ Outside

\* The session is there already, or the call is turned away, or it stops.
Leave(c) ==
  /\ call[c].at # "IDLE" /\ Return(c)
  /\ UNCHANGED payment /\ Outside

CreateSession(c, answered) ==
  LET p == call[c].of IN
  /\ Step(c, "CLAIMED", IF answered THEN "ANSWERED" ELSE "UNKNOWN")
  /\ sessions' = [sessions EXCEPT ![p] = @ + 1]
  /\ UNCHANGED <<payment, paid, failed, earned>>

NoSession(c) ==
  /\ \/ Step(c, "CLAIMED", "REJECTED") \/ Step(c, "CLAIMED", "UNKNOWN")
  /\ UNCHANGED payment /\ Outside

StoreSession(c) ==
  LET p == call[c].of IN
  /\ call[c].at = "ANSWERED" /\ Return(c)
  /\ Set(p, [payment[p] EXCEPT !.url = (@ \/ payment[p].status = "REQUIRES_ACTION")])
  /\ Outside

CheckoutFailed(c) ==
  LET p == call[c].of
      mine == payment[p].status = "REQUIRES_ACTION" /\ ~payment[p].url IN
  /\ call[c].at \in {"REJECTED", "UNKNOWN"} /\ Return(c)
  /\ Set(p, [payment[p] EXCEPT
         !.status = IF mine /\ call[c].at = "REJECTED" THEN "FAILED" ELSE @,
         !.unknown = (@ \/ (mine /\ call[c].at = "UNKNOWN"))])
  /\ Outside

-----------------------------------------------------------------------------
\* The client has the address of a session that was stored.
ClientPays(p) ==
  /\ payment[p].url /\ sessions[p] > 0 /\ p \notin paid
  /\ paid' = paid \cup {p} /\ UNCHANGED <<payment, sessions, failed, earned, call>>

AttemptFails(p) ==
  /\ payment[p].url /\ p \notin paid \cup failed
  /\ failed' = failed \cup {p} /\ UNCHANGED <<payment, sessions, paid, earned, call>>

\* processPaidCheckout and markPaid, from a webhook that may come again or from a
\* look at the pending payment.  A payment that FAILED throws, each time.
Confirm(p) ==
  /\ payment[p].url /\ p \in paid /\ payment[p].status \in Open
  /\ Set(p, [payment[p] EXCEPT !.status = "PAID"])
  /\ earned' = [earned EXCEPT ![p] = @ + 1]
  /\ UNCHANGED <<sessions, paid, failed, call>>

ConfirmFailure(p) ==
  /\ payment[p].url /\ p \in failed /\ payment[p].status \in Open
  /\ Set(p, [payment[p] EXCEPT !.status = "FAILED"])
  /\ UNCHANGED <<sessions, paid, failed, earned, call>>

CheckoutNext ==
  \/ \E c \in Call :
       \/ LookForSettled(c) \/ FindOrOpen(c) \/ Claim(c) \/ Leave(c) \/ NoSession(c)
       \/ StoreSession(c) \/ CheckoutFailed(c)
       \/ \E answered \in BOOLEAN : CreateSession(c, answered)
  \/ \E p \in PaymentId : ClientPays(p) \/ AttemptFails(p) \/ Confirm(p) \/ ConfirmFailure(p)

-----------------------------------------------------------------------------
\* Of an order one payment at a time is open, and each payment has one session at
\* PayMongo and one earning, however many calls, retries and repeated webhooks
\* there are.
OneSessionEach ==
  /\ Cardinality(OpenPayments) <= 1
  /\ \A p \in PaymentId : sessions[p] <= 1 /\ earned[p] = IF payment[p].status = "PAID" THEN 1 ELSE 0

\* What the check for a settled payment is there for, and a payment that is
\* confirmed between the check and the transaction breaks.
PaidOnce == Cardinality({p \in PaymentId : payment[p].status = "PAID"}) <= 1

\* A session the client has paid is confirmed or can be: not so once an attempt on
\* it has been reported as failed.
PaidIsConfirmed == \A p \in paid : payment[p].status # "FAILED"

-----------------------------------------------------------------------------
\* What makes the first inductive.

Claimed == {"CLAIMED", "ANSWERED", "REJECTED", "UNKNOWN"}

\* A call that has claimed a payment is alone with it: nobody can pay it yet.
OneClaimer ==
  /\ \A c \in Call : call[c].at \in {"HAS"} \cup Claimed => call[c].of \in PaymentId
  /\ \A c \in Call : call[c].at \in Claimed =>
       payment[call[c].of].status = "REQUIRES_ACTION" /\ ~payment[call[c].of].url
  /\ \A c, d \in Call :
       call[c].at \in Claimed /\ call[d].at \in Claimed /\ call[c].of = call[d].of => c = d

\* A payment that nobody has claimed has no session, nor has one just claimed.
NoSessionYet ==
  /\ \A p \in PaymentId : payment[p].status \in {"NONE", "PENDING"} => ~payment[p].url /\ sessions[p] = 0
  /\ \A c \in Call : call[c].at = "CLAIMED" => sessions[call[c].of] = 0

OneOpen == \A p, q \in OpenPayments : p = q

CheckoutInv == CheckoutTypeOK /\ OneClaimer /\ NoSessionYet /\ OneOpen /\ OneSessionEach
=============================================================================
