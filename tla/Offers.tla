------------------------------- MODULE Offers -------------------------------
(***************************************************************************)
(* What the order workspace of the web client, the provider's dashboard    *)
(* and the order screen of the phone let the client and the provider do    *)
(* with an order, computed from what the API shows of it.  The services    *)
(* decide for themselves; here the two are held against each other, for a  *)
(* screen that has just been refreshed.                                    *)
(***************************************************************************)
EXTENDS ReviewClock, FiniteSetsExt

(* What the API shows *)

Opened   == {i \in DisputeId : dispute[i].status # "NONE"}
Bought   == {d \in Delivery : charge[d] # "NONE"}

\* The dispute opened last.
Disputed == Opened # {} /\ IsActive(Max(Opened))
Answerer == IF Opened = {} THEN "NOBODY"
            ELSE IF dispute[Max(Opened)].status = "WAITING_FOR_CLIENT" THEN "CLIENT"
            ELSE IF dispute[Max(Opened)].status = "WAITING_FOR_PROVIDER" THEN "PROVIDER"
            ELSE "NOBODY"

\* revisionPurchases[0]: the purchase made last could not be activated.
LastBuyStale == Bought # {} /\ activation[Max(Bought)] = "RECONCILIATION_REQUIRED"

\* reviewState: it says nothing of the deadline.
ReviewActionable == status = "SUBMITTED" /\ ~Disputed

PaymentConfirmed == charge[Original] = "PAID"

\* Slip: a claim that was answered still asks for a decision.
ClaimMade == \E d \in Delivery : revision[Claim(d)] # "NONE"
ClaimPending == \E d \in Delivery : revision[Claim(d)] = "AWAITING"

\* The workspace asks for the price of an extra revision, and the answer says
\* whether there is one.
Quoted == ReviewActionable /\ revisionsUsed >= RevisionLimit /\ ExtraRevisionAvailable

-----------------------------------------------------------------------------
(* The web client *)

\* Slip: a provider may not deliver again.
FirstDeliveryOnly == PaymentConfirmed /\ status = "IN_PROGRESS"
CanDeliver == PaymentConfirmed /\ status \in {"IN_PROGRESS", "REVISION_REQUESTED"}

Reviewing == status = "SUBMITTED" /\ PaymentConfirmed
OffersRevision == Reviewing /\ revisionsUsed < RevisionLimit
OffersExtra    == Reviewing /\ revisionsUsed >= RevisionLimit /\ Quoted /\ ~LastBuyStale
OffersClaim    == Reviewing /\ ~ClaimPending

\* A checkout that was begun is continued.
OffersPayment  == status \in PayableStatuses /\ ~PaymentConfirmed
OffersReport   == status \in DisputableStatuses /\ ~Disputed
OffersResponse(party) == status \in DisputableStatuses /\ Answerer = party

\* The provider's dashboard.
OffersDecision == status = "REQUESTED"
OffersStart    == status = "ACCEPTED" /\ PaymentConfirmed

Web(op) ==
  CASE op \in {"accept", "reject"} -> OffersDecision
    [] op = "start"    -> OffersStart
    [] op = "deliver"  -> CanDeliver
    [] op = "decide"   -> ClaimPending
    [] op = "complete" -> Reviewing
    [] op = "revise"   -> OffersRevision
    [] op = "extra"    -> OffersExtra
    [] op = "claim"    -> OffersClaim
    [] op = "pay"      -> OffersPayment
    [] op = "report"   -> OffersReport
    [] op = "respond"  -> \E party \in Parties : OffersResponse(party)

\* The phone, which only clients use; it takes a delivery for paid.
PhoneReviewing == status = "SUBMITTED"
PhonePayment   == status = "ACCEPTED" /\ ~PaymentConfirmed
PhoneReport    == status \in DisputableStatuses /\ Opened = {}

Phone(op) ==
  \/ op = "complete" /\ PhoneReviewing
  \/ op = "revise" /\ PhoneReviewing /\ revisionsUsed < RevisionLimit
  \/ op = "pay" /\ PhonePayment
  \/ op = "report" /\ PhoneReport

-----------------------------------------------------------------------------
(* What the services do with it *)

Op == {"accept", "reject", "start", "deliver", "decide", "complete", "revise",
       "extra", "claim", "pay", "report", "respond"}

\* The conditions under which the services take their steps.
Done(op) ==
  \/ op \in {"accept", "reject"} /\ status = "REQUESTED"
  \/ op = "start" /\ Startable
  \/ op = "deliver" /\ delivered < MaxDeliveries /\ (FirstDue \/ \E r \in OpenRevisions : RevisionDue(r))
  \/ op = "decide" /\ \E d \in Delivery : revision[Claim(d)] = "AWAITING"
  \/ op = "complete" /\ Completable
  \/ op = "revise" /\ IncludedRevisionLeft /\ ActionableReview(PendingRevisions)
  \/ op = "extra" /\ ExtraPayable
  \/ op = "claim" /\ Claimable
  \/ op = "pay" /\ OrderPayable
  \/ op = "report" /\ \E i \in DisputeId, escalation \in BOOLEAN : Disputable(i, escalation)
  \/ op = "respond" /\ \E i \in DisputeId : Answerable(i)

\* Whatever the services would do for the client or the provider, the web client
\* offers, in every state an order can reach: nothing waits for a button that is not
\* there.  Two things are missing on purpose: no screen cancels a request, and who
\* paid for an extra revision too late is told to contact support.
NothingWithheld ==
  \A op \in Op : Done(op) => Web(op) \/ (op = "extra" /\ LastBuyStale)

-----------------------------------------------------------------------------
ClientWon == \E i \in DisputeId : dispute[i].status = "RESOLVED_CLIENT"
ReviewOpen == ~ActiveDispute /\ reviewLeft > 0 /\ PendingRevisions = {}

\* What the screen does not look at and the service refuses for.
Free(op) ==
  CASE op \in {"accept", "reject", "start", "decide"} -> TRUE
    [] op = "deliver"  -> ~ActiveDispute /\ delivered < MaxDeliveries
    [] op = "complete" -> ~ActiveDispute /\ ~ClientWon
    [] op = "revise"   -> ReviewOpen
    [] op = "extra"    -> charge[reviewDelivery] # "REQUIRES_ACTION"
    [] op = "claim"    -> ReviewOpen /\ revision[Claim(reviewDelivery)] = "NONE"
    [] op = "pay"      -> charge[Original] # "REQUIRES_ACTION"
    [] op = "report"   -> ~ClientWon /\ Cardinality(Opened) < MaxDisputes
    [] op = "respond"  -> dispute[Max(Opened)].left > 0

\* Whatever a screen offers the service does, unless a dispute, the end of the review,
\* another revision or a decision against the provider stands in the way: an order
\* never reaches a state in which a button can only fail.
OffersStand ==
  \A op \in Op : (Web(op) \/ Phone(op)) /\ Free(op) => Done(op)

-----------------------------------------------------------------------------
(* What makes them inductive *)

\* Disputes follow one another, so only the latest can be active.
DisputesInOrder ==
  \A i, j \in DisputeId :
    j < i /\ dispute[i].status # "NONE" => dispute[j].status # "NONE" /\ ~IsActive(j)

\* An extra revision is bought for a delivery that exists and is not asked for
\* before it is paid, and a delivery answers only one that was activated.
PurchasesInOrder ==
  \A d \in Delivery :
    /\ charge[d] # "NONE" => d <= delivered
    /\ activation[d] # "REFUNDED"
    /\ revision[Extra(d)] \in {"NONE", "OPEN", "RESOLVED"}
    /\ answers[d] # 0 => activation[answers[d]] = "ACTIVATED"

OffersInv == IInv /\ DisputesInOrder /\ PurchasesInOrder
=============================================================================
