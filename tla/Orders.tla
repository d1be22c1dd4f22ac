------------------------------- MODULE Orders -------------------------------
(***************************************************************************)
(* OrdersService: the provider's and the client's decisions on one order,  *)
(* the deliveries and the revisions, and the completion that releases the  *)
(* provider's earnings.  How many requests and active orders a provider    *)
(* may hold is left out.                                                   *)
(***************************************************************************)
EXTENDS OrderRecords

Accept ==
  /\ status = "REQUESTED"
  /\ status' = "ACCEPTED"
  /\ UNCHANGED <<revisionsUsed, completionSource, reviewVars, workVars, moneyVars, dispute>>

Reject ==
  /\ status = "REQUESTED"
  /\ status' = "REJECTED"
  /\ UNCHANGED <<revisionsUsed, completionSource, reviewVars, workVars, moneyVars, dispute>>

Cancel ==
  /\ status = "REQUESTED"
  /\ status' = "CANCELLED"
  /\ UNCHANGED <<revisionsUsed, completionSource, reviewVars, workVars, moneyVars, dispute>>

\* Nothing here looks at disputes: a disputed order may still be started.
Startable == status = "ACCEPTED" /\ PaidInFull

Start ==
  /\ Startable
  /\ status' = "IN_PROGRESS"
  /\ UNCHANGED <<revisionsUsed, completionSource, reviewVars, workVars, moneyVars, dispute>>

-----------------------------------------------------------------------------
\* The one open revision a resubmission answers.
TheOpenRevision(r) == OpenRevisions = {r}

\* A purchased revision may be worked on only while its purchase stands.
PurchaseStands(d) == charge[d] = "PAID" /\ activation[d] = "ACTIVATED"

SubmitVersion ==
  /\ delivered < MaxDeliveries
  /\ delivered' = delivered + 1
  /\ status' = "SUBMITTED"
  /\ completionSource' = "NONE"
  /\ reviewDelivery' = delivered + 1
  /\ reviewLeft' = ReviewWindow

FirstDue == status = "IN_PROGRESS" /\ PaidInFull /\ ~ActiveDispute

DeliverFirst ==
  /\ FirstDue
  /\ SubmitVersion
  /\ UNCHANGED <<revisionsUsed, answers, revision, moneyVars, dispute>>

RevisionDue(r) ==
  /\ status = "REVISION_REQUESTED" /\ PaidInFull /\ ~ActiveDispute
  /\ TheOpenRevision(r)
  /\ r[2] = "PAID_EXTRA" => PurchaseStands(r[1])

DeliverRevision(r) ==
  /\ RevisionDue(r)
  /\ SubmitVersion
  /\ answers' = [answers EXCEPT ![delivered + 1] =
                   IF r[2] = "PAID_EXTRA" THEN r[1] ELSE 0]
  /\ revision' = [revision EXCEPT ![r] = "RESOLVED"]
  /\ UNCHANGED <<revisionsUsed, moneyVars, dispute>>

Deliver == DeliverFirst \/ \E r \in OpenRevisions : DeliverRevision(r)

-----------------------------------------------------------------------------
\* Slip: assertActionableRevisionReview forgets the disputes.
ActionableThoughDisputed(pending) ==
  status = "SUBMITTED" /\ ReviewIsCurrent /\ reviewLeft > 0 /\ PaidInFull /\ pending = {}

\* assertActionableRevisionReview, given the revisions the caller selected.
ActionableReview(pending) ==
  /\ status = "SUBMITTED"
  /\ ReviewIsCurrent
  /\ reviewLeft > 0
  /\ PaidInFull
  /\ pending = {}
  /\ ~ActiveDispute

IncludedRevisionLeft == revisionsUsed < RevisionLimit

RequestRevision ==
  /\ IncludedRevisionLeft
  /\ ActionableReview(PendingRevisions)
  /\ status' = "REVISION_REQUESTED"
  /\ revisionsUsed' = revisionsUsed + 1
  /\ ReviewCleared
  /\ revision' = [revision EXCEPT ![Included(reviewDelivery)] = "OPEN"]
  /\ UNCHANGED <<completionSource, delivered, answers, moneyVars, dispute>>

\* One claim per delivery.
Claimable == ActionableReview(PendingRevisions) /\ revision[Claim(reviewDelivery)] = "NONE"

RequestProviderCorrection ==
  /\ Claimable
  /\ revision' = [revision EXCEPT ![Claim(reviewDelivery)] = "AWAITING"]
  /\ UNCHANGED <<orderVars, reviewVars, delivered, answers, moneyVars, dispute>>

\* A claim can be declined whatever has become of the order.
DeclineProviderCorrection(d) ==
  /\ revision[Claim(d)] = "AWAITING"
  /\ revision' = [revision EXCEPT ![Claim(d)] = "DECLINED"]
  /\ UNCHANGED <<orderVars, reviewVars, delivered, answers, moneyVars, dispute>>

AcceptProviderCorrection(d) ==
  /\ revision[Claim(d)] = "AWAITING"
  /\ ActionableReview(OpenRevisions)
  /\ d = reviewDelivery
  /\ status' = "REVISION_REQUESTED"
  /\ ReviewCleared
  /\ revision' = [revision EXCEPT ![Claim(d)] = "OPEN"]
  /\ UNCHANGED <<revisionsUsed, completionSource, delivered, answers, moneyVars, dispute>>

DecideProviderCorrection ==
  \E d \in Delivery : AcceptProviderCorrection(d) \/ DeclineProviderCorrection(d)

-----------------------------------------------------------------------------
ExtraEarnings == {d \in Delivery : earning[d] # "NONE"}

\* Every paid extra earning must belong to a purchase that was delivered: one
\* that is not makes the whole completion throw.
ExtraWorkDelivered ==
  \A d \in ExtraEarnings :
    PurchaseStands(d) /\ revision[Extra(d)] = "RESOLVED"

\* Slip: completion forgets the extra revisions.
OriginalEarningOnly == {Original}
ReleasableEarnings == {Original} \cup ExtraEarnings

Completable ==
  /\ status = "SUBMITTED"
  /\ ReviewIsCurrent
  /\ OpenRevisions = {}
  /\ ~ActiveDispute
  /\ PaidInFull
  /\ ExtraWorkDelivered
  /\ \A k \in ReleasableEarnings : earning[k] = "PENDING"

CompleteReviewedOrder(source) ==
  /\ Completable
  /\ status' = "COMPLETED"
  /\ completionSource' = source
  /\ earning' = [k \in EarningKey |->
                   IF k \in ReleasableEarnings THEN "AVAILABLE" ELSE earning[k]]
  /\ UNCHANGED <<revisionsUsed, reviewVars, workVars, charge, activation, dispute>>

Complete == CompleteReviewedOrder("CLIENT_ACCEPTED")

\* Slip: the reconciler counts claims as revisions and leaves them alone.
ReconcileOnlyUnclaimed ==
  /\ reviewLeft = 0
  /\ PendingRevisions = {}
  /\ CompleteReviewedOrder("AUTO_REVIEW_TIMEOUT")

\* Slip: the deadline is compared one tick early.
ReconcileEarly ==
  /\ reviewLeft <= 1
  /\ CompleteReviewedOrder("AUTO_REVIEW_TIMEOUT")

\* Taken by the participants' reads and by order-review-reconciler.service.ts, for
\* the orders whose deadline has passed.
ReconcileExpiredReview ==
  /\ reviewLeft = 0
  /\ CompleteReviewedOrder("AUTO_REVIEW_TIMEOUT")

OrdersNext ==
  \/ Accept \/ Reject \/ Cancel \/ Start
  \/ Deliver
  \/ RequestRevision \/ RequestProviderCorrection \/ DecideProviderCorrection
  \/ Complete \/ ReconcileExpiredReview
=============================================================================
