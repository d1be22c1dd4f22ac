---------------------------- MODULE LaravelOrders ----------------------------
(***************************************************************************)
(* OrderService of the Laravel backend (laravel-api), the side-by-side     *)
(* replacement of the NestJS one: it keeps the same rows of one order, so  *)
(* they are those of OrderRecords, with its refunds beside them.           *)
(*                                                                         *)
(* A transaction that first locks the order's row and reads afterwards is  *)
(* one action.  start reads the payment before its transaction and is two. *)
(***************************************************************************)
EXTENDS OrderRecords

VARIABLES
  refund,     \* the latest PaymentRefund of each purchase
  refused,    \* the reasons whose refund failed: their sourceKey is taken
  starting    \* start has seen the payment and not written yet

laravelVars == <<rowVars, refund, refused, starting>>
refundVars  == <<refund, refused>>

Reason == {"PAID_NOT_STARTED", "MISSED_RUSH_DEADLINE", "DISPUTE_CLIENT_WIN",
           "STALE_REVISION_PAYMENT", "ADMIN_EXCEPTION"}
RefundRow == [stage: {"NONE", "ACTIVE", "SUCCEEDED", "FAILED"},
              reason: Reason \cup {"NONE"}, pre: EarningStatus]
NoRefund  == [stage |-> "NONE", reason |-> "NONE", pre |-> "NONE"]

LaravelTypeOK ==
  /\ TypeOK
  /\ refund \in [EarningKey -> RefundRow]
  /\ refused \in [EarningKey -> SUBSET Reason]
  /\ starting \in BOOLEAN

LaravelInit ==
  /\ RowsInit
  /\ refund  = [k \in EarningKey |-> NoRefund]
  /\ refused = [k \in EarningKey |-> {}]
  /\ starting = FALSE

-----------------------------------------------------------------------------
\* changeStatus: a guarded update of the order.
ChangeStatus(from, to) ==
  /\ status = from /\ status' = to
  /\ UNCHANGED <<revisionsUsed, completionSource, reviewVars, workVars, moneyVars,
                 dispute, refundVars>>

Accept == ChangeStatus("REQUESTED", "ACCEPTED") /\ UNCHANGED starting
Reject == ChangeStatus("REQUESTED", "REJECTED") /\ UNCHANGED starting
Cancel == ChangeStatus("REQUESTED", "CANCELLED") /\ UNCHANGED starting

StartChecked ==
  /\ status = "ACCEPTED" /\ PaidInFull /\ ~starting
  /\ starting' = TRUE
  /\ UNCHANGED <<rowVars, refundVars>>

StartWritten ==
  /\ starting /\ starting' = FALSE
  /\ \/ ChangeStatus("ACCEPTED", "IN_PROGRESS")
     \/ status # "ACCEPTED" /\ UNCHANGED <<rowVars, refundVars>>

-----------------------------------------------------------------------------
\* A paid extra revision is worked on only while its purchase stands.
Workable(r) == r[2] = "PAID_EXTRA" => charge[r[1]] = "PAID" /\ activation[r[1]] = "ACTIVATED"

SubmitVersion ==
  /\ delivered < MaxDeliveries
  /\ delivered' = delivered + 1 /\ reviewDelivery' = delivered + 1
  /\ status' = "SUBMITTED" /\ completionSource' = "NONE"
  /\ reviewLeft' = ReviewWindow

DeliverFirst ==
  /\ status = "IN_PROGRESS" /\ PaidInFull /\ ~ActiveDispute
  /\ SubmitVersion
  /\ UNCHANGED <<revisionsUsed, answers, revision, moneyVars, dispute, refundVars, starting>>

DeliverRevision(r) ==
  /\ status = "REVISION_REQUESTED" /\ PaidInFull /\ ~ActiveDispute
  /\ OpenRevisions = {r} /\ Workable(r)
  /\ SubmitVersion
  /\ answers' = [answers EXCEPT ![delivered + 1] = IF r[2] = "PAID_EXTRA" THEN r[1] ELSE 0]
  /\ revision' = [revision EXCEPT ![r] = "RESOLVED"]
  /\ UNCHANGED <<revisionsUsed, moneyVars, dispute, refundVars, starting>>

Deliver == DeliverFirst \/ \E r \in OpenRevisions : DeliverRevision(r)

-----------------------------------------------------------------------------
\* assertActionableReview, of the revisions it does not ignore.
ActionableReview(pending) ==
  /\ status = "SUBMITTED" /\ ReviewIsCurrent /\ reviewLeft > 0
  /\ PaidInFull /\ pending = {} /\ ~ActiveDispute

\* The work goes back to the provider for revision r.
SendBack(r) ==
  /\ status' = "REVISION_REQUESTED" /\ ReviewCleared
  /\ revision' = [revision EXCEPT ![r] = "OPEN"]

RequestRevision ==
  /\ revisionsUsed < RevisionLimit
  /\ ActionableReview(PendingRevisions)
  /\ SendBack(Included(reviewDelivery)) /\ revisionsUsed' = revisionsUsed + 1
  /\ UNCHANGED <<completionSource, delivered, answers, moneyVars, dispute, refundVars, starting>>

SetClaim(d, s) ==
  /\ revision' = [revision EXCEPT ![Claim(d)] = s]
  /\ UNCHANGED <<orderVars, reviewVars, delivered, answers, moneyVars, dispute,
                 refundVars, starting>>

RequestProviderCorrection ==
  /\ ActionableReview(PendingRevisions)
  /\ revision[Claim(reviewDelivery)] = "NONE"
  /\ SetClaim(reviewDelivery, "AWAITING")

AcceptProviderCorrection(d) ==
  /\ revision[Claim(d)] = "AWAITING" /\ d = reviewDelivery
  /\ ActionableReview(PendingRevisions \ {Claim(d)})
  /\ SendBack(Claim(d))
  /\ UNCHANGED <<revisionsUsed, completionSource, delivered, answers, moneyVars, dispute,
                 refundVars, starting>>

DecideProviderCorrection ==
  \E d \in Delivery :
    \/ AcceptProviderCorrection(d)
    \/ revision[Claim(d)] = "AWAITING" /\ SetClaim(d, "DECLINED")

-----------------------------------------------------------------------------
\* Slip: what a dispute or a refund has frozen is released as well.
PendingAndFrozen == {k \in EarningKey : earning[k] \in {"PENDING", "FROZEN"}}

\* What completion releases; with none of it the code throws what its callers do
\* not expect.
PendingEarnings == {k \in EarningKey : earning[k] = "PENDING"}

Reviewable == status = "SUBMITTED" /\ ReviewIsCurrent /\ OpenRevisions = {} /\ ~ActiveDispute

CompleteReviewedOrder(source) ==
  /\ Reviewable /\ PaidInFull /\ PendingEarnings # {}
  /\ status' = "COMPLETED" /\ completionSource' = source
  /\ earning' = [k \in EarningKey |-> IF k \in PendingEarnings THEN "AVAILABLE" ELSE earning[k]]
  /\ UNCHANGED <<revisionsUsed, reviewVars, workVars, charge, activation, dispute,
                 refundVars, starting>>

Complete == CompleteReviewedOrder("CLIENT_ACCEPTED")

\* By the schedule, and when the provider looks at the earnings.
ReconcileExpiredReview == reviewLeft = 0 /\ CompleteReviewedOrder("AUTO_REVIEW_TIMEOUT")

LaravelOrdersNext ==
  \/ Accept \/ Reject \/ Cancel \/ StartChecked \/ StartWritten \/ Deliver
  \/ RequestRevision \/ RequestProviderCorrection \/ DecideProviderCorrection
  \/ Complete \/ ReconcileExpiredReview
=============================================================================
