------------------------------- MODULE Ledger -------------------------------
(***************************************************************************)
(* PaymentLedgerService as the order sees it: a checkout is opened, the    *)
(* provider of payments (PayMongo, external) reports it paid or failed,    *)
(* and a confirmed payment credits the earning.  How one checkout is       *)
(* created step by step is below the grain of this module.                 *)
(***************************************************************************)
EXTENDS OrderRecords

PayableStatuses == {"ACCEPTED", "IN_PROGRESS", "REVISION_REQUESTED", "SUBMITTED", "COMPLETED"}

OrderPayable == status \in PayableStatuses /\ charge[Original] \in {"NONE", "FAILED"}

CreateCheckout ==
  /\ OrderPayable
  /\ charge' = [charge EXCEPT ![Original] = "REQUIRES_ACTION"]
  /\ UNCHANGED <<orderVars, reviewVars, workVars, activation, earning, dispute>>

\* extraRevisionContext: included revisions are used up and the review is live.
ExtraRevisionAvailable ==
  /\ status = "SUBMITTED"
  /\ revisionsUsed >= RevisionLimit
  /\ ReviewIsCurrent /\ reviewLeft > 0
  /\ PendingRevisions = {}
  /\ ~ActiveDispute
  /\ PaidInFull

ExtraPayable == ExtraRevisionAvailable /\ charge[reviewDelivery] \in {"NONE", "FAILED"}

CreateExtraRevisionCheckout ==
  /\ ExtraPayable
  /\ charge' = [charge EXCEPT ![reviewDelivery] = "REQUIRES_ACTION"]
  /\ UNCHANGED <<orderVars, reviewVars, workVars, activation, earning, dispute>>

\* checkout_session.payment.failed; a settled charge is left alone.
PaymentFailed(k) ==
  /\ charge[k] = "REQUIRES_ACTION"
  /\ charge' = [charge EXCEPT ![k] = "FAILED"]
  /\ UNCHANGED <<orderVars, reviewVars, workVars, activation, earning, dispute>>

-----------------------------------------------------------------------------
\* The active dispute that a first payment falls under: one about the order,
\* not about a purchase.
FreezingDispute(i) == IsActive(i) /\ dispute[i].target = Original

\* Slip: a dispute that still waits for an answer freezes nothing.
PaymentUnderReview == \E i \in DisputeId : FreezingDispute(i) /\ dispute[i].status \in {"READY_FOR_REVIEW", "UNDER_REVIEW"}
PaymentDisputed == \E i \in DisputeId : FreezingDispute(i)

FrozenRow(i) ==
  IF FreezingDispute(i) THEN [dispute[i] EXCEPT !.preFreeze = "PENDING"] ELSE dispute[i]

MarkPaid ==
  /\ charge[Original] = "REQUIRES_ACTION"
  /\ charge' = [charge EXCEPT ![Original] = "PAID"]
  /\ earning' = [earning EXCEPT ![Original] =
                   IF PaymentDisputed THEN "FROZEN" ELSE "PENDING"]
  /\ dispute' = [i \in DisputeId |-> FrozenRow(i)]
  /\ UNCHANGED <<orderVars, reviewVars, workVars, activation>>

\* Slip: the purchase may be about an earlier delivery.
CanActivateAny(d, paidInTime) ==
  /\ status = "SUBMITTED" /\ revisionsUsed >= RevisionLimit /\ paidInTime
  /\ PendingRevisions = {} /\ ~ActiveDispute

\* The purchase still fits the order.  paidInTime says whether PayMongo's
\* timestamp lies before the review deadline; it does whenever the deadline has
\* not passed yet.
CanActivate(d, paidInTime) ==
  /\ status = "SUBMITTED"
  /\ revisionsUsed >= RevisionLimit
  /\ ReviewIsCurrent /\ reviewDelivery = d
  /\ paidInTime
  /\ PendingRevisions = {}
  /\ ~ActiveDispute

\* confirmedAt is never later than the confirmation itself.
PossiblyInTime(paidInTime) == reviewLeft > 0 => paidInTime

MarkRevisionPaid(d, paidInTime) ==
  /\ PossiblyInTime(paidInTime)
  /\ charge[d] = "REQUIRES_ACTION"
  /\ charge' = [charge EXCEPT ![d] = "PAID"]
  /\ IF CanActivate(d, paidInTime)
     THEN /\ revision' = [revision EXCEPT ![Extra(d)] = "OPEN"]
          /\ status' = "REVISION_REQUESTED"
          /\ ReviewCleared
          /\ activation' = [activation EXCEPT ![d] = "ACTIVATED"]
          /\ earning' = [earning EXCEPT ![d] = "PENDING"]
     ELSE /\ activation' = [activation EXCEPT ![d] = "RECONCILIATION_REQUIRED"]
          /\ UNCHANGED <<revision, status, reviewVars, earning>>
  /\ UNCHANGED <<revisionsUsed, completionSource, delivered, answers, dispute>>

LedgerNext ==
  \/ CreateCheckout
  \/ CreateExtraRevisionCheckout
  \/ MarkPaid
  \/ \E d \in Delivery, paidInTime \in BOOLEAN : MarkRevisionPaid(d, paidInTime)
  \/ \E k \in EarningKey : PaymentFailed(k)
=============================================================================
