---------------------------- MODULE OrderRecords ----------------------------
(***************************************************************************)
(* The database rows that belong to one order, and the questions every     *)
(* service asks of them.  A transaction on these rows begins by taking the *)
(* order's advisory lock (order-review-lock.ts), so the modules that       *)
(* EXTEND this one model each transaction as one action.                   *)
(*                                                                         *)
(* Deliveries are named by their version, 1..delivered.  A paid extra      *)
(* revision is bought for one delivery and at most one live purchase per   *)
(* delivery exists, so the version also names the purchase and its         *)
(* earning; 0 names the original payment and its earning.                  *)
(*                                                                         *)
(* A deadline is kept as the time left before it, which is all the code    *)
(* ever compares: "deadline <= now" is "left = 0".                         *)
(***************************************************************************)
EXTENDS Naturals, FiniteSets

CONSTANTS
  RevisionLimit,    \* revisions included in the price (order.revisionLimit)
  ReviewWindow,     \* 48 hours of review, in ticks of the clock
  ResponseWindow,   \* 48 hours to answer a dispute, in ticks
  MaxDeliveries,    \* bound: delivery versions of the order
  MaxDisputes       \* bound: disputes ever opened on the order

ASSUME LimitsAssumption ==
  /\ RevisionLimit \in Nat
  /\ ReviewWindow \in Nat \ {0}
  /\ ResponseWindow \in Nat \ {0}
  /\ MaxDeliveries \in Nat
  /\ MaxDisputes \in Nat

VARIABLES
  status,            \* Order.status
  revisionsUsed,     \* Order.revisionsUsed
  completionSource,  \* Order.completionSource
  reviewDelivery,    \* Order.reviewDeliverySubmissionId; 0 when null
  reviewLeft,        \* time left before Order.reviewDeadlineAt
  delivered,         \* version of the latest DeliverySubmission; 0 when none
  answers,           \* the purchase whose revision a delivery answers; 0 when none
  revision,          \* RevisionRequest.status by source delivery and type
  charge,            \* Payment.status (0) and OrderRevisionPurchase.paymentStatus
  activation,        \* OrderRevisionPurchase.activationStatus
  earning,           \* ProviderEarning.status
  dispute            \* OrderDispute rows, with their DisputeAffectedEarning

orderVars   == <<status, revisionsUsed, completionSource>>
reviewVars  == <<reviewDelivery, reviewLeft>>
workVars    == <<delivered, answers, revision>>
moneyVars   == <<charge, activation, earning>>
rowVars     == <<orderVars, reviewVars, workVars, moneyVars, dispute>>

-----------------------------------------------------------------------------
Delivery   == 1 .. MaxDeliveries
Original   == 0
EarningKey == {Original} \cup Delivery
DisputeId  == 1 .. MaxDisputes

OrderStatus == {"REQUESTED", "ACCEPTED", "IN_PROGRESS", "SUBMITTED",
                "REVISION_REQUESTED", "COMPLETED", "CANCELLED", "REJECTED"}
CompletionSource == {"NONE", "CLIENT_ACCEPTED", "AUTO_REVIEW_TIMEOUT"}
RevisionType   == {"PROVIDER_CORRECTION", "INCLUDED", "PAID_EXTRA"}
RevisionStatus == {"NONE", "AWAITING", "OPEN", "DECLINED", "RESOLVED"}
ChargeStatus   == {"NONE", "REQUIRES_ACTION", "PAID", "FAILED",
                   "REFUND_PENDING", "REFUNDED"}
ActivationStatus == {"PENDING", "ACTIVATED", "RECONCILIATION_REQUIRED", "REFUNDED"}
EarningStatus  == {"NONE", "PENDING", "AVAILABLE", "FROZEN",
                   "PAYOUT_PROCESSING", "PAID_OUT", "REFUNDED"}

Waiting         == {"WAITING_FOR_CLIENT", "WAITING_FOR_PROVIDER"}
ActiveStatuses  == Waiting \cup {"READY_FOR_REVIEW", "UNDER_REVIEW"}
Restoring       == {"RESOLVED_PROVIDER", "CLOSED"}
FinalStatuses   == Restoring \cup {"RESOLVED_CLIENT"}
DisputeStatus   == {"NONE"} \cup ActiveStatuses \cup FinalStatuses

\* A dispute row.  preFreeze is the status its DisputeAffectedEarning row
\* remembers ("NONE" when it has no such row); target names the purchase it is
\* about (0: the original work); paused and remaining are reviewPausedAt and
\* reviewRemainingSeconds.
DisputeRow == [status: DisputeStatus, left: 0 .. ResponseWindow,
               target: EarningKey, targetDelivery: EarningKey,
               preFreeze: {"NONE", "PENDING", "AVAILABLE"},
               paused: BOOLEAN, remaining: 0 .. ReviewWindow]

NoDispute == [status |-> "NONE", left |-> 0, target |-> Original,
              targetDelivery |-> 0, preFreeze |-> "NONE",
              paused |-> FALSE, remaining |-> 0]

TypeOK ==
  /\ status \in OrderStatus
  /\ revisionsUsed \in Nat
  /\ completionSource \in CompletionSource
  /\ reviewDelivery \in EarningKey
  /\ reviewLeft \in 0 .. ReviewWindow
  /\ delivered \in EarningKey
  /\ answers \in [Delivery -> EarningKey]
  /\ revision \in [Delivery \X RevisionType -> RevisionStatus]
  /\ charge \in [EarningKey -> ChargeStatus]
  /\ activation \in [Delivery -> ActivationStatus]
  /\ earning \in [EarningKey -> EarningStatus]
  /\ dispute \in [DisputeId -> DisputeRow]

\* A request has just been sent (orders.service.ts create).
RowsInit ==
  /\ status = "REQUESTED" /\ revisionsUsed = 0 /\ completionSource = "NONE"
  /\ reviewDelivery = 0 /\ reviewLeft = 0
  /\ delivered = 0
  /\ answers    = [d \in Delivery |-> 0]
  /\ revision   = [r \in Delivery \X RevisionType |-> "NONE"]
  /\ charge     = [k \in EarningKey |-> "NONE"]
  /\ activation = [d \in Delivery |-> "PENDING"]
  /\ earning    = [k \in EarningKey |-> "NONE"]
  /\ dispute    = [i \in DisputeId |-> NoDispute]

-----------------------------------------------------------------------------
\* The rows of RevisionRequest that a delivery can have, one of each type.
Claim(d)    == <<d, "PROVIDER_CORRECTION">>
Included(d) == <<d, "INCLUDED">>
Extra(d)    == <<d, "PAID_EXTRA">>

IsActive(i)   == dispute[i].status \in ActiveStatuses
ActiveDispute == \E i \in DisputeId : IsActive(i)

Revisions(statuses) == {r \in DOMAIN revision : revision[r] \in statuses}
OpenRevisions       == Revisions({"OPEN"})
PendingRevisions    == Revisions({"OPEN", "AWAITING"})

\* The review window of the latest delivery is the one the order records.
ReviewIsCurrent == reviewDelivery # 0 /\ reviewDelivery = delivered

\* Order payments are refunded in full or not at all, and a refunded payment is
\* no longer PAID, so PAID is also "unreimbursed".
PaidInFull == charge[Original] = "PAID"

\* The review fields become null when a revision takes the work back.
ReviewCleared == reviewDelivery' = 0 /\ reviewLeft' = 0
=============================================================================
