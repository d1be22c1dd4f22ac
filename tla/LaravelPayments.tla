--------------------------- MODULE LaravelPayments ---------------------------
(***************************************************************************)
(* PaymentService and RefundService of the Laravel backend as one order    *)
(* sees them: a checkout is opened and confirmed or fails, and a full      *)
(* refund is prepared and succeeds or fails at the provider of payments    *)
(* (PayMongo, external).  LaravelRefunds has the steps between.            *)
(*                                                                         *)
(* ProviderPayoutService and ProviderEarningsService: a provider reserves  *)
(* every earning that can be withdrawn, and an administrator rejects the   *)
(* payout or settles it by hand.  The other earnings of the provider       *)
(* belong to other orders and stand beside these.                          *)
(*                                                                         *)
(* The request for a payout locks the provider and the earnings it takes.  *)
(* What is decided later locks the payout, the provider and its items, but *)
(* reads the earnings without a lock and then writes them whatever they    *)
(* are.  Disputes and refunds lock the order and change an earning only    *)
(* from a status they read that no payout has, so each is one action; only *)
(* a refund being prepared, which read the earning before a payout took    *)
(* it, writes it in between, and that takes a dispute that was won before  *)
(* the payment (WonBeforePaid).                                            *)
(***************************************************************************)
EXTENDS LaravelOrders

CONSTANT MaxPayouts   \* bound: payouts requested

ASSUME MaxPayoutsAssumption == MaxPayouts \in Nat

VARIABLES
  preparing,   \* what the refund being prepared is of, and what it has read
  payout       \* ProviderPayout rows with their items

NoPreparation == [key |-> Original, reason |-> "NONE", seen |-> "NONE"]
Preparation   == [key: EarningKey, reason: Reason \cup {"NONE"}, seen: EarningStatus]

PayableStatuses == {"ACCEPTED", "IN_PROGRESS", "REVISION_REQUESTED", "SUBMITTED", "COMPLETED"}

SetCharge(k, s) ==
  /\ charge' = [charge EXCEPT ![k] = s]
  /\ UNCHANGED <<orderVars, reviewVars, workVars, activation, earning, dispute,
                 refundVars, starting>>

CreateCheckout ==
  /\ status \in PayableStatuses /\ charge[Original] \in {"NONE", "FAILED"}
  /\ SetCharge(Original, "REQUIRES_ACTION")

\* extraRevisionContext
ExtraRevisionAvailable ==
  /\ status = "SUBMITTED" /\ revisionsUsed >= RevisionLimit
  /\ ReviewIsCurrent /\ reviewLeft > 0
  /\ PendingRevisions = {} /\ ~ActiveDispute /\ PaidInFull

CreateExtraRevisionCheckout ==
  /\ ExtraRevisionAvailable /\ charge[reviewDelivery] \in {"NONE", "FAILED"}
  /\ SetCharge(reviewDelivery, "REQUIRES_ACTION")

PaymentFailed(k) == charge[k] = "REQUIRES_ACTION" /\ SetCharge(k, "FAILED")

\* Unlike an extra's, the order's own confirmation asks nothing of the order, and
\* nothing of its disputes.
MarkPaid ==
  /\ charge[Original] = "REQUIRES_ACTION"
  /\ charge' = [charge EXCEPT ![Original] = "PAID"]
  /\ earning' = [earning EXCEPT ![Original] = "PENDING"]
  /\ UNCHANGED <<orderVars, reviewVars, workVars, activation, dispute, refundVars, starting>>

CanActivate(d, paidInTime) ==
  /\ status = "SUBMITTED" /\ revisionsUsed >= RevisionLimit
  /\ ReviewIsCurrent /\ reviewDelivery = d /\ paidInTime
  /\ PendingRevisions = {} /\ ~ActiveDispute

\* paidInTime: the checkout was paid before the deadline, as it was if that is
\* still ahead.
MarkRevisionPaid(d, paidInTime) ==
  /\ reviewLeft > 0 => paidInTime
  /\ charge[d] = "REQUIRES_ACTION"
  /\ charge' = [charge EXCEPT ![d] = "PAID"]
  /\ IF CanActivate(d, paidInTime)
     THEN /\ SendBack(Extra(d))
          /\ activation' = [activation EXCEPT ![d] = "ACTIVATED"]
          /\ earning' = [earning EXCEPT ![d] = "PENDING"]
     ELSE /\ activation' = [activation EXCEPT ![d] = "RECONCILIATION_REQUIRED"]
          /\ UNCHANGED <<revision, status, reviewVars, earning>>
  /\ UNCHANGED <<revisionsUsed, completionSource, delivered, answers, dispute, refundVars, starting>>

-----------------------------------------------------------------------------
InPayout == {"PAYOUT_PROCESSING", "PAID_OUT"}

\* A refund of this purchase for this reason may be prepared: no other one is under
\* way or done, and this reason was not refused before.
Refundable(k, reason) ==
  /\ charge[k] = "PAID"
  /\ refund[k].stage \notin {"ACTIVE", "SUCCEEDED"} /\ reason \notin refused[k]
  /\ earning[k] \notin InPayout \cup {"REFUNDED"}

\* What both preparations do to the money, having read the earning as seen.
Prepare(k, reason, seen) ==
  /\ earning' = [earning EXCEPT ![k] = "FROZEN"]
  /\ charge' = [charge EXCEPT ![k] = "REFUND_PENDING"]
  /\ refund' = [refund EXCEPT ![k] = [stage |-> "ACTIVE", reason |-> reason,
                   pre |-> IF seen = "NONE" THEN "FROZEN" ELSE seen]]
  /\ UNCHANGED <<revisionsUsed, completionSource, reviewVars, workVars, activation, dispute,
                 refused, starting>>

\* The client's own request, which cancels the order; a missed rush deadline is an
\* accident of the clock.
RequestRefund(reason) ==
  /\ reason \in {"PAID_NOT_STARTED", "MISSED_RUSH_DEADLINE"}
  /\ status \in {"ACCEPTED"} \cup IF reason = "PAID_NOT_STARTED" THEN {} ELSE {"IN_PROGRESS"}
  /\ delivered = 0 /\ Refundable(Original, reason) /\ earning[Original] # "NONE"
  /\ status' = "CANCELLED"
  /\ Prepare(Original, reason, earning[Original])

AdminReason(k, reason) ==
  \/ reason = "DISPUTE_CLIENT_WIN" /\ \E i \in DisputeId :
       dispute[i].status = "RESOLVED_CLIENT" /\ dispute[i].target = k
  \/ reason = "ADMIN_EXCEPTION" /\ k = Original /\ status # "COMPLETED" /\ delivered = 0
  \/ reason = "STALE_REVISION_PAYMENT" /\ k # Original /\ activation[k] = "RECONCILIATION_REQUIRED"

\* The administrator's, which leaves the order as it is; a stale purchase has no
\* earning yet and gets a frozen one.  The order stays locked from the first step
\* to the second, but a payout does not ask for that lock.
BeginAdminRefund(k, reason) ==
  /\ preparing = NoPreparation
  /\ AdminReason(k, reason) /\ Refundable(k, reason)
  /\ earning[k] = "NONE" => reason = "STALE_REVISION_PAYMENT"
  /\ preparing' = [key |-> k, reason |-> reason, seen |-> earning[k]]
  /\ UNCHANGED laravelVars

PrepareAdminRefund ==
  /\ preparing # NoPreparation /\ preparing' = NoPreparation
  /\ Prepare(preparing.key, preparing.reason, preparing.seen) /\ UNCHANGED status

RefundSucceeds(k) ==
  /\ refund[k].stage = "ACTIVE"
  /\ refund' = [refund EXCEPT ![k].stage = "SUCCEEDED"]
  /\ charge' = [charge EXCEPT ![k] = "REFUNDED"]
  /\ earning' = [earning EXCEPT ![k] = "REFUNDED"]
  /\ activation' = [d \in Delivery |-> IF d = k THEN "REFUNDED" ELSE activation[d]]
  /\ UNCHANGED <<orderVars, reviewVars, workVars, dispute, refused, starting>>

\* Slip: the earning is not given back.
RefundFailsFrozen(k) ==
  /\ refund[k].stage = "ACTIVE"
  /\ refund' = [refund EXCEPT ![k].stage = "FAILED"]
  /\ refused' = [refused EXCEPT ![k] = @ \cup {refund[k].reason}]
  /\ charge' = [charge EXCEPT ![k] = "PAID"]
  /\ UNCHANGED <<orderVars, reviewVars, workVars, activation, earning, dispute, starting>>

RefundFails(k) ==
  /\ refund[k].stage = "ACTIVE"
  /\ refund' = [refund EXCEPT ![k].stage = "FAILED"]
  /\ refused' = [refused EXCEPT ![k] = @ \cup {refund[k].reason}]
  /\ charge' = [charge EXCEPT ![k] = "PAID"]
  /\ earning' = [earning EXCEPT ![k] = IF refund[k].pre = "FROZEN" THEN @ ELSE refund[k].pre]
  /\ UNCHANGED <<orderVars, reviewVars, workVars, activation, dispute, starting>>

LaravelPaymentsNext ==
  \/ CreateCheckout \/ CreateExtraRevisionCheckout \/ MarkPaid
  \/ \E d \in Delivery, paidInTime \in BOOLEAN : MarkRevisionPaid(d, paidInTime)
  \/ \E reason \in Reason : RequestRefund(reason)
  \/ \E k \in EarningKey :
       PaymentFailed(k) \/ RefundSucceeds(k) \/ RefundFails(k)

-----------------------------------------------------------------------------
(* Payouts *)

PayoutId   == 1 .. MaxPayouts
LivePayout == {"REQUESTED", "APPROVED", "PROCESSING"}
PayoutRow  == [status: {"NONE", "REJECTED", "CANCELLED", "PAID"} \cup LivePayout,
               items: SUBSET EarningKey]
NoPayout   == [status |-> "NONE", items |-> {}]

PayoutsTypeOK == payout \in [PayoutId -> PayoutRow]
PayoutsInit   == payout = [p \in PayoutId |-> NoPayout]

\* The items whose reservation is active.
Reserved == UNION {payout[p].items : p \in {q \in PayoutId : payout[q].status \in LivePayout \cup {"PAID"}}}

\* isWithdrawable, when the day after the release has passed.
Withdrawable(k) ==
  /\ earning[k] = "AVAILABLE"
  /\ ~\E i \in DisputeId : IsActive(i) /\ dispute[i].target = k /\ dispute[i].preFreeze # "NONE"
  /\ refund[k].stage # "ACTIVE" /\ k \notin Reserved

SetEarnings(items, s) == earning' = [k \in EarningKey |-> IF k \in items THEN s ELSE earning[k]]

OnlyEarnings ==
  UNCHANGED <<orderVars, reviewVars, workVars, charge, activation, dispute, refundVars, starting>>

RequestPayout(p) ==
  LET items == {k \in EarningKey : Withdrawable(k)} IN
  /\ payout[p].status = "NONE" /\ \A q \in PayoutId : q < p => payout[q].status # "NONE"
  /\ items # {}
  /\ payout' = [payout EXCEPT ![p] = [status |-> "REQUESTED", items |-> items]]
  /\ SetEarnings(items, "PAYOUT_PROCESSING") /\ OnlyEarnings

AssertReserved(p) == \A k \in payout[p].items : earning[k] = "PAYOUT_PROCESSING"

AdvancePayout(p, from, to) ==
  /\ payout[p].status = from /\ AssertReserved(p)
  /\ payout' = [payout EXCEPT ![p].status = to]
  /\ UNCHANGED earning /\ OnlyEarnings

ApprovePayout(p) == AdvancePayout(p, "REQUESTED", "APPROVED")
BeginManual(p)   == AdvancePayout(p, "APPROVED", "PROCESSING")

ReleaseReservation(p, final) ==
  /\ payout[p].status = "REQUESTED" /\ AssertReserved(p)
  /\ payout' = [payout EXCEPT ![p].status = final]
  /\ SetEarnings(payout[p].items, "AVAILABLE") /\ OnlyEarnings

SettleManual(p) ==
  /\ payout[p].status = "PROCESSING" /\ AssertReserved(p)
  /\ payout' = [payout EXCEPT ![p].status = "PAID"]
  /\ SetEarnings(payout[p].items, "PAID_OUT") /\ OnlyEarnings

LaravelPayoutsNext ==
  \E p \in PayoutId :
    \/ RequestPayout(p) \/ ApprovePayout(p) \/ BeginManual(p) \/ SettleManual(p)
    \/ \E final \in {"REJECTED", "CANCELLED"} : ReleaseReservation(p, final)
=============================================================================
