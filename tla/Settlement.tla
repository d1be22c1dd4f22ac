------------------------------ MODULE Settlement ------------------------------
(***************************************************************************)
(* RefundsService on the rows of one order, with everything else that      *)
(* happens to them: each purchase may be refunded in full, for a reason of *)
(* the client or of an administrator, after payments, during disputes,     *)
(* before and after completion.  RefundSubmission has the steps of one     *)
(* refund between its preparation and its end; here it is under way, and   *)
(* then PayMongo (external) has returned the money or has not.             *)
(***************************************************************************)
EXTENDS OrderLifecycle

VARIABLES
  refund,     \* the latest PaymentRefund of each purchase
  refused     \* the reasons whose refund failed: the request finds that row again

refundVars     == <<refund, refused>>
settlementVars == <<vars, refundVars>>

ClientReason == {"PAID_NOT_STARTED", "MISSED_RUSH_DEADLINE"}
Reason == ClientReason \cup {"DISPUTE_CLIENT_WIN", "STALE_REVISION_PAYMENT", "ADMIN_EXCEPTION"}
RefundRow == [stage: {"NONE", "ACTIVE", "SUCCEEDED", "FAILED"},
              reason: Reason \cup {"NONE"}, pre: EarningStatus]
NoRefund  == [stage |-> "NONE", reason |-> "NONE", pre |-> "NONE"]

SettlementTypeOK ==
  /\ TypeOK
  /\ refund \in [EarningKey -> RefundRow]
  /\ refused \in [EarningKey -> SUBSET Reason]

SettlementInit ==
  /\ Init
  /\ refund  = [k \in EarningKey |-> NoRefund]
  /\ refused = [k \in EarningKey |-> {}]

-----------------------------------------------------------------------------
\* requestByClient, requestFromDispute, remediateStaleRevision, requestAdminException:
\* which purchase each of them names.
Names(reason, k) ==
  \/ reason \in ClientReason /\ k = Original
  \/ reason = "DISPUTE_CLIENT_WIN"
     /\ \E i \in DisputeId : dispute[i].status = "RESOLVED_CLIENT" /\ dispute[i].target = k
  \/ reason = "STALE_REVISION_PAYMENT" /\ k # Original
  \/ reason = "ADMIN_EXCEPTION"

\* Slip: an exception is made after the delivery too.
EligibleLate(reason) ==
  \/ reason = "PAID_NOT_STARTED" /\ status = "ACCEPTED" /\ delivered = 0
  \/ reason = "MISSED_RUSH_DEADLINE" /\ status \in {"ACCEPTED", "IN_PROGRESS"} /\ delivered = 0
  \/ reason \in {"DISPUTE_CLIENT_WIN", "STALE_REVISION_PAYMENT"}
  \/ reason = "ADMIN_EXCEPTION" /\ status # "COMPLETED"

\* The order must be as the reason says.  Rush delivery and the missed deadline are
\* an accident of what was ordered and of the clock.
Eligible(reason) ==
  \/ reason = "PAID_NOT_STARTED" /\ status = "ACCEPTED" /\ delivered = 0
  \/ reason = "MISSED_RUSH_DEADLINE" /\ status \in {"ACCEPTED", "IN_PROGRESS"} /\ delivered = 0
  \/ reason \in {"DISPUTE_CLIENT_WIN", "STALE_REVISION_PAYMENT"}
  \/ reason = "ADMIN_EXCEPTION" /\ status # "COMPLETED" /\ delivered = 0

\* resolveTarget: a confirmed payment with its earning; only a purchase that was
\* never activated may lack one.
Confirmed(k, reason) ==
  /\ charge[k] = "PAID"
  /\ reason = "STALE_REVISION_PAYMENT" => activation[k] = "RECONCILIATION_REQUIRED"
  /\ earning[k] = "NONE" => reason = "STALE_REVISION_PAYMENT"

\* It then gets one for the refund, frozen from the start.
FoundAs(k) == IF earning[k] = "NONE" THEN "FROZEN" ELSE earning[k]

\* No other refund takes the payment back, and no payout has the earning.
Refundable(k, reason) ==
  /\ Confirmed(k, reason)
  /\ refund[k].stage \notin {"ACTIVE", "SUCCEEDED"} /\ reason \notin refused[k]
  /\ earning[k] \notin {"PAYOUT_PROCESSING", "PAID_OUT", "REFUNDED"}

\* eligibility: what the order's page offers its client.
MayRequest(reason) ==
  /\ reason \in ClientReason /\ Eligible(reason)
  /\ charge[Original] = "PAID" /\ refund[Original].stage \notin {"ACTIVE", "SUCCEEDED"}

\* The client's own request cancels the order.
PrepareRefund(k, reason) ==
  /\ Names(reason, k) /\ Eligible(reason) /\ Refundable(k, reason)
  /\ refund'  = [refund EXCEPT ![k] = [stage |-> "ACTIVE", reason |-> reason, pre |-> FoundAs(k)]]
  /\ earning' = [earning EXCEPT ![k] = "FROZEN"]
  /\ charge'  = [charge EXCEPT ![k] = "REFUND_PENDING"]
  /\ status'  = IF reason \in ClientReason THEN "CANCELLED" ELSE status
  /\ UNCHANGED <<revisionsUsed, completionSource, reviewVars, workVars, activation, dispute, refused>>

RefundSucceeds(k) ==
  /\ refund[k].stage = "ACTIVE"
  /\ refund'  = [refund EXCEPT ![k].stage = "SUCCEEDED"]
  /\ charge'  = [charge EXCEPT ![k] = "REFUNDED"]
  /\ earning' = [earning EXCEPT ![k] = "REFUNDED"]
  /\ activation' = [d \in Delivery |-> IF d = k THEN "REFUNDED" ELSE activation[d]]
  /\ UNCHANGED <<orderVars, reviewVars, workVars, dispute, refused>>

\* What was frozen before stays frozen.
RefundFails(k) ==
  /\ refund[k].stage = "ACTIVE"
  /\ refund'  = [refund EXCEPT ![k].stage = "FAILED"]
  /\ refused' = [refused EXCEPT ![k] = @ \cup {refund[k].reason}]
  /\ charge'  = [charge EXCEPT ![k] = "PAID"]
  /\ earning' = [earning EXCEPT ![k] = IF refund[k].pre = "FROZEN" THEN @ ELSE refund[k].pre]
  /\ UNCHANGED <<orderVars, reviewVars, workVars, activation, dispute>>

RefundsNext ==
  \E k \in EarningKey :
    \/ \E reason \in Reason : PrepareRefund(k, reason)
    \/ RefundSucceeds(k) \/ RefundFails(k)

SettlementNext == RefundsNext \/ (Next /\ UNCHANGED refundVars)

SettlementSpec ==
  /\ SettlementInit /\ [][SettlementNext]_settlementVars
  /\ WF_settlementVars(Tick /\ UNCHANGED refundVars)
  /\ WF_settlementVars(ReconcileExpiredReview /\ UNCHANGED refundVars)

-----------------------------------------------------------------------------
\* Money that is on its way back, or is back, is not for work the client was given,
\* unless the client won a dispute about it: delivery and refund exclude each other
\* whichever comes first and whoever asks.
Given(k) == IF k = Original THEN delivered > 0 ELSE revision[Extra(k)] # "NONE"
Won(k)   == \E i \in DisputeId : dispute[i].status = "RESOLVED_CLIENT" /\ dispute[i].target = k
WorkOrMoney ==
  \A k \in EarningKey : refund[k].stage \in {"ACTIVE", "SUCCEEDED"} /\ Given(k) => Won(k)

\* A refund the client is offered is one the request accepts.
RefundOffersStand == \A reason \in Reason : MayRequest(reason) => Refundable(Original, reason)
=============================================================================
