-------------------------- MODULE LaravelLifecycle --------------------------
(***************************************************************************)
(* One order in the Laravel backend: its order, dispute, payment, refund   *)
(* and payout services act on the same rows, with the clock.               *)
(***************************************************************************)
EXTENDS LaravelDisputes, LaravelPayments

lifeVars == <<laravelVars, preparing, payout>>

LaravelTick ==
  /\ reviewLeft > 0 \/ \E i \in DisputeId : dispute[i].left > 0
  /\ reviewLeft' = IF reviewLeft > 0 THEN reviewLeft - 1 ELSE 0
  /\ dispute' = [i \in DisputeId |->
                   [dispute[i] EXCEPT !.left = IF @ > 0 THEN @ - 1 ELSE 0]]
  /\ UNCHANGED <<orderVars, reviewDelivery, workVars, moneyVars, refundVars, starting>>

LifeInit == LaravelInit /\ PayoutsInit /\ preparing = NoPreparation

\* What waits for the lock of the order.
OnTheOrder(A) == preparing = NoPreparation /\ A /\ UNCHANGED <<preparing, payout>>

LifeNext ==
  \/ OnTheOrder(LaravelOrdersNext) \/ OnTheOrder(LaravelDisputesNext)
  \/ OnTheOrder(LaravelPaymentsNext) \/ OnTheOrder(LaravelTick)
  \/ \E k \in EarningKey, reason \in Reason : BeginAdminRefund(k, reason) /\ UNCHANGED payout
  \/ PrepareAdminRefund /\ UNCHANGED payout
  \/ LaravelPayoutsNext /\ UNCHANGED preparing

LifeTypeOK == LaravelTypeOK /\ PayoutsTypeOK /\ preparing \in Preparation

-----------------------------------------------------------------------------
\* A dispute has frozen earning k and has not given it back.
HeldBy(i, k) ==
  /\ dispute[i].status \in ActiveStatuses \cup {"RESOLVED_CLIENT"}
  /\ dispute[i].target = k /\ dispute[i].preFreeze # "NONE"

\* Money is frozen for a reason that still stands: a dispute about it, a refund
\* under way, or a purchase whose revision never began and whose refund failed.
FrozenForAReason ==
  \A k \in EarningKey : earning[k] = "FROZEN" =>
    \/ \E i \in DisputeId : HeldBy(i, k)
    \/ refund[k].stage = "ACTIVE"
    \/ k \in Delivery /\ refund[k].stage = "FAILED" /\ activation[k] = "RECONCILIATION_REQUIRED"

\* The client has won a dispute opened before the payment: nothing was frozen, and
\* the order goes on with an earning that may still be refunded.
WonBeforePaid ==
  \E i \in DisputeId : dispute[i].status = "RESOLVED_CLIENT" /\ dispute[i].preFreeze = "NONE"

\* Money goes one way: what was returned to the client is never given back to the
\* provider, by a dispute, a completion, a payout or another refund, and what is
\* in a payout is in one payout and leaves it through that payout only.  After a
\* dispute won before the payment a refund can overtake a payout, and the code
\* promises less.
MoneyGoesOneWay ==
  \A k \in EarningKey :
    LET holding(s) == {p \in PayoutId : payout[p].status \in s /\ k \in payout[p].items} IN
    \/ WonBeforePaid
    \/ /\ earning[k] = "REFUNDED" <=> refund[k].stage = "SUCCEEDED"
       /\ earning[k] = "PAYOUT_PROCESSING" <=> holding(LivePayout) # {}
       /\ earning[k] = "PAID_OUT" <=> holding({"PAID"}) # {}
       /\ Cardinality(holding(LivePayout \cup {"PAID"})) <= 1

\* What docs/laravel-migration.md says of a case the client wins: its earning
\* stays frozen until it is refunded.
ClientWinStaysFrozen ==
  \A i \in DisputeId : dispute[i].status = "RESOLVED_CLIENT" =>
    earning[dispute[i].target] \in {"NONE", "FROZEN", "REFUNDED"}
=============================================================================
