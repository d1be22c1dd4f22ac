------------------------------- MODULE Backends -------------------------------
(***************************************************************************)
(* The two backends on the same rows.  Laravel is the side-by-side         *)
(* replacement of NestJS; one of them serves an order, with its refunds    *)
(* and its clock.  Beside the order there is what its life takes as one    *)
(* step and is many in the Laravel backend: one refund from its request    *)
(* on, the checkouts of one payment, and the scheduled command over many   *)
(* orders.  A behaviour shows one of these at work (bound).                *)
(***************************************************************************)
EXTENDS LaravelLifecycle

CONSTANTS Worker, Order, Limit, Call, MaxPayments

ASSUME MaxPaymentsAssumption == MaxPayments \in Nat

VARIABLES
  scene,                                               \* which is at work
  row, money, reversals, provider, announced, worker,  \* LaravelRefunds
  expired, case, sweep,                                \* LaravelSweep
  payment, sessions, paid, failed, earned, call        \* LaravelCheckout

Nest     == INSTANCE Settlement
Refunds  == INSTANCE LaravelRefunds
Sweep    == INSTANCE LaravelSweep
Checkout == INSTANCE LaravelCheckout

refundsVars  == <<row, money, reversals, provider, announced, worker>>
sweepVars    == <<expired, case, sweep>>
checkoutVars == <<payment, sessions, paid, failed, earned, call>>
vars == <<lifeVars, scene, refundsVars, sweepVars, checkoutVars>>

Scene == {"nest", "laravel", "refund", "sweep", "checkout"}

BackendTypeOK ==
  scene \in Scene /\ LifeTypeOK /\ Refunds!RefundsTypeOK /\ Sweep!SweepTypeOK /\ Checkout!CheckoutTypeOK

Init ==
  scene \in Scene /\ LifeInit /\ Refunds!RefundsInit /\ Sweep!SweepInit /\ Checkout!CheckoutInit

Next ==
  /\ UNCHANGED scene
  /\ \/ /\ scene = "laravel" /\ LifeNext
        /\ UNCHANGED <<refundsVars, sweepVars, checkoutVars>>
     \/ /\ scene = "nest" /\ Nest!SettlementNext
        /\ UNCHANGED <<starting, preparing, payout, refundsVars, sweepVars, checkoutVars>>
     \/ /\ scene = "refund" /\ Refunds!RefundsNext
        /\ UNCHANGED <<lifeVars, sweepVars, checkoutVars>>
     \/ /\ scene = "sweep" /\ Sweep!SweepNext
        /\ UNCHANGED <<lifeVars, refundsVars, checkoutVars>>
     \/ /\ scene = "checkout" /\ Checkout!CheckoutNext
        /\ UNCHANGED <<lifeVars, refundsVars, sweepVars>>

\* The schedule runs the sweep every minute and a run goes on.  No order is promised
\* its turn: what a sweep reaches is in module LaravelSweep.
Fairness == WF_sweepVars(Sweep!BeginSweep) /\ WF_sweepVars(Sweep!SweepOrder)

Spec == Init /\ [][Next]_vars /\ Fairness

RefundHonoured     == Refunds!RefundHonoured
ExpiredIsCompleted == Sweep!ExpiredIsCompleted
WaitsBehindOthers  == Sweep!WaitsBehindOthers
OneSessionEach     == Checkout!OneSessionEach
WorkOrMoney        == Nest!WorkOrMoney
RefundOffersStand  == scene = "nest" => Nest!RefundOffersStand

-----------------------------------------------------------------------------
(* Either backend implements the promise of module Escrow with returns *)

\* The provider has been given earning k, even if a dispute or a refund froze it since.
Released(k) ==
  \/ earning[k] \in {"AVAILABLE"} \cup InPayout
  \/ /\ earning[k] = "FROZEN"
     /\ \/ \E i \in DisputeId : HeldBy(i, k) /\ dispute[i].preFreeze = "AVAILABLE"
        \/ refund[k].stage = "ACTIVE" /\ refund[k].pre = "AVAILABLE"

FundsOf(k) ==
  CASE earning[k] = "NONE"     -> "none"
    [] earning[k] = "REFUNDED" -> "returned"
    [] earning[k] \notin {"NONE", "REFUNDED"} /\ Released(k)  -> "released"
    [] earning[k] \notin {"NONE", "REFUNDED"} /\ ~Released(k) -> "escrow"

OnHold == {k \in EarningKey : earning[k] = "FROZEN" \/ refund[k].stage = "ACTIVE"}

Promise == INSTANCE Escrow WITH
  Funds <- EarningKey,
  phase <- Nest!PhaseOf(status),
  funds <- [k \in EarningKey |-> FundsOf(k)],
  held  <- OnHold

\* Orders, payments, disputes, refunds and payouts together move an order's money as
\* Escrow lets it, whichever backend serves the order.
KeepsPromise == Promise!ReturnsSpec

-----------------------------------------------------------------------------
(* What makes them inductive *)

Returning(k) == refund[k].stage \in {"ACTIVE", "SUCCEEDED"}

\* An earning has been paid for, and what is being returned is not paid any more.
PaidForEarnings ==
  /\ \A k \in EarningKey :
       /\ earning[k] # "NONE" => charge[k] \in {"PAID", "REFUND_PENDING", "REFUNDED"}
       /\ refund[k].stage = "ACTIVE" => charge[k] = "REFUND_PENDING"
       /\ refund[k].stage = "SUCCEEDED" => charge[k] = "REFUNDED"
  /\ charge[Original] = "PAID" => earning[Original] # "NONE"

\* An extra revision is bought for a delivery that exists, and begins only with its
\* activation.
PurchasesOfDeliveries ==
  \A d \in Delivery :
    /\ charge[d] # "NONE" => d <= delivered
    /\ charge[d] \in {"NONE", "REQUIRES_ACTION", "FAILED"} <=> activation[d] = "PENDING"
    /\ activation[d] \in {"PENDING", "RECONCILIATION_REQUIRED"} =>
         revision[Extra(d)] = "NONE" /\ earning[d] \in {"NONE", "FROZEN"}

\* Disputes come one after the other, and one holds an earning at a time.
OneActiveDispute == \A i, j \in DisputeId : IsActive(i) /\ IsActive(j) => i = j

HeldByOne ==
  \A i \in DisputeId, k \in EarningKey : HeldBy(i, k) =>
    /\ earning[k] \in {"FROZEN", "REFUNDED"}
    /\ \A j \in DisputeId : HeldBy(j, k) => j = i
    /\ k \in Delivery => activation[k] \notin {"PENDING", "RECONCILIATION_REQUIRED"}

\* Nothing is released before something was delivered.
ReleasedAfterDelivery ==
  delivered = 0 =>
    /\ \A k \in EarningKey : earning[k] \in {"NONE", "PENDING", "FROZEN", "REFUNDED"}
    /\ \A k \in EarningKey : refund[k].pre # "AVAILABLE"
    /\ \A i \in DisputeId : dispute[i].preFreeze # "AVAILABLE"

\* While a refund is under way its earning is frozen, by it or by a dispute that
\* froze it before; only such a dispute can have given it back.
UnderRefund ==
  \A k \in EarningKey : refund[k].stage = "ACTIVE" =>
    /\ refund[k].reason \in Reason /\ refund[k].pre \in {"PENDING", "AVAILABLE", "FROZEN"}
    /\ earning[k] \in {"PENDING", "AVAILABLE", "FROZEN"}
    /\ refund[k].pre # "FROZEN" =>
         /\ earning[k] = "FROZEN" /\ \A i \in DisputeId : ~HeldBy(i, k)
         /\ k \in Delivery => activation[k] # "RECONCILIATION_REQUIRED"
    /\ refund[k].pre = "FROZEN" /\ earning[k] = "FROZEN" =>
         \/ \E i \in DisputeId : HeldBy(i, k)
         \/ k \in Delivery /\ activation[k] = "RECONCILIATION_REQUIRED"

\* The client's own refund has cancelled the order, and a cancelled order stays so.
RefundCancels ==
  \A k \in EarningKey, reason \in Nest!ClientReason :
    (refund[k].stage = "ACTIVE" /\ refund[k].reason = reason) \/ reason \in refused[k] => status = "CANCELLED"

\* What an administrator's refund has read still stands, unless a payout took it.
PreparationStands ==
  preparing # NoPreparation =>
    LET k == preparing.key IN
    /\ preparing.reason \in Reason \ Nest!ClientReason
    /\ charge[k] = "PAID" /\ ~Returning(k)
    /\ preparing.seen \in {"NONE", "PENDING", "AVAILABLE", "FROZEN"}
    /\ preparing.seen = "NONE" => k \in Delivery /\ activation[k] = "RECONCILIATION_REQUIRED"
    /\ preparing.seen = "AVAILABLE" => WonBeforePaid
    /\ earning[k] = preparing.seen \/ (preparing.seen = "AVAILABLE" /\ earning[k] \in InPayout)
    /\ Nest!Given(k) => Nest!Won(k)
    /\ k \in Delivery => Nest!Won(k) \/ activation[k] = "RECONCILIATION_REQUIRED"

Carries(p, k, statuses) == payout[p].status \in statuses /\ k \in payout[p].items

\* An earning leaves by one payout at most.  That a payout carries it says that it
\* is on its way only as long as no refund has overtaken the payout.
OneWayOut ==
  /\ \A p, q \in PayoutId, k \in EarningKey :
       Carries(p, k, LivePayout \cup {"PAID"}) /\ Carries(q, k, LivePayout \cup {"PAID"}) => p = q
  /\ \A k \in EarningKey :
       /\ earning[k] = "REFUNDED" <=> refund[k].stage = "SUCCEEDED"
       /\ earning[k] = "PAYOUT_PROCESSING" => \E p \in PayoutId : Carries(p, k, LivePayout)
       /\ earning[k] = "PAID_OUT" => \E p \in PayoutId : Carries(p, k, {"PAID"})
  /\ WonBeforePaid \/ \A k \in EarningKey, p \in PayoutId :
       /\ Carries(p, k, LivePayout) => earning[k] = "PAYOUT_PROCESSING"
       /\ Carries(p, k, {"PAID"}) => earning[k] = "PAID_OUT"

LifeInv ==
  /\ LifeTypeOK
  /\ PaidForEarnings /\ PurchasesOfDeliveries
  /\ OneActiveDispute /\ HeldByOne /\ ReleasedAfterDelivery
  /\ UnderRefund /\ RefundCancels /\ PreparationStands /\ OneWayOut
  /\ FrozenForAReason /\ WorkOrMoney

\* Work begins once the order is paid for, and nobody pays for it afterwards.
PaidBeforeWork ==
  /\ starting \/ status \in {"IN_PROGRESS", "REVISION_REQUESTED", "SUBMITTED", "COMPLETED"} =>
       charge[Original] \in {"PAID", "REFUND_PENDING", "REFUNDED"}
  /\ charge[Original] \in {"REQUIRES_ACTION", "FAILED"} => status = "ACCEPTED"

\* A dispute about an extra revision froze its earning, and none still open holds
\* what is being refunded.
ExtrasStayFrozen ==
  /\ \A i \in DisputeId : dispute[i].target \in Delivery => dispute[i].preFreeze # "NONE"
  /\ \A d \in Delivery : refund[d].stage = "ACTIVE" =>
       earning[d] = "FROZEN" /\ \A i \in DisputeId : IsActive(i) => ~HeldBy(i, d)

PromiseInv ==
  /\ PaidBeforeWork /\ ExtrasStayFrozen
  /\ \A k \in EarningKey : Released(k) => status = "COMPLETED"

\* Only the Laravel backend of this module has payouts and unfinished preparations.
SceneInv == scene # "laravel" => preparing = NoPreparation /\ PayoutsInit

BackendsInv == LifeInv /\ SceneInv /\ Refunds!RefundsInv /\ Checkout!CheckoutInv
=============================================================================
