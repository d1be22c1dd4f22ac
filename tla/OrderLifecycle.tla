--------------------------- MODULE OrderLifecycle ---------------------------
(***************************************************************************)
(* One order from request to completion: the order service, the payment    *)
(* ledger and the dispute service acting on the same rows, with the clock. *)
(***************************************************************************)
EXTENDS Orders, Ledger, Disputes

\* Time passes for every deadline that lies ahead.
Sooner(left) == IF left > 0 THEN left - 1 ELSE 0

Tick ==
  /\ reviewLeft > 0 \/ \E i \in DisputeId : dispute[i].left > 0
  /\ reviewLeft' = Sooner(reviewLeft)
  /\ dispute' = [i \in DisputeId |-> [dispute[i] EXCEPT !.left = Sooner(@)]]
  /\ UNCHANGED <<orderVars, reviewDelivery, workVars, moneyVars>>

Next == OrdersNext \/ LedgerNext \/ DisputesNext \/ Tick

Init == RowsInit

vars == rowVars

Spec == Init /\ [][Next]_vars

\* Time passes, and order-review-reconciler.service.ts keeps polling: both are
\* scheduled by the server and not by a user.
FairSpec == Spec /\ WF_vars(Tick) /\ WF_vars(ReconcileExpiredReview)

-----------------------------------------------------------------------------
\* The provider has at most one thing to work on: while a revision is requested
\* exactly one is open and it is about the latest delivery (what deliver calls
\* "identified safely"), and no revision is open in any other state.
OneRevisionInHand ==
  /\ status = "REVISION_REQUESTED" =>
       \E t \in RevisionType : delivered # 0 /\ OpenRevisions = {<<delivered, t>>}
  /\ status # "REVISION_REQUESTED" => OpenRevisions = {}

\* The review window belongs to the latest delivery as long as the work is with
\* the client, and there is none while it is with the provider.
ReviewFollowsWork ==
  /\ status \in {"SUBMITTED", "COMPLETED"} => ReviewIsCurrent
  /\ status \notin {"SUBMITTED", "COMPLETED"} => reviewDelivery = 0

\* Every confirmed payment has its earning and nothing else has one: the original
\* payment from its confirmation, an extra revision from its activation.  A paid
\* purchase that could not be activated is marked for reconciliation.
EarningsFollowPayments ==
  /\ earning[Original] # "NONE" <=> charge[Original] = "PAID"
  /\ \A d \in Delivery :
       /\ earning[d] # "NONE" <=> activation[d] = "ACTIVATED"
       /\ activation[d] # "PENDING" <=> charge[d] = "PAID"
       /\ activation[d] = "ACTIVATED" <=> revision[Extra(d)] # "NONE"

\* A dispute that holds earning k frozen: it froze it and has not given it back.
Holds(i, k) ==
  /\ dispute[i].status \in ActiveStatuses \cup {"RESOLVED_CLIENT"}
  /\ dispute[i].target = k
  /\ dispute[i].preFreeze # "NONE"

\* An earning is frozen exactly while a dispute holds it, and one dispute at a
\* time: no freeze is forgotten, lifted early or lifted twice.
FrozenWhileHeld ==
  \A k \in EarningKey :
    /\ earning[k] = "FROZEN" <=> \E i \in DisputeId : Holds(i, k)
    /\ \A i, j \in DisputeId : Holds(i, k) /\ Holds(j, k) => i = j

\* Earning k has been released to the provider, even if a dispute froze it since.
Released(k) ==
  \/ earning[k] = "AVAILABLE"
  \/ \E i \in DisputeId : Holds(i, k) /\ dispute[i].preFreeze = "AVAILABLE"

\* Completion releases every earning of the order and is the only thing that
\* does; a freeze on one side of it and a restoration on the other change
\* nothing.
ReleasedByCompletion ==
  \A k \in EarningKey :
    Released(k) <=> status = "COMPLETED" /\ earning[k] # "NONE"

IncludedDeliveries == {d \in Delivery : revision[Included(d)] # "NONE"}

\* revisionsUsed counts the included revisions that were requested, each about a
\* delivery of its own, and stays within the price paid.
IncludedRevisionsCounted ==
  /\ revisionsUsed = Cardinality(IncludedDeliveries)
  /\ revisionsUsed <= RevisionLimit

\* While a dispute stays active nothing is delivered, sent back, completed or
\* released: the order may only be started.
DisputedOrderStands ==
  [][ActiveDispute /\ ActiveDispute' =>
       /\ UNCHANGED <<delivered, reviewDelivery, revisionsUsed, completionSource>>
       /\ status' # status => status = "ACCEPTED" /\ status' = "IN_PROGRESS"
       /\ \A k \in EarningKey : Released(k)' = Released(k)]_vars

\* Submitted work that nobody disputes does not stay submitted: the reconciler
\* completes it when the client does nothing.
ReviewConcludes ==
  status = "SUBMITTED" ~>
    \/ status # "SUBMITTED"
    \/ \E i \in DisputeId : dispute[i].status \in ActiveStatuses \cup {"RESOLVED_CLIENT"}

\* What the client is told in the order workspace: once the review period has
\* ended, with no revision and no dispute active, the order completes.
ReviewEndsInCompletion ==
  status = "SUBMITTED" /\ reviewLeft = 0 /\ OpenRevisions = {} /\ ~ActiveDispute ~>
    status = "COMPLETED" \/ OpenRevisions # {} \/ ActiveDispute

-----------------------------------------------------------------------------
\* What makes the invariants above inductive.

\* The partial unique index on active disputes, and open()'s own check.
OneActiveDispute ==
  \A i, j \in DisputeId : IsActive(i) /\ IsActive(j) => i = j

\* Nothing is paid and nothing disputed before the provider has agreed to the work,
\* or once the request has been turned down.
AgreedFirst ==
  /\ \A k \in EarningKey : charge[k] # "NONE" => status \in PayableStatuses
  /\ \A i \in DisputeId : dispute[i].status # "NONE" => status \in DisputableStatuses

\* Work never begins, and so never ends, without the original payment.
WorkIsPaid ==
  status \in {"IN_PROGRESS", "SUBMITTED", "REVISION_REQUESTED", "COMPLETED"} => PaidInFull

\* Without refunds and payouts an earning and a charge have fewer states.
NoMoneyLeaves ==
  /\ \A k \in EarningKey : earning[k] \in {"NONE", "PENDING", "AVAILABLE", "FROZEN"}
  /\ \A k \in EarningKey : charge[k] \in {"NONE", "REQUIRES_ACTION", "PAID", "FAILED"}

\* A delivery still under review has had no revision of a kind that takes the
\* work back, and a delivery not yet made has had none at all: a new revision
\* always finds its row unused.
FreshDeliveries ==
  /\ \A d \in Delivery, t \in RevisionType : d > delivered => revision[<<d, t>>] = "NONE"
  /\ status = "SUBMITTED" =>
       /\ revision[Included(delivered)] = "NONE"
       /\ revision[Extra(delivered)] = "NONE"

WorkInv  == OneRevisionInHand /\ ReviewFollowsWork /\ FreshDeliveries /\ IncludedRevisionsCounted
MoneyInv == WorkIsPaid /\ NoMoneyLeaves /\ EarningsFollowPayments
HoldInv  == OneActiveDispute /\ FrozenWhileHeld /\ ReleasedByCompletion

IInv == TypeOK /\ AgreedFirst /\ WorkInv /\ MoneyInv /\ HoldInv

-----------------------------------------------------------------------------
\* The life cycle implements the promise of module Escrow: the refinement mapping.

PhaseOf(s) ==
  CASE s = "REQUESTED" -> "asked"
    [] s \in {"ACCEPTED", "IN_PROGRESS", "REVISION_REQUESTED"} -> "working"
    [] s = "SUBMITTED" -> "reviewing"
    [] s = "COMPLETED" -> "done"
    [] s \in {"CANCELLED", "REJECTED"} -> "void"

FundsOf(k) ==
  CASE earning[k] = "NONE" -> "none"
    [] earning[k] # "NONE" /\ Released(k) -> "released"
    [] earning[k] # "NONE" /\ ~Released(k) -> "escrow"

Frozen == {k \in EarningKey : earning[k] = "FROZEN"}

Promise == INSTANCE Escrow WITH
  Funds <- EarningKey,
  phase <- PhaseOf(status),
  funds <- [k \in EarningKey |-> FundsOf(k)],
  held  <- Frozen

\* The order, ledger and dispute services together keep the promise: the
\* provider's money moves only as Escrow lets it.
KeepsEscrow == Promise!EscrowSpec
=============================================================================
