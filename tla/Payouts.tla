------------------------------- MODULE Payouts -------------------------------
(***************************************************************************)
(* ProviderPayoutsService and the earnings of one provider: what completed *)
(* orders release is held for a day, reserved by a payout request, then    *)
(* approved and settled by an administrator, or given back.  Disputes and  *)
(* refunds take the same earnings at the same time.                        *)
(*                                                                         *)
(* A payout request and the preparation of a refund are transactions under *)
(* advisory locks and read committed isolation: what they read and what    *)
(* they write are steps of their own.  Every other transaction reads and   *)
(* writes under the lock of the order it is about and is one step.         *)
(***************************************************************************)
EXTENDS Naturals, FiniteSets

CONSTANTS
  Earning,      \* the provider's earnings, all in one currency
  OrderOf,      \* the order each earning belongs to
  Payout,       \* payouts, each named by its clientRequestId
  Destination,  \* payout destinations
  OldDecision   \* an earlier dispute, which froze nothing, was decided for the client

ASSUME OrderOfEarning == DOMAIN OrderOf = Earning
ASSUME OldDecisionBool == OldDecision \in BOOLEAN

VARIABLES
  earning,      \* ProviderEarning.status
  ripe,         \* a day has passed since availableAt
  ledger,       \* how many entries of each kind an earning has
  dispute,      \* earnings an active dispute is about
  held,         \* their preFreezeStatus
  decided,      \* earnings a dispute about which was decided for the client
  refund,       \* PaymentRefund.status by earning and reason, as far as it matters
  before,       \* its preRefundEarningStatus
  preparing,    \* refunds whose preparation has read the earning
  payout,       \* ProviderPayout.status
  items,        \* the earnings of each payout
  destination,  \* the destinations, and whether they are reviewed and active
  sentTo,       \* the destination of each payout
  tx            \* the payout request that holds the provider's lock

workVars   == <<ripe, dispute, held, decided>>
refundVars == <<refund, before, preparing>>
payoutVars == <<payout, items, sentTo>>
vars == <<earning, ledger, workVars, refundVars, payoutVars, destination, tx>>

EarningStatus == {"PENDING", "AVAILABLE", "FROZEN", "PAYOUT_PROCESSING", "PAID_OUT", "REFUNDED"}
PayoutStatus  == {"NONE", "REQUESTED", "APPROVED", "PROCESSING", "PAID", "REJECTED", "CANCELLED"}
EntryKind     == {"RELEASE", "RESERVED", "RELEASED", "PAID_OUT", "REVERSAL"}
\* Before delivery, or after a dispute.  Bound: one refund for each.
Reason        == {"ADMIN_EXCEPTION", "DISPUTE_CLIENT_WIN"}
Reserving     == {"REQUESTED", "APPROVED", "PROCESSING", "PAID"}
Orders        == {OrderOf[e] : e \in Earning}
Nobody        == [payout |-> "none", stage |-> "idle", to |-> "none", orders |-> {}, rows |-> {}]

TypeOK ==
  /\ earning \in [Earning -> EarningStatus]
  /\ ripe \in [Earning -> BOOLEAN]
  /\ ledger \in [Earning -> [EntryKind -> Nat]]
  /\ dispute \subseteq Earning /\ decided \subseteq Earning
  /\ held \in [Earning -> {"NONE", "PENDING", "AVAILABLE"}]
  /\ refund \in [Earning -> [Reason -> {"NONE", "ACTIVE", "FAILED", "UNSURE", "SUCCEEDED"}]]
  /\ before \in [Earning -> [Reason -> {"NONE", "PENDING", "AVAILABLE", "FROZEN"}]]
  /\ preparing \subseteq Earning \X Reason
  /\ payout \in [Payout -> PayoutStatus]
  /\ items \in [Payout -> SUBSET Earning]
  /\ destination \in [Destination -> {"absent", "unverified", "reviewed", "inactive"}]
  /\ sentTo \in [Payout -> Destination \cup {"none"}]
  /\ tx.payout \in Payout \cup {"none"} /\ tx.to \in Destination \cup {"none"}
  /\ tx.stage \in {"idle", "began", "locked", "selected"}
  /\ tx.orders \subseteq Orders /\ tx.rows \subseteq Earning

Init ==
  /\ earning = [e \in Earning |-> "PENDING"]
  /\ ripe = [e \in Earning |-> FALSE]
  /\ ledger = [e \in Earning |-> [k \in EntryKind |-> 0]]
  /\ dispute = {} /\ held = [e \in Earning |-> "NONE"]
  /\ decided \in IF OldDecision THEN {{}, Earning} ELSE {{}}
  /\ refund = [e \in Earning |-> [r \in Reason |-> "NONE"]]
  /\ before = [e \in Earning |-> [r \in Reason |-> "NONE"]]
  /\ preparing = {}
  /\ payout = [p \in Payout |-> "NONE"]
  /\ items = [p \in Payout |-> {}]
  /\ destination = [d \in Destination |-> "absent"]
  /\ sentTo = [p \in Payout |-> "none"]
  /\ tx = Nobody

-----------------------------------------------------------------------------
Within(o) == {e \in Earning : OrderOf[e] = o}
ActiveRefund(e) == \E r \in Reason : refund[e][r] \in {"ACTIVE", "UNSURE"}
ActiveReservation(e) == \E p \in Payout : payout[p] \in Reserving /\ e \in items[p]

\* lockOrderReview: who holds the lock of an order between two steps.
OrderFree(o) ==
  /\ tx.stage \in {"locked", "selected"} => o \notin tx.orders
  /\ \A q \in preparing : OrderOf[q[1]] # o
ProviderFree == tx.stage = "idle"

Book(S, kind) ==
  ledger' = [e \in Earning |-> IF e \in S THEN [ledger[e] EXCEPT ![kind] = @ + 1] ELSE ledger[e]]
Become(S, s) == earning' = [e \in Earning |-> IF e \in S THEN s ELSE earning[e]]

\* The completion of an order releases everything it earned, or throws.
Complete(o) ==
  /\ OrderFree(o)
  /\ \A e \in Within(o) : earning[e] = "PENDING"
  /\ Become(Within(o), "AVAILABLE") /\ Book(Within(o), "RELEASE")
  /\ UNCHANGED <<workVars, refundVars, payoutVars, destination, tx>>

\* A day passes.  A request goes by the time it began.
Ripen(e) ==
  /\ ledger[e]["RELEASE"] > 0 /\ ~ripe[e] /\ ProviderFree
  /\ ripe' = [ripe EXCEPT ![e] = TRUE]
  /\ UNCHANGED <<earning, ledger, dispute, held, decided, refundVars, payoutVars, destination, tx>>

OpenDispute(e) ==
  /\ OrderFree(OrderOf[e])
  /\ dispute \cap Within(OrderOf[e]) = {}
  /\ earning[e] \in {"PENDING", "AVAILABLE"}
  /\ dispute' = dispute \cup {e}
  /\ held' = [held EXCEPT ![e] = earning[e]]
  /\ Become({e}, "FROZEN")
  /\ UNCHANGED <<ripe, decided, ledger, refundVars, payoutVars, destination, tx>>

\* Only a decision for the provider, or closing, gives the earning back.
ResolveDispute(e, for) ==
  /\ e \in dispute /\ OrderFree(OrderOf[e])
  /\ \/ /\ for = "client" /\ decided' = decided \cup {e}
        /\ UNCHANGED earning
     \/ /\ for = "provider" /\ earning[e] = "FROZEN"
        /\ Become({e}, held[e]) /\ UNCHANGED decided
  /\ dispute' = dispute \ {e}
  /\ held' = [held EXCEPT ![e] = "NONE"]
  /\ UNCHANGED <<ripe, ledger, refundVars, payoutVars, destination, tx>>

-----------------------------------------------------------------------------
Refundable(e) == earning[e] \notin {"PAID_OUT", "PAYOUT_PROCESSING", "REFUNDED"}

\* prepareRefund reads the earning under the order's lock ...
ReadForRefund(e, r) ==
  /\ OrderFree(OrderOf[e])
  /\ r = "ADMIN_EXCEPTION" => ledger[e]["RELEASE"] = 0
  /\ r = "DISPUTE_CLIENT_WIN" => e \in decided
  /\ refund[e][r] = "NONE" /\ ~ActiveRefund(e)
  /\ Refundable(e)
  /\ preparing' = preparing \cup {<<e, r>>}
  /\ before' = [before EXCEPT ![e][r] = earning[e]]
  /\ UNCHANGED <<earning, ledger, workVars, refund, payoutVars, destination, tx>>

\* ... and freezes it whatever it has become.
PrepareRefund(e, r) ==
  /\ <<e, r>> \in preparing
  /\ preparing' = preparing \ {<<e, r>>}
  /\ refund' = [refund EXCEPT ![e][r] = "ACTIVE"]
  /\ IF before[e][r] = "FROZEN" THEN UNCHANGED earning ELSE Become({e}, "FROZEN")
  /\ UNCHANGED <<ledger, workVars, before, payoutVars, destination, tx>>

AbandonRefund(e, r) ==
  /\ <<e, r>> \in preparing
  /\ preparing' = preparing \ {<<e, r>>}
  /\ before' = [before EXCEPT ![e][r] = "NONE"]
  /\ UNCHANGED <<earning, ledger, workVars, refund, payoutVars, destination, tx>>

RefundSucceeds(e, r) ==
  /\ refund[e][r] = "ACTIVE" /\ OrderFree(OrderOf[e])
  /\ refund' = [refund EXCEPT ![e][r] = "SUCCEEDED"]
  /\ Become({e}, "REFUNDED") /\ Book({e}, "REVERSAL")
  /\ UNCHANGED <<workVars, before, preparing, payoutVars, destination, tx>>

\* Reported again after an answer that came too late (MarkUnsure), a failure can
\* be applied only if there is nothing to give back a second time.
RefundFails(e, r) ==
  /\ OrderFree(OrderOf[e])
  /\ refund[e][r] = "ACTIVE" \/ (refund[e][r] = "UNSURE" /\ before[e][r] = "FROZEN")
  /\ refund' = [refund EXCEPT ![e][r] = "FAILED"]
  /\ IF before[e][r] = "FROZEN" THEN UNCHANGED earning ELSE Become({e}, before[e][r])
  /\ UNCHANGED <<ledger, workVars, before, preparing, payoutVars, destination, tx>>

MarkUnsure(e, r) ==
  /\ refund[e][r] = "FAILED" /\ OrderFree(OrderOf[e])
  /\ refund' = [refund EXCEPT ![e][r] = "UNSURE"]
  /\ UNCHANGED <<earning, ledger, workVars, before, preparing, payoutVars, destination, tx>>

-----------------------------------------------------------------------------
SetDestination(d, s) ==
  /\ destination' = [destination EXCEPT ![d] = s]
  /\ UNCHANGED <<earning, ledger, workVars, refundVars, payoutVars, tx>>

CreateDestination(d)     == destination[d] = "absent" /\ SetDestination(d, "unverified")
ReviewDestination(d)     == destination[d] = "unverified" /\ SetDestination(d, "reviewed")
DeactivateDestination(d) == destination[d] \in {"unverified", "reviewed"} /\ SetDestination(d, "inactive")

-----------------------------------------------------------------------------
Stage(s) == tx' = [tx EXCEPT !.stage = s]
RequestFrame == UNCHANGED <<workVars, refundVars, destination>>

\* request: the orders whose earnings could be withdrawn.
BeginRequest(p, d) ==
  /\ ProviderFree /\ payout[p] = "NONE"
  /\ destination[d] = "reviewed"
  /\ tx' = [payout |-> p, stage |-> "began", to |-> d, rows |-> {},
            orders |-> {OrderOf[e] : e \in {x \in Earning : earning[x] = "AVAILABLE" /\ ripe[x]}}]
  /\ UNCHANGED <<earning, ledger, payoutVars>> /\ RequestFrame

LockOrders ==
  /\ tx.stage = "began"
  /\ \A o \in tx.orders : OrderFree(o)
  /\ Stage("locked")
  /\ UNCHANGED <<earning, ledger, payoutVars>> /\ RequestFrame

\* isEarningWithdrawable
Withdrawable(e) ==
  /\ earning[e] = "AVAILABLE" /\ ripe[e]
  /\ e \notin dispute /\ ~ActiveRefund(e) /\ ~ActiveReservation(e)

\* The earnings are looked up again, without regard to which orders are locked.
SelectEarnings ==
  /\ tx.stage = "locked"
  /\ LET rows == {e \in Earning : Withdrawable(e)} IN
     tx' = IF rows = {} THEN Nobody ELSE [tx EXCEPT !.stage = "selected", !.rows = rows]
  /\ UNCHANGED <<earning, ledger, payoutVars>> /\ RequestFrame

Commit(rows, S) ==
  /\ payout' = [payout EXCEPT ![tx.payout] = "REQUESTED"]
  /\ items' = [items EXCEPT ![tx.payout] = rows]
  /\ sentTo' = [sentTo EXCEPT ![tx.payout] = tx.to]
  /\ Become(S, "PAYOUT_PROCESSING") /\ Book(rows, "RESERVED")

\* Slip: what was selected is put on the payout whether or not it could be reserved.
ReserveUncounted ==
  /\ tx.stage = "selected"
  /\ Commit(tx.rows, {e \in tx.rows : earning[e] = "AVAILABLE"})
  /\ tx' = Nobody /\ RequestFrame

\* All of them are reserved, or the request is rolled back.
Reserve ==
  /\ tx.stage = "selected"
  /\ IF \A e \in tx.rows : earning[e] = "AVAILABLE"
     THEN Commit(tx.rows, tx.rows)
     ELSE UNCHANGED <<earning, ledger, payoutVars>>
  /\ tx' = Nobody /\ RequestFrame

RollBack ==
  /\ ~ProviderFree
  /\ tx' = Nobody
  /\ UNCHANGED <<earning, ledger, payoutVars>> /\ RequestFrame

-----------------------------------------------------------------------------
\* assertReservedPayout
Reserved(p) == items[p] # {} /\ \A e \in items[p] : earning[e] = "PAYOUT_PROCESSING"

\* transitionWithReservation: the provider's lock, then those of the orders.
Locked(p) == ProviderFree /\ \A e \in items[p] : OrderFree(OrderOf[e])

SetPayout(p, s) == payout' = [payout EXCEPT ![p] = s] /\ UNCHANGED <<items, sentTo>>

Approve(p) ==
  /\ Locked(p) /\ payout[p] = "REQUESTED" /\ Reserved(p)
  /\ destination[sentTo[p]] = "reviewed"
  /\ SetPayout(p, "APPROVED")
  /\ UNCHANGED <<earning, ledger, tx>> /\ RequestFrame

\* Slips: no entry says that the earnings are free again; a payout can be taken
\* back after it was paid.
ReleaseUnbooked(p, s) ==
  /\ Locked(p) /\ payout[p] = "REQUESTED" /\ Reserved(p)
  /\ SetPayout(p, s)
  /\ Become(items[p], "AVAILABLE") /\ UNCHANGED ledger
  /\ UNCHANGED tx /\ RequestFrame
ReleaseLate(p, s) ==
  /\ Locked(p) /\ payout[p] \in {"REQUESTED", "PAID"}
  /\ SetPayout(p, s)
  /\ Become(items[p], "AVAILABLE") /\ Book(items[p], "RELEASED")
  /\ UNCHANGED tx /\ RequestFrame

\* cancel and reject: releaseReservation
ReleaseReservation(p, s) ==
  /\ Locked(p) /\ payout[p] = "REQUESTED" /\ Reserved(p)
  /\ SetPayout(p, s)
  /\ Become(items[p], "AVAILABLE") /\ Book(items[p], "RELEASED")
  /\ UNCHANGED tx /\ RequestFrame

BeginManual(p) ==
  /\ Locked(p) /\ payout[p] = "APPROVED" /\ Reserved(p)
  /\ SetPayout(p, "PROCESSING")
  /\ UNCHANGED <<earning, ledger, tx>> /\ RequestFrame

SettleManual(p) ==
  /\ Locked(p) /\ payout[p] = "PROCESSING" /\ Reserved(p)
  /\ SetPayout(p, "PAID")
  /\ Become(items[p], "PAID_OUT") /\ Book(items[p], "PAID_OUT")
  /\ UNCHANGED tx /\ RequestFrame

-----------------------------------------------------------------------------
Final == {"CANCELLED", "REJECTED"}

PayoutStep(p) ==
  \/ Approve(p) \/ BeginManual(p) \/ SettleManual(p)
  \/ \E s \in Final : ReleaseReservation(p, s)

Next ==
  \/ \E o \in Orders : Complete(o)
  \/ \E e \in Earning :
       \/ Ripen(e) \/ OpenDispute(e)
       \/ \E for \in {"client", "provider"} : ResolveDispute(e, for)
       \/ \E r \in Reason :
            \/ ReadForRefund(e, r) \/ PrepareRefund(e, r) \/ AbandonRefund(e, r)
            \/ RefundSucceeds(e, r) \/ RefundFails(e, r) \/ MarkUnsure(e, r)
  \/ \E d \in Destination :
       \/ CreateDestination(d) \/ ReviewDestination(d) \/ DeactivateDestination(d)
       \/ \E p \in Payout : BeginRequest(p, d)
  \/ LockOrders \/ SelectEarnings \/ Reserve \/ RollBack
  \/ \E p \in Payout : PayoutStep(p)

Spec == Init /\ [][Next]_vars

-----------------------------------------------------------------------------
(* Properties *)

\* Every earning of a payout that is requested, approved or under way is set
\* aside for it and for no other, and nothing else is (assertReservedPayout never
\* throws): a refund, a dispute or another request cannot get hold of it.
ReservationReconciles ==
  /\ \A p \in Payout : payout[p] \in {"REQUESTED", "APPROVED", "PROCESSING"} => Reserved(p)
  /\ \A e \in Earning : earning[e] \in {"PAYOUT_PROCESSING", "PAID_OUT"} =>
       Cardinality({p \in Payout : payout[p] \in Reserving /\ e \in items[p]}) = 1

\* The statement of a provider's earnings (ProviderEarningsService.list) adds up
\* for every earning, so it never answers "accounting is inconsistent".
StatementReconciles(e) ==
  LET n == ledger[e] IN
  /\ earning[e] = "PENDING" => n["RELEASE"] = 0
  /\ earning[e] = "AVAILABLE" => n["RELEASE"] = 1
  /\ n["REVERSAL"] = IF earning[e] = "REFUNDED" THEN 1 ELSE 0
  /\ earning[e] \in {"PAYOUT_PROCESSING", "PAID_OUT"} =>
       /\ n["RELEASE"] = 1 /\ n["RESERVED"] = n["RELEASED"] + 1
       /\ n["PAID_OUT"] = IF earning[e] = "PAID_OUT" THEN 1 ELSE 0
  /\ earning[e] \notin {"PAYOUT_PROCESSING", "PAID_OUT"} => n["RESERVED"] = n["RELEASED"]
AccountsReconcile == \A e \in Earning : StatementReconciles(e)

\* What a dispute has frozen stays frozen while the dispute lasts, unless the
\* client gets it back: no failed refund and no cancelled payout releases it.
DisputeHolds == \A e \in dispute : earning[e] \in {"FROZEN", "REFUNDED"}

\* An earning is reserved no earlier than a day after its release, and a refund
\* not known to have failed is never overtaken by a payout.
HoldRespected ==
  \A e \in Earning : earning[e] \in {"PAYOUT_PROCESSING", "PAID_OUT"} =>
    ripe[e] /\ \A r \in Reason : refund[e][r] \notin {"ACTIVE", "SUCCEEDED"}

\* The detailed module implements Custody.
Money == [e \in Earning |->
  IF earning[e] = "PAYOUT_PROCESSING" THEN "reserved"
  ELSE IF earning[e] = "PAID_OUT" THEN "provider"
  ELSE IF earning[e] = "REFUNDED" THEN "client" ELSE "ours"]
C == INSTANCE Custody WITH money <- Money

\* Money goes to the provider or to the client, once and for good, and never to
\* the client while it is set aside for the provider.
KeepsCustody == C!CustodySpec
-----------------------------------------------------------------------------
(* What makes them inductive, when no earlier dispute was decided *)

\* What a request has selected is free of refunds, or will not be found available.
TxInv ==
  /\ ~ProviderFree => tx.payout \in Payout /\ tx.to \in Destination /\ payout[tx.payout] = "NONE"
  /\ tx.stage = "selected" =>
       /\ tx.rows # {}
       /\ \A e \in tx.rows :
            /\ ripe[e] /\ ledger[e]["RELEASE"] = 1
            /\ \A r \in Reason : refund[e][r] = "ACTIVE" \/ <<e, r>> \in preparing => e \in decided

\* An earning is set aside for one payout, and paid out with it.
ItemsInv ==
  /\ \A p \in Payout :
       /\ payout[p] \in {"REQUESTED", "APPROVED", "PROCESSING"} => Reserved(p)
       /\ payout[p] = "PAID" => \A e \in items[p] : earning[e] = "PAID_OUT"
  /\ \A e \in Earning : earning[e] \in {"PAYOUT_PROCESSING", "PAID_OUT"} => ActiveReservation(e)
  /\ \A p, q \in Payout : payout[p] \in Reserving /\ payout[q] \in Reserving /\ items[p] \cap items[q] # {} => p = q

LedgerInv ==
  /\ AccountsReconcile
  /\ \A e \in Earning : ledger[e]["PAID_OUT"] = IF earning[e] = "PAID_OUT" THEN 1 ELSE 0

\* Frozen by a dispute, an earning goes back to what its entries say.
DisputeInv ==
  /\ DisputeHolds
  /\ \A e \in dispute :
       /\ e \notin decided /\ held[e] \in {"PENDING", "AVAILABLE"}
       /\ ledger[e]["RELEASE"] = IF held[e] = "AVAILABLE" THEN 1 ELSE 0
  /\ \A e \in decided : earning[e] \in {"FROZEN", "REFUNDED"}

\* An earning stays what the preparation of its refund has read.
PreparingInv ==
  /\ \A e \in Earning, r \in Reason : <<e, r>> \in preparing =>
       /\ earning[e] = before[e][r] /\ earning[e] \in {"PENDING", "FROZEN"}
       /\ e \notin dispute \cup decided \/ earning[e] = "FROZEN"
       /\ refund[e][r] = "NONE" /\ ~\E s \in Reason : refund[e][s] = "ACTIVE"
  /\ \A x, y \in Earning, r, s \in Reason :
       <<x, r>> \in preparing /\ <<y, s>> \in preparing /\ OrderOf[x] = OrderOf[y] => x = y /\ r = s

RefundsInv ==
  \A e \in Earning, r \in Reason :
    /\ refund[e][r] = "ACTIVE" =>
         /\ earning[e] \in {"PENDING", "AVAILABLE", "FROZEN"} /\ before[e][r] \in {"PENDING", "FROZEN"}
         /\ \A s \in Reason : refund[e][s] = "ACTIVE" => s = r
         /\ before[e][r] = "PENDING" =>
              earning[e] = "FROZEN" /\ e \notin dispute \cup decided /\ ledger[e]["RELEASE"] = 0
    /\ refund[e][r] = "SUCCEEDED" => earning[e] = "REFUNDED"

PayoutInv ==
  /\ TypeOK /\ TxInv /\ ItemsInv /\ LedgerInv /\ DisputeInv /\ PreparingInv /\ RefundsInv
  /\ HoldRespected
=============================================================================
