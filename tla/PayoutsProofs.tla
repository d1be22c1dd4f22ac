---------------------------- MODULE PayoutsProofs ----------------------------
(***************************************************************************)
(* Payouts keep the invariant of their bookkeeping and implement Custody,  *)
(* for any number of earnings, orders, payouts and destinations, as long   *)
(* as no dispute was decided before the earnings the module begins with.   *)
(***************************************************************************)
EXTENDS Payouts, FiniteSetTheorems, TLAPS

-----------------------------------------------------------------------------
(* What the helpers of the module do *)

LEMMA Became ==
  ASSUME TypeOK, NEW S, NEW s \in EarningStatus, Become(S, s)
  PROVE  /\ earning' \in [Earning -> EarningStatus]
         /\ \A e \in Earning : earning'[e] = IF e \in S THEN s ELSE earning[e]
BY DEF TypeOK, Become

LEMMA Booked ==
  ASSUME TypeOK, NEW S, NEW kind \in EntryKind, Book(S, kind)
  PROVE  /\ ledger' \in [Earning -> [EntryKind -> Nat]]
         /\ \A e \in Earning, k \in EntryKind :
              ledger'[e][k] = IF e \in S /\ k = kind THEN ledger[e][k] + 1 ELSE ledger[e][k]
<1>1. \A e \in Earning : ledger[e] \in [EntryKind -> Nat]
  BY DEF TypeOK
<1>2. ledger' = [e \in Earning |-> IF e \in S THEN [ledger[e] EXCEPT ![kind] = ledger[e][kind] + 1] ELSE ledger[e]]
  BY DEF Book
<1>3. \A e \in Earning : [ledger[e] EXCEPT ![kind] = ledger[e][kind] + 1] \in [EntryKind -> Nat]
  BY <1>1
<1>4. \A e \in Earning, k \in EntryKind :
        [ledger[e] EXCEPT ![kind] = ledger[e][kind] + 1][k]
          = IF k = kind THEN ledger[e][k] + 1 ELSE ledger[e][k]
  BY <1>1
<1> QED BY <1>1, <1>2, <1>3, <1>4

LEMMA EntriesAreKinds ==
  /\ "RELEASE" \in EntryKind /\ "RESERVED" \in EntryKind /\ "RELEASED" \in EntryKind
  /\ "PAID_OUT" \in EntryKind /\ "REVERSAL" \in EntryKind
BY DEF EntryKind

\* An earning that is reserved is reserved once.
LEMMA OnePayout ==
  ASSUME PayoutInv, NEW e \in Earning, earning[e] \in {"PAYOUT_PROCESSING", "PAID_OUT"}
  PROVE  Cardinality({p \in Payout : payout[p] \in Reserving /\ e \in items[p]}) = 1
<1>1. PICK p \in Payout : payout[p] \in Reserving /\ e \in items[p]
  BY DEF PayoutInv, ItemsInv, ActiveReservation
<1>2. {q \in Payout : payout[q] \in Reserving /\ e \in items[q]} = {p}
  BY <1>1 DEF PayoutInv, ItemsInv
<1> QED BY <1>2, FS_Singleton

LEMMA InvReconciles == PayoutInv => ReservationReconciles
BY OnePayout DEF PayoutInv, ItemsInv, ReservationReconciles

-----------------------------------------------------------------------------
(* Steps that move no money and touch no dispute or refund *)

LEMMA InitHolds == ~OldDecision /\ Init => PayoutInv
<1> SUFFICES ASSUME ~OldDecision, Init PROVE PayoutInv
  OBVIOUS
<1>1. decided = {}
  BY DEF Init
<1>2. TypeOK
  BY <1>1 DEF Init, TypeOK, Nobody, EarningStatus, PayoutStatus
<1>3. TxInv /\ PreparingInv
  BY DEF Init, TxInv, PreparingInv, Nobody, ProviderFree
<1>4. ItemsInv /\ HoldRespected
  BY DEF Init, ItemsInv, HoldRespected, Reserving
<1>5. LedgerInv
  BY DEF Init, LedgerInv, AccountsReconcile, StatementReconciles, EntryKind
<1>6. DisputeInv /\ RefundsInv
  BY <1>1 DEF Init, DisputeInv, DisputeHolds, RefundsInv
<1> QED BY <1>2, <1>3, <1>4, <1>5, <1>6 DEF PayoutInv

\* The invariant says nothing of destinations, and of the request only this.
LEMMA RequestStep ==
  ASSUME PayoutInv, UNCHANGED <<earning, ledger, workVars, refundVars, payoutVars>>,
         TxInv', tx'.payout \in Payout \cup {"none"}, tx'.to \in Destination \cup {"none"},
         tx'.stage \in {"idle", "began", "locked", "selected"},
         tx'.orders \subseteq Orders, tx'.rows \subseteq Earning,
         destination' \in [Destination -> {"absent", "unverified", "reviewed", "inactive"}]
  PROVE  PayoutInv'
<1>1. TypeOK'
  BY DEF PayoutInv, TypeOK, workVars, refundVars, payoutVars
<1>2. ItemsInv' /\ HoldRespected'
  BY DEF PayoutInv, ItemsInv, HoldRespected, Reserved, ActiveReservation, workVars, refundVars, payoutVars
<1>3. LedgerInv' /\ DisputeInv'
  BY DEF PayoutInv, LedgerInv, AccountsReconcile, StatementReconciles, DisputeInv, DisputeHolds, workVars
<1>4. PreparingInv' /\ RefundsInv'
  BY DEF PayoutInv, PreparingInv, RefundsInv, workVars, refundVars
<1> QED BY <1>1, <1>2, <1>3, <1>4 DEF PayoutInv

LEMMA DestinationStep ==
  ASSUME PayoutInv, NEW d \in Destination,
         CreateDestination(d) \/ ReviewDestination(d) \/ DeactivateDestination(d)
  PROVE  PayoutInv' /\ UNCHANGED earning
<1>1. PICK s \in {"unverified", "reviewed", "inactive"} : SetDestination(d, s)
  BY DEF CreateDestination, ReviewDestination, DeactivateDestination
<1>2. destination' \in [Destination -> {"absent", "unverified", "reviewed", "inactive"}]
  BY <1>1 DEF SetDestination, PayoutInv, TypeOK
<1>3. TxInv'
  BY <1>1 DEF SetDestination, PayoutInv, TxInv, ProviderFree, workVars, refundVars, payoutVars
<1> QED BY <1>1, <1>2, <1>3, RequestStep DEF SetDestination, PayoutInv, TypeOK

LEMMA BeginStep ==
  ASSUME PayoutInv, NEW p \in Payout, NEW d \in Destination, BeginRequest(p, d)
  PROVE  PayoutInv' /\ UNCHANGED earning
<1>1. TxInv'
  BY DEF BeginRequest, TxInv, ProviderFree, payoutVars
<1>2. {OrderOf[e] : e \in {x \in Earning : earning[x] = "AVAILABLE" /\ ripe[x]}} \subseteq Orders
  BY DEF Orders
<1> QED BY <1>1, <1>2, RequestStep DEF BeginRequest, RequestFrame, PayoutInv, TypeOK

LEMMA LockStep ==
  ASSUME PayoutInv, LockOrders
  PROVE  PayoutInv' /\ UNCHANGED earning
<1>1. tx'.stage = "locked" /\ tx'.payout = tx.payout /\ tx'.to = tx.to
      /\ tx'.orders = tx.orders /\ tx'.rows = tx.rows
  BY DEF LockOrders, Stage
<1>2. TxInv'
  BY <1>1 DEF LockOrders, PayoutInv, TxInv, ProviderFree, payoutVars
<1> QED BY <1>1, <1>2, RequestStep DEF LockOrders, RequestFrame, PayoutInv, TypeOK

LEMMA SelectStep ==
  ASSUME PayoutInv, SelectEarnings
  PROVE  PayoutInv' /\ UNCHANGED earning
<1> DEFINE rows == {e \in Earning : Withdrawable(e)}
<1>1. CASE rows = {}
  <2>1. tx' = Nobody
    BY <1>1 DEF SelectEarnings
  <2>2. TxInv'
    BY <2>1 DEF TxInv, ProviderFree, Nobody
  <2> QED BY <2>1, <2>2, RequestStep DEF SelectEarnings, RequestFrame, Nobody, PayoutInv, TypeOK
<1>2. CASE rows # {}
  <2>1. /\ tx'.stage = "selected" /\ tx'.rows = rows
        /\ tx'.payout = tx.payout /\ tx'.to = tx.to /\ tx'.orders = tx.orders
    BY <1>2 DEF SelectEarnings
  <2>2. ASSUME NEW e \in rows
        PROVE  /\ ripe[e] /\ ledger[e]["RELEASE"] = 1
               /\ \A r \in Reason : refund[e][r] # "ACTIVE" /\ <<e, r>> \notin preparing
    <3>1. e \in Earning /\ earning[e] = "AVAILABLE" /\ ripe[e] /\ ~ActiveRefund(e)
      BY <2>2 DEF Withdrawable
    <3> QED BY <3>1 DEF PayoutInv, LedgerInv, AccountsReconcile, StatementReconciles, PreparingInv, ActiveRefund
  <2>3. TxInv'
    BY <1>2, <2>1, <2>2 DEF SelectEarnings, PayoutInv, TxInv, ProviderFree, RequestFrame, workVars, refundVars, payoutVars
  <2> QED BY <2>1, <2>3, RequestStep DEF SelectEarnings, RequestFrame, PayoutInv, TypeOK
<1> QED BY <1>1, <1>2

LEMMA RollBackStep ==
  ASSUME PayoutInv, RollBack
  PROVE  PayoutInv' /\ UNCHANGED earning
<1>1. TxInv'
  BY DEF RollBack, TxInv, ProviderFree, Nobody
<1> QED BY <1>1, RequestStep DEF RollBack, RequestFrame, Nobody, PayoutInv, TypeOK
-----------------------------------------------------------------------------
(* Payouts *)

\* Between two requests a payout moves on without its earnings.
LEMMA AdvanceStep ==
  ASSUME PayoutInv, NEW p \in Payout, Approve(p) \/ BeginManual(p)
  PROVE  PayoutInv' /\ UNCHANGED earning
<1>1. PICK s \in {"APPROVED", "PROCESSING"} :
        /\ payout[p] \in {"REQUESTED", "APPROVED"} /\ SetPayout(p, s) /\ ProviderFree
        /\ UNCHANGED <<earning, ledger, tx, destination, workVars, refundVars>>
  BY DEF Approve, BeginManual, Locked, RequestFrame
<1>2. TypeOK'
  BY <1>1 DEF SetPayout, PayoutInv, TypeOK, PayoutStatus, workVars, refundVars
<1>3. TxInv'
  BY <1>1 DEF PayoutInv, TxInv, TypeOK, ProviderFree, workVars, refundVars
<1>4. payout' = [payout EXCEPT ![p] = s] /\ items' = items /\ payout \in [Payout -> PayoutStatus]
  BY <1>1 DEF SetPayout, PayoutInv, TypeOK
<1>5. ItemsInv'
  BY <1>1, <1>4 DEF PayoutInv, ItemsInv, Reserved, ActiveReservation, Reserving
<1>6. LedgerInv' /\ DisputeInv' /\ HoldRespected'
  BY <1>1 DEF PayoutInv, LedgerInv, AccountsReconcile, StatementReconciles, DisputeInv, DisputeHolds,
              HoldRespected, workVars, refundVars
<1>7. PreparingInv' /\ RefundsInv'
  BY <1>1 DEF PayoutInv, PreparingInv, RefundsInv, workVars, refundVars
<1> QED BY <1>1, <1>2, <1>3, <1>5, <1>6, <1>7 DEF PayoutInv

\* What is selected, and still available, is of no dispute and of no refund.
LEMMA ReserveStep ==
  ASSUME PayoutInv, Reserve
  PROVE  /\ PayoutInv'
         /\ \/ UNCHANGED earning
            \/ /\ tx.rows \subseteq Earning /\ tx.rows # {} /\ Become(tx.rows, "PAYOUT_PROCESSING")
               /\ \A e \in tx.rows : earning[e] = "AVAILABLE"
<1> DEFINE rows == tx.rows
<1>1. CASE \E e \in rows : earning[e] # "AVAILABLE"
  <2>1. TxInv'
    BY DEF Reserve, TxInv, ProviderFree, Nobody
  <2> QED BY <1>1, <2>1, RequestStep DEF Reserve, RequestFrame, Nobody, PayoutInv, TypeOK
<1>2. CASE \A e \in rows : earning[e] = "AVAILABLE"
  <2>1. /\ Commit(rows, rows) /\ tx' = Nobody /\ tx.stage = "selected"
        /\ UNCHANGED <<ripe, dispute, held, decided, refund, before, preparing, destination>>
    BY <1>2 DEF Reserve, RequestFrame, workVars, refundVars
  <2>2. /\ tx.payout \in Payout /\ tx.to \in Destination /\ payout[tx.payout] = "NONE"
        /\ rows # {} /\ rows \subseteq Earning
    BY <2>1 DEF PayoutInv, TxInv, TypeOK, ProviderFree
  <2>3. ASSUME NEW e \in rows
        PROVE  /\ earning[e] = "AVAILABLE" /\ ripe[e] /\ e \notin dispute /\ e \notin decided
               /\ \A r \in Reason : refund[e][r] \notin {"ACTIVE", "SUCCEEDED"} /\ <<e, r>> \notin preparing
    <3>1. e \in Earning /\ earning[e] = "AVAILABLE"
      BY <1>2, <2>2
    <3>2. e \notin dispute /\ e \notin decided
      BY <3>1 DEF PayoutInv, DisputeInv, DisputeHolds
    <3>3. ripe[e] /\ \A r \in Reason : refund[e][r] # "ACTIVE" /\ <<e, r>> \notin preparing
      BY <2>1, <3>2 DEF PayoutInv, TxInv
    <3>4. \A r \in Reason : refund[e][r] # "SUCCEEDED"
      BY <3>1 DEF PayoutInv, RefundsInv
    <3> QED BY <3>1, <3>2, <3>3, <3>4
  <2>4. /\ earning' \in [Earning -> EarningStatus]
        /\ \A e \in Earning : earning'[e] = IF e \in rows THEN "PAYOUT_PROCESSING" ELSE earning[e]
    BY <2>1, Became DEF Commit, PayoutInv, EarningStatus
  <2>5. /\ ledger' \in [Earning -> [EntryKind -> Nat]]
        /\ \A e \in Earning, k \in EntryKind :
             ledger'[e][k] = IF e \in rows /\ k = "RESERVED" THEN ledger[e][k] + 1 ELSE ledger[e][k]
    BY <2>1, Booked, EntriesAreKinds DEF Commit, PayoutInv
  <2>6. /\ payout' = [payout EXCEPT ![tx.payout] = "REQUESTED"]
        /\ items' = [items EXCEPT ![tx.payout] = rows]
        /\ sentTo' = [sentTo EXCEPT ![tx.payout] = tx.to]
        /\ payout \in [Payout -> PayoutStatus] /\ items \in [Payout -> SUBSET Earning]
    BY <2>1 DEF Commit, PayoutInv, TypeOK
  <2>7. TypeOK'
    <3>1. payout' \in [Payout -> PayoutStatus] /\ items' \in [Payout -> SUBSET Earning]
      BY <2>2, <2>6 DEF PayoutStatus
    <3>2. sentTo' \in [Payout -> Destination \cup {"none"}]
      BY <2>2, <2>6 DEF PayoutInv, TypeOK
    <3> QED BY <2>1, <2>4, <2>5, <3>1, <3>2 DEF PayoutInv, TypeOK, Nobody
  <2>8. TxInv'
    BY <2>1 DEF TxInv, ProviderFree, Nobody
  <2>9. ItemsInv'
    <3>1. \A q \in Payout : payout[q] \in Reserving => items[q] \cap rows = {}
      BY <2>3 DEF PayoutInv, ItemsInv, Reserved, Reserving
    <3>2. \A q \in Payout \ {tx.payout} : payout'[q] = payout[q] /\ items'[q] = items[q]
      BY <2>2, <2>6
    <3>3. payout'[tx.payout] = "REQUESTED" /\ items'[tx.payout] = rows
      BY <2>2, <2>6
    <3>4. \A q \in Payout :
            /\ payout'[q] \in {"REQUESTED", "APPROVED", "PROCESSING"} => Reserved(q)'
            /\ payout'[q] = "PAID" => \A e \in items'[q] : earning'[e] = "PAID_OUT"
      BY <2>2, <2>4, <2>6, <3>1, <3>2, <3>3 DEF PayoutInv, ItemsInv, Reserved, Reserving
    <3>5. \A e \in Earning : earning'[e] \in {"PAYOUT_PROCESSING", "PAID_OUT"} => ActiveReservation(e)'
      BY <2>2, <2>4, <3>2, <3>3 DEF PayoutInv, ItemsInv, ActiveReservation, Reserving
    <3>6. \A q, r \in Payout : payout'[q] \in Reserving /\ payout'[r] \in Reserving
                               /\ items'[q] \cap items'[r] # {} => q = r
      BY <2>2, <3>1, <3>2, <3>3 DEF PayoutInv, ItemsInv
    <3> QED BY <3>4, <3>5, <3>6 DEF ItemsInv
  <2>10. \A e \in Earning : ledger'[e]["RELEASE"] = ledger[e]["RELEASE"]
    BY <2>5, EntriesAreKinds
  <2>11. LedgerInv'
    <3> SUFFICES ASSUME NEW e \in Earning
                 PROVE  /\ StatementReconciles(e)'
                        /\ ledger'[e]["PAID_OUT"] = IF earning'[e] = "PAID_OUT" THEN 1 ELSE 0
      BY DEF LedgerInv, AccountsReconcile
    <3>1. /\ StatementReconciles(e) /\ ledger[e] \in [EntryKind -> Nat]
          /\ ledger[e]["PAID_OUT"] = IF earning[e] = "PAID_OUT" THEN 1 ELSE 0
      BY DEF PayoutInv, TypeOK, LedgerInv, AccountsReconcile
    <3>2. CASE e \in rows
      <4>1. earning[e] = "AVAILABLE" /\ earning'[e] = "PAYOUT_PROCESSING"
        BY <2>3, <2>4, <3>2
      <4> HIDE DEF rows
      <4>2. /\ ledger'[e]["RESERVED"] = ledger[e]["RESERVED"] + 1 /\ ledger'[e]["RELEASED"] = ledger[e]["RELEASED"]
            /\ ledger'[e]["PAID_OUT"] = ledger[e]["PAID_OUT"] /\ ledger'[e]["REVERSAL"] = ledger[e]["REVERSAL"]
        BY <2>5, <3>2, EntriesAreKinds
      <4> QED BY <2>10, <3>1, <4>1, <4>2 DEF StatementReconciles
    <3>3. CASE e \notin rows
      <4>1. earning'[e] = earning[e] /\ \A k \in EntryKind : ledger'[e][k] = ledger[e][k]
        BY <2>4, <2>5, <3>3
      <4> QED BY <3>1, <4>1, EntriesAreKinds DEF StatementReconciles
    <3> QED BY <3>2, <3>3
  <2> HIDE DEF rows
  <2>12. DisputeInv'
    BY <2>1, <2>2, <2>3, <2>4, <2>10 DEF PayoutInv, TypeOK, DisputeInv, DisputeHolds
  <2>13. HoldRespected'
    BY <2>1, <2>3, <2>4 DEF PayoutInv, HoldRespected
  <2>14. PreparingInv'
    BY <2>1, <2>3, <2>4 DEF PayoutInv, PreparingInv
  <2>15. RefundsInv'
    <3>1. ASSUME NEW e \in rows, NEW r \in Reason PROVE refund'[e][r] \notin {"ACTIVE", "SUCCEEDED"}
      BY <2>1, <2>3, <3>1
    <3>2. \A e \in Earning \ rows : earning'[e] = earning[e]
      BY <2>4
    <3> QED BY <2>1, <2>10, <3>1, <3>2 DEF PayoutInv, RefundsInv
  <2> USE DEF rows
  <2> QED BY <1>2, <2>1, <2>2, <2>7, <2>8, <2>9, <2>11, <2>12, <2>13, <2>14, <2>15 DEF PayoutInv, Commit
<1> QED BY <1>1, <1>2

\* A payout gives its earnings back, or they are paid out.
LEMMA EndStep ==
  ASSUME PayoutInv, NEW p \in Payout,
         (\E s \in Final : ReleaseReservation(p, s)) \/ SettleManual(p)
  PROVE  /\ PayoutInv'
         /\ items[p] \subseteq Earning /\ items[p] # {} /\ \A e \in items[p] : earning[e] = "PAYOUT_PROCESSING"
         /\ Become(items[p], "AVAILABLE") \/ Become(items[p], "PAID_OUT")
<1>1. PICK s \in {"CANCELLED", "REJECTED", "PAID"} :
        /\ payout[p] \in {"REQUESTED", "PROCESSING"} /\ Reserved(p) /\ SetPayout(p, s) /\ ProviderFree
        /\ IF s = "PAID" THEN Become(items[p], "PAID_OUT") /\ Book(items[p], "PAID_OUT")
           ELSE Become(items[p], "AVAILABLE") /\ Book(items[p], "RELEASED")
        /\ UNCHANGED <<tx, destination, ripe, dispute, held, decided, refund, before, preparing>>
  BY DEF ReleaseReservation, SettleManual, Locked, Final, RequestFrame, workVars, refundVars
<1> DEFINE new  == IF s = "PAID" THEN "PAID_OUT" ELSE "AVAILABLE"
           kind == IF s = "PAID" THEN "PAID_OUT" ELSE "RELEASED"
<1>2. items[p] \subseteq Earning /\ items[p] # {} /\ \A e \in items[p] : earning[e] = "PAYOUT_PROCESSING"
  BY <1>1 DEF PayoutInv, TypeOK, Reserved
<1>3. /\ earning' \in [Earning -> EarningStatus]
      /\ \A e \in Earning : earning'[e] = IF e \in items[p] THEN new ELSE earning[e]
  BY <1>1, Became DEF PayoutInv, EarningStatus
<1>4. /\ ledger' \in [Earning -> [EntryKind -> Nat]]
      /\ \A e \in Earning, k \in EntryKind :
           ledger'[e][k] = IF e \in items[p] /\ k = kind THEN ledger[e][k] + 1 ELSE ledger[e][k]
  BY <1>1, Booked, EntriesAreKinds DEF PayoutInv
<1>5. payout' = [payout EXCEPT ![p] = s] /\ items' = items /\ sentTo' = sentTo /\ payout \in [Payout -> PayoutStatus]
  BY <1>1 DEF SetPayout, PayoutInv, TypeOK
<1>6. TypeOK'
  BY <1>1, <1>3, <1>4, <1>5 DEF PayoutInv, TypeOK, PayoutStatus
<1>7. TxInv'
  BY <1>1 DEF TxInv, ProviderFree
<1>8. ItemsInv'
  <2>1. \A q \in Payout \ {p} : payout'[q] = payout[q] /\ items'[q] = items[q]
    BY <1>5
  <2>2. payout'[p] = s /\ items'[p] = items[p] /\ payout[p] \in Reserving
    BY <1>1, <1>5 DEF Reserving
  <2>3. \A q \in Payout \ {p} : payout[q] \in Reserving => items[q] \cap items[p] = {}
    BY <2>2 DEF PayoutInv, ItemsInv
  <2>4. \A q \in Payout :
          /\ payout'[q] \in {"REQUESTED", "APPROVED", "PROCESSING"} => Reserved(q)'
          /\ payout'[q] = "PAID" => \A e \in items'[q] : earning'[e] = "PAID_OUT"
    <3>1. ASSUME NEW q \in Payout, q # p PROVE
            /\ payout'[q] \in {"REQUESTED", "APPROVED", "PROCESSING"} => Reserved(q)'
            /\ payout'[q] = "PAID" => \A e \in items'[q] : earning'[e] = "PAID_OUT"
      BY <1>3, <2>1, <2>3, <3>1 DEF PayoutInv, TypeOK, ItemsInv, Reserved, Reserving
    <3>2. s = "PAID" => \A e \in items'[p] : earning'[e] = "PAID_OUT"
      BY <1>2, <1>3, <2>2
    <3> QED BY <2>2, <3>1, <3>2
  <2>5. ASSUME NEW e \in Earning, earning'[e] \in {"PAYOUT_PROCESSING", "PAID_OUT"}
        PROVE  ActiveReservation(e)'
    <3>1. CASE e \in items[p]
      BY <1>3, <2>2, <2>5, <3>1 DEF ActiveReservation, Reserving
    <3>2. CASE e \notin items[p]
      <4>1. PICK q \in Payout : payout[q] \in Reserving /\ e \in items[q]
        BY <1>3, <2>5, <3>2 DEF PayoutInv, ItemsInv, ActiveReservation
      <4> QED BY <2>1, <3>2, <4>1 DEF ActiveReservation
    <3> QED BY <3>1, <3>2
  <2>6. \A q, r \in Payout : payout'[q] \in Reserving /\ payout'[r] \in Reserving
                             /\ items'[q] \cap items'[r] # {} => q = r
    BY <2>1, <2>2, <2>3 DEF PayoutInv, ItemsInv
  <2> QED BY <2>4, <2>5, <2>6 DEF ItemsInv
<1>9. LedgerInv'
  <2> SUFFICES ASSUME NEW e \in Earning
               PROVE  /\ StatementReconciles(e)'
                      /\ ledger'[e]["PAID_OUT"] = IF earning'[e] = "PAID_OUT" THEN 1 ELSE 0
    BY DEF LedgerInv, AccountsReconcile
  <2>1. /\ StatementReconciles(e) /\ ledger[e] \in [EntryKind -> Nat]
        /\ ledger[e]["PAID_OUT"] = IF earning[e] = "PAID_OUT" THEN 1 ELSE 0
    BY DEF PayoutInv, TypeOK, LedgerInv, AccountsReconcile
  <2>2. CASE e \in items[p]
    <3>1. earning[e] = "PAYOUT_PROCESSING" /\ earning'[e] = new
      BY <1>2, <1>3, <2>2
    <3>2. \A k \in EntryKind : ledger'[e][k] = IF k = kind THEN ledger[e][k] + 1 ELSE ledger[e][k]
      BY <1>4, <2>2
    <3>3. /\ ledger'[e]["RELEASE"] = ledger[e]["RELEASE"] /\ ledger'[e]["REVERSAL"] = ledger[e]["REVERSAL"]
          /\ ledger'[e]["RESERVED"] = ledger[e]["RESERVED"]
          /\ ledger'[e]["RELEASED"] = IF s = "PAID" THEN ledger[e]["RELEASED"] ELSE ledger[e]["RELEASED"] + 1
          /\ ledger'[e]["PAID_OUT"] = IF s = "PAID" THEN ledger[e]["PAID_OUT"] + 1 ELSE ledger[e]["PAID_OUT"]
      BY <3>2, EntriesAreKinds
    <3> QED BY <2>1, <3>1, <3>3, EntriesAreKinds DEF StatementReconciles
  <2>3. CASE e \notin items[p]
    <3>1. earning'[e] = earning[e] /\ \A k \in EntryKind : ledger'[e][k] = ledger[e][k]
      BY <1>3, <1>4, <2>3
    <3> QED BY <2>1, <3>1, EntriesAreKinds DEF StatementReconciles
  <2> QED BY <2>2, <2>3
<1>10. \A e \in Earning : ledger'[e]["RELEASE"] = ledger[e]["RELEASE"]
  BY <1>4, EntriesAreKinds
<1>11. new = "PAID_OUT" \/ new = "AVAILABLE"
  OBVIOUS
<1> HIDE DEF new, kind
<1>13. DisputeInv'
  <2>1. \A e \in items[p] : e \notin dispute /\ e \notin decided
    BY <1>2 DEF PayoutInv, DisputeInv, DisputeHolds
  <2>2. \A e \in Earning \ items[p] : earning'[e] = earning[e]
    BY <1>3
  <2>3. dispute \subseteq Earning /\ decided \subseteq Earning
    BY DEF PayoutInv, TypeOK
  <2> QED BY <1>1, <1>10, <2>1, <2>2, <2>3 DEF PayoutInv, DisputeInv, DisputeHolds
<1>14. HoldRespected'
  BY <1>1, <1>2, <1>3, <1>11 DEF PayoutInv, HoldRespected
<1>15. PreparingInv'
  BY <1>1, <1>2, <1>3 DEF PayoutInv, PreparingInv
<1>16. RefundsInv'
  <2>1. ASSUME NEW e \in items[p], NEW r \in Reason PROVE refund'[e][r] \notin {"ACTIVE", "SUCCEEDED"}
    BY <1>1, <1>2, <2>1 DEF PayoutInv, RefundsInv
  <2>2. \A e \in Earning \ items[p] : earning'[e] = earning[e]
    BY <1>3
  <2> QED BY <1>1, <1>10, <2>1, <2>2 DEF PayoutInv, RefundsInv
<1> USE DEF new, kind
<1> QED BY <1>1, <1>2, <1>6, <1>7, <1>8, <1>9, <1>13, <1>14, <1>15, <1>16 DEF PayoutInv
-----------------------------------------------------------------------------
(* Completion, disputes and refunds *)

\* What all of these leave alone.
LEMMA ItemsKept ==
  ASSUME PayoutInv, UNCHANGED payoutVars,
         \A e \in Earning : earning'[e] = earning[e]
                            \/ {earning[e], earning'[e]} \cap {"PAYOUT_PROCESSING", "PAID_OUT"} = {}
  PROVE  ItemsInv'
<1>1. payout' = payout /\ items' = items /\ \A p \in Payout : items[p] \subseteq Earning
  BY DEF payoutVars, PayoutInv, TypeOK
<1>2. \A p \in Payout : Reserved(p) => Reserved(p)'
  BY <1>1 DEF Reserved
<1>3. \A p \in Payout :
        /\ payout'[p] \in {"REQUESTED", "APPROVED", "PROCESSING"} => Reserved(p)'
        /\ payout'[p] = "PAID" => \A e \in items'[p] : earning'[e] = "PAID_OUT"
  BY <1>1, <1>2 DEF PayoutInv, ItemsInv
<1>4. \A e \in Earning : earning'[e] \in {"PAYOUT_PROCESSING", "PAID_OUT"} => ActiveReservation(e)'
  BY <1>1 DEF PayoutInv, ItemsInv, ActiveReservation
<1> QED BY <1>1, <1>3, <1>4 DEF PayoutInv, ItemsInv

\* An earning changes to what its entries say.
LEMMA LedgerKept ==
  ASSUME PayoutInv, NEW x \in Earning, NEW s \in {"PENDING", "AVAILABLE", "FROZEN"},
         Become({x}, s), UNCHANGED ledger, earning[x] \in {"PENDING", "AVAILABLE", "FROZEN"},
         s = "PENDING" => ledger[x]["RELEASE"] = 0, s = "AVAILABLE" => ledger[x]["RELEASE"] = 1
  PROVE  LedgerInv'
<1>1. \A e \in Earning : earning'[e] = IF e = x THEN s ELSE earning[e]
  BY Became DEF PayoutInv, EarningStatus
<1> SUFFICES ASSUME NEW e \in Earning
             PROVE  /\ StatementReconciles(e)'
                    /\ ledger'[e]["PAID_OUT"] = IF earning'[e] = "PAID_OUT" THEN 1 ELSE 0
  BY DEF LedgerInv, AccountsReconcile
<1>2. /\ StatementReconciles(e) /\ ledger'[e] = ledger[e]
      /\ ledger[e]["PAID_OUT"] = IF earning[e] = "PAID_OUT" THEN 1 ELSE 0
  BY DEF PayoutInv, LedgerInv, AccountsReconcile
<1> QED BY <1>1, <1>2 DEF StatementReconciles

\* A free order is one of which no refund is being prepared.
LEMMA FreeOrder ==
  ASSUME NEW e \in Earning, OrderFree(OrderOf[e])
  PROVE  \A x \in Earning, r \in Reason : OrderOf[x] = OrderOf[e] => <<x, r>> \notin preparing
BY DEF OrderFree

LEMMA CompleteStep ==
  ASSUME PayoutInv, NEW o \in Orders, Complete(o)
  PROVE  PayoutInv' /\ Money' = Money
<1> DEFINE all == Within(o)
<1>1. /\ UNCHANGED <<ripe, dispute, held, decided, refund, before, preparing, payoutVars, destination, tx>>
      /\ all \subseteq Earning /\ \A e \in all : earning[e] = "PENDING" /\ OrderOf[e] = o
      /\ OrderFree(o)
  BY DEF Complete, Within, workVars, refundVars
<1>2. /\ earning' \in [Earning -> EarningStatus]
      /\ \A e \in Earning : earning'[e] = IF e \in all THEN "AVAILABLE" ELSE earning[e]
  BY Became DEF Complete, PayoutInv, EarningStatus
<1>3. /\ ledger' \in [Earning -> [EntryKind -> Nat]]
      /\ \A e \in Earning, k \in EntryKind :
           ledger'[e][k] = IF e \in all /\ k = "RELEASE" THEN ledger[e][k] + 1 ELSE ledger[e][k]
  BY Booked, EntriesAreKinds DEF Complete, PayoutInv
<1> HIDE DEF all
<1>4. TypeOK'
  BY <1>1, <1>2, <1>3 DEF PayoutInv, TypeOK, payoutVars
<1>5. ItemsInv'
  BY <1>1, <1>2, ItemsKept
<1>6. LedgerInv'
  <2> SUFFICES ASSUME NEW e \in Earning
               PROVE  /\ StatementReconciles(e)'
                      /\ ledger'[e]["PAID_OUT"] = IF earning'[e] = "PAID_OUT" THEN 1 ELSE 0
    BY DEF LedgerInv, AccountsReconcile
  <2>1. /\ StatementReconciles(e) /\ ledger[e] \in [EntryKind -> Nat]
        /\ ledger[e]["PAID_OUT"] = IF earning[e] = "PAID_OUT" THEN 1 ELSE 0
    BY DEF PayoutInv, TypeOK, LedgerInv, AccountsReconcile
  <2> QED BY <1>1, <1>2, <1>3, <2>1, EntriesAreKinds DEF StatementReconciles
<1>7. \A e \in Earning \ all : ledger'[e]["RELEASE"] = ledger[e]["RELEASE"] /\ earning'[e] = earning[e]
  BY <1>2, <1>3, EntriesAreKinds
<1>8. TxInv'
  <2>1. ASSUME tx.stage = "selected", NEW e \in tx.rows PROVE e \notin all
    <3>1. e \in Earning /\ ledger[e]["RELEASE"] = 1
      BY <2>1 DEF PayoutInv, TypeOK, TxInv
    <3> QED BY <1>1, <3>1 DEF PayoutInv, LedgerInv, AccountsReconcile, StatementReconciles
  <2>2. tx.rows \subseteq Earning
    BY DEF PayoutInv, TypeOK
  <2> QED BY <1>1, <1>7, <2>1, <2>2 DEF PayoutInv, TxInv, ProviderFree, payoutVars
<1>9. DisputeInv'
  <2>1. \A e \in all : e \notin dispute /\ e \notin decided
    BY <1>1 DEF PayoutInv, DisputeInv, DisputeHolds
  <2> QED BY <1>1, <1>7, <2>1 DEF PayoutInv, TypeOK, DisputeInv, DisputeHolds
<1>10. HoldRespected'
  BY <1>1, <1>2 DEF PayoutInv, HoldRespected
<1>11. PreparingInv'
  <2>1. \A e \in all, r \in Reason : <<e, r>> \notin preparing
    BY <1>1 DEF OrderFree
  <2> QED BY <1>1, <1>7, <2>1 DEF PayoutInv, PreparingInv
<1>12. RefundsInv'
  <2>1. ASSUME NEW e \in all, NEW r \in Reason PROVE
          /\ refund[e][r] = "ACTIVE" => before[e][r] = "FROZEN"
          /\ refund[e][r] # "SUCCEEDED" /\ earning'[e] = "AVAILABLE"
    BY <1>1, <1>2, <2>1 DEF PayoutInv, RefundsInv
  <2> QED BY <1>1, <1>7, <2>1 DEF PayoutInv, RefundsInv
<1>13. Money' = Money
  BY <1>1, <1>2 DEF Money
<1> QED BY <1>4, <1>5, <1>6, <1>8, <1>9, <1>10, <1>11, <1>12, <1>13 DEF PayoutInv

LEMMA RipenStep ==
  ASSUME PayoutInv, NEW x \in Earning, Ripen(x)
  PROVE  PayoutInv' /\ UNCHANGED earning
<1>1. /\ ripe' = [ripe EXCEPT ![x] = TRUE] /\ ripe \in [Earning -> BOOLEAN] /\ ProviderFree
      /\ UNCHANGED <<earning, ledger, dispute, held, decided, refund, before, preparing, payoutVars, destination, tx>>
  BY DEF Ripen, PayoutInv, TypeOK, refundVars
<1>2. TypeOK'
  BY <1>1 DEF PayoutInv, TypeOK, payoutVars
<1>3. TxInv' /\ ItemsInv'
  BY <1>1 DEF PayoutInv, TxInv, ItemsInv, Reserved, ActiveReservation, ProviderFree, payoutVars
<1>4. LedgerInv' /\ DisputeInv'
  BY <1>1 DEF PayoutInv, LedgerInv, AccountsReconcile, StatementReconciles, DisputeInv, DisputeHolds
<1>5. PreparingInv' /\ RefundsInv'
  BY <1>1 DEF PayoutInv, PreparingInv, RefundsInv
<1>6. HoldRespected'
  BY <1>1 DEF PayoutInv, HoldRespected
<1> QED BY <1>1, <1>2, <1>3, <1>4, <1>5, <1>6 DEF PayoutInv

LEMMA OpenStep ==
  ASSUME PayoutInv, NEW x \in Earning, OpenDispute(x)
  PROVE  PayoutInv' /\ Money' = Money
<1>1. /\ UNCHANGED <<ripe, decided, ledger, refund, before, preparing, payoutVars, destination, tx>>
      /\ dispute' = dispute \cup {x} /\ held' = [held EXCEPT ![x] = earning[x]]
      /\ earning[x] \in {"PENDING", "AVAILABLE"} /\ OrderFree(OrderOf[x]) /\ Become({x}, "FROZEN")
      /\ held \in [Earning -> {"NONE", "PENDING", "AVAILABLE"}] /\ dispute \subseteq Earning
  BY DEF OpenDispute, refundVars, PayoutInv, TypeOK
<1>2. /\ earning' \in [Earning -> EarningStatus]
      /\ \A e \in Earning : earning'[e] = IF e = x THEN "FROZEN" ELSE earning[e]
  BY <1>1, Became DEF PayoutInv, EarningStatus
<1>3. TypeOK'
  BY <1>1, <1>2 DEF PayoutInv, TypeOK, payoutVars
<1>4. ItemsInv'
  BY <1>1, <1>2, ItemsKept
<1>5. LedgerInv'
  BY <1>1, LedgerKept
<1>6. TxInv'
  BY <1>1 DEF PayoutInv, TxInv, ProviderFree, payoutVars
<1>7. ledger[x]["RELEASE"] = IF earning[x] = "AVAILABLE" THEN 1 ELSE 0
  BY <1>1 DEF PayoutInv, LedgerInv, AccountsReconcile, StatementReconciles
<1>8. x \notin dispute /\ x \notin decided
  BY <1>1 DEF PayoutInv, DisputeInv, DisputeHolds
<1>9. DisputeInv'
  <2>1. held'[x] = earning[x] /\ \A e \in dispute : held'[e] = held[e] /\ earning'[e] = earning[e]
    BY <1>1, <1>2, <1>8
  <2>2. decided \subseteq Earning
    BY DEF PayoutInv, TypeOK
  <2> QED BY <1>1, <1>2, <1>7, <1>8, <2>1, <2>2 DEF PayoutInv, DisputeInv, DisputeHolds
<1>10. HoldRespected'
  BY <1>1, <1>2 DEF PayoutInv, HoldRespected
<1>11. PreparingInv'
  <2>1. \A r \in Reason : <<x, r>> \notin preparing
    BY <1>1, FreeOrder
  <2> QED BY <1>1, <1>2, <2>1 DEF PayoutInv, PreparingInv
<1>12. RefundsInv'
  <2>1. ASSUME NEW r \in Reason PROVE
          /\ refund[x][r] = "ACTIVE" => before[x][r] = "FROZEN"
          /\ refund[x][r] # "SUCCEEDED"
    BY <1>1, <2>1 DEF PayoutInv, RefundsInv
  <2> QED BY <1>1, <1>2, <2>1 DEF PayoutInv, RefundsInv
<1>13. Money' = Money
  BY <1>1, <1>2 DEF Money
<1> QED BY <1>3, <1>4, <1>5, <1>6, <1>9, <1>10, <1>11, <1>12, <1>13 DEF PayoutInv

LEMMA ResolveStep ==
  ASSUME PayoutInv, NEW x \in Earning, NEW for \in {"client", "provider"}, ResolveDispute(x, for)
  PROVE  PayoutInv' /\ Money' = Money
<1>1. /\ UNCHANGED <<ripe, ledger, refund, before, preparing, payoutVars, destination, tx>>
      /\ x \in dispute /\ dispute' = dispute \ {x} /\ held' = [held EXCEPT ![x] = "NONE"] /\ OrderFree(OrderOf[x])
      /\ held \in [Earning -> {"NONE", "PENDING", "AVAILABLE"}] /\ dispute \subseteq Earning /\ decided \subseteq Earning
  BY DEF ResolveDispute, refundVars, PayoutInv, TypeOK
<1>2. /\ x \notin decided /\ held[x] \in {"PENDING", "AVAILABLE"} /\ earning[x] \in {"FROZEN", "REFUNDED"}
      /\ ledger[x]["RELEASE"] = IF held[x] = "AVAILABLE" THEN 1 ELSE 0
  BY <1>1 DEF PayoutInv, DisputeInv, DisputeHolds
<1>3. \A r \in Reason : <<x, r>> \notin preparing
  BY <1>1, FreeOrder
<1>4. \A e \in Earning \ {x} : held'[e] = held[e]
  BY <1>1
<1>5. CASE for = "client"
  <2>1. decided' = decided \cup {x} /\ UNCHANGED earning
    BY <1>5 DEF ResolveDispute
  <2>2. TypeOK'
    BY <1>1, <2>1 DEF PayoutInv, TypeOK, payoutVars
  <2>3. ItemsInv' /\ LedgerInv' /\ HoldRespected'
    BY <1>1, <2>1, ItemsKept DEF PayoutInv, LedgerInv, AccountsReconcile, StatementReconciles, HoldRespected
  <2>4. TxInv'
    BY <1>1, <2>1 DEF PayoutInv, TxInv, ProviderFree, payoutVars
  <2>5. DisputeInv'
    BY <1>1, <1>2, <1>4, <2>1 DEF PayoutInv, DisputeInv, DisputeHolds
  <2>6. PreparingInv'
    BY <1>1, <1>3, <2>1 DEF PayoutInv, PreparingInv
  <2>7. RefundsInv'
    BY <1>1, <2>1 DEF PayoutInv, RefundsInv
  <2> QED BY <2>1, <2>2, <2>3, <2>4, <2>5, <2>6, <2>7 DEF PayoutInv, Money
<1>6. CASE for = "provider"
  <2>1. earning[x] = "FROZEN" /\ Become({x}, held[x]) /\ decided' = decided
    BY <1>6 DEF ResolveDispute
  <2>2. /\ earning' \in [Earning -> EarningStatus]
        /\ \A e \in Earning : earning'[e] = IF e = x THEN held[x] ELSE earning[e]
    BY <1>2, <2>1, Became DEF PayoutInv, EarningStatus
  <2>3. TypeOK'
    BY <1>1, <2>1, <2>2 DEF PayoutInv, TypeOK, payoutVars
  <2>4. ItemsInv'
    BY <1>1, <1>2, <2>1, <2>2, ItemsKept
  <2>5. LedgerInv'
    BY <1>1, <1>2, <2>1, LedgerKept
  <2>6. TxInv'
    BY <1>1, <2>1 DEF PayoutInv, TxInv, ProviderFree, payoutVars
  <2>7. DisputeInv'
    BY <1>1, <1>2, <1>4, <2>1, <2>2 DEF PayoutInv, DisputeInv, DisputeHolds
  <2>8. HoldRespected'
    BY <1>1, <1>2, <2>2 DEF PayoutInv, HoldRespected
  <2>9. PreparingInv'
    BY <1>1, <1>3, <2>1, <2>2 DEF PayoutInv, PreparingInv
  <2>10. RefundsInv'
    <3>1. ASSUME NEW r \in Reason PROVE
            /\ refund[x][r] = "ACTIVE" => before[x][r] = "FROZEN"
            /\ refund[x][r] # "SUCCEEDED"
      BY <1>1, <2>1, <3>1 DEF PayoutInv, RefundsInv
    <3> QED BY <1>1, <1>2, <2>1, <2>2, <3>1 DEF PayoutInv, RefundsInv
  <2>11. Money' = Money
    BY <1>2, <2>1, <2>2 DEF Money
  <2> QED BY <2>3, <2>4, <2>5, <2>6, <2>7, <2>8, <2>9, <2>10, <2>11 DEF PayoutInv
<1> QED BY <1>5, <1>6
LEMMA ReadStep ==
  ASSUME PayoutInv, NEW x \in Earning, NEW r \in Reason, ReadForRefund(x, r)
  PROVE  PayoutInv' /\ UNCHANGED earning
<1>1. /\ UNCHANGED <<earning, ledger, ripe, dispute, held, decided, refund, payoutVars, destination, tx>>
      /\ preparing' = preparing \cup {<<x, r>>} /\ before' = [before EXCEPT ![x][r] = earning[x]]
      /\ OrderFree(OrderOf[x]) /\ refund[x][r] = "NONE" /\ ~ActiveRefund(x)
      /\ earning[x] \notin {"PAID_OUT", "PAYOUT_PROCESSING", "REFUNDED"}
      /\ r = "ADMIN_EXCEPTION" => ledger[x]["RELEASE"] = 0
      /\ r = "DISPUTE_CLIENT_WIN" => x \in decided
  BY DEF ReadForRefund, Refundable, workVars
<1>2. earning[x] \in {"PENDING", "FROZEN"}
  <2>1. CASE r = "ADMIN_EXCEPTION"
    <3>1. earning[x] \in EarningStatus /\ earning[x] # "AVAILABLE"
      BY <1>1, <2>1 DEF PayoutInv, TypeOK, LedgerInv, AccountsReconcile, StatementReconciles
    <3> QED BY <1>1, <3>1 DEF EarningStatus
  <2>2. CASE r = "DISPUTE_CLIENT_WIN"
    BY <1>1, <2>2 DEF PayoutInv, DisputeInv
  <2> QED BY <2>1, <2>2 DEF Reason
<1>3. before \in [Earning -> [Reason -> {"NONE", "PENDING", "AVAILABLE", "FROZEN"}]]
  BY DEF PayoutInv, TypeOK
<1>4. /\ before' \in [Earning -> [Reason -> {"NONE", "PENDING", "AVAILABLE", "FROZEN"}]]
      /\ \A e \in Earning, s \in Reason :
           before'[e][s] = IF e = x /\ s = r THEN earning[x] ELSE before[e][s]
  BY <1>1, <1>2, <1>3
<1>5. TypeOK'
  BY <1>1, <1>4 DEF PayoutInv, TypeOK, payoutVars
<1>6. ItemsInv' /\ LedgerInv' /\ HoldRespected' /\ DisputeInv'
  BY <1>1, ItemsKept DEF PayoutInv, LedgerInv, AccountsReconcile, StatementReconciles, HoldRespected,
                         DisputeInv, DisputeHolds
<1>7. TxInv'
  <2>1. ASSUME tx.stage = "selected", x \in tx.rows PROVE x \in decided
    <3>1. ledger[x]["RELEASE"] = 1
      BY <2>1 DEF PayoutInv, TxInv
    <3> QED BY <1>1, <3>1 DEF Reason
  <2>2. \A e, s : <<e, s>> \in preparing' => <<e, s>> \in preparing \/ e = x
    BY <1>1
  <2> QED BY <1>1, <2>1, <2>2 DEF PayoutInv, TxInv, ProviderFree, payoutVars
<1>8. PreparingInv'
  <2>1. \A e \in Earning, s \in Reason : OrderOf[e] = OrderOf[x] => <<e, s>> \notin preparing
    BY <1>1, FreeOrder
  <2>2. \A e \in Earning, s \in Reason : <<e, s>> \in preparing' <=> <<e, s>> \in preparing \/ (e = x /\ s = r)
    BY <1>1
  <2>3. x \in dispute \cup decided => earning[x] = "FROZEN"
    BY <1>2 DEF PayoutInv, DisputeInv, DisputeHolds
  <2>4. ASSUME NEW e \in Earning, NEW s \in Reason, <<e, s>> \in preparing'
        PROVE  /\ earning'[e] = before'[e][s] /\ earning'[e] \in {"PENDING", "FROZEN"}
               /\ e \notin dispute' \cup decided' \/ earning'[e] = "FROZEN"
               /\ refund'[e][s] = "NONE" /\ ~\E u \in Reason : refund'[e][u] = "ACTIVE"
    <3>1. CASE e = x
      <4>1. s = r
        BY <2>1, <2>2, <2>4, <3>1
      <4> QED BY <1>1, <1>2, <1>4, <2>3, <3>1, <4>1 DEF ActiveRefund
    <3>2. CASE e # x
      <4>1. before'[e][s] = before[e][s] /\ <<e, s>> \in preparing
        BY <1>4, <2>2, <2>4, <3>2
      <4> QED BY <1>1, <4>1 DEF PayoutInv, PreparingInv
    <3> QED BY <3>1, <3>2
  <2>5. \A e, y \in Earning, s, u \in Reason :
          <<e, s>> \in preparing' /\ <<y, u>> \in preparing' /\ OrderOf[e] = OrderOf[y] => e = y /\ s = u
    BY <2>1, <2>2 DEF PayoutInv, PreparingInv
  <2> QED BY <2>4, <2>5 DEF PreparingInv
<1>9. RefundsInv'
  <2>1. \A s \in Reason : refund[x][s] # "ACTIVE"
    BY <1>1 DEF ActiveRefund
  <2>2. \A e \in Earning, s \in Reason : refund[e][s] = "ACTIVE" => before'[e][s] = before[e][s]
    BY <1>4, <2>1
  <2> QED BY <1>1, <2>2 DEF PayoutInv, RefundsInv
<1> QED BY <1>1, <1>5, <1>6, <1>7, <1>8, <1>9 DEF PayoutInv

LEMMA PrepareStep ==
  ASSUME PayoutInv, NEW x \in Earning, NEW r \in Reason, PrepareRefund(x, r)
  PROVE  PayoutInv' /\ Money' = Money
<1>1. /\ UNCHANGED <<ledger, ripe, dispute, held, decided, before, payoutVars, destination, tx>>
      /\ <<x, r>> \in preparing /\ preparing' = preparing \ {<<x, r>>}
      /\ refund' = [refund EXCEPT ![x][r] = "ACTIVE"]
      /\ refund \in [Earning -> [Reason -> {"NONE", "ACTIVE", "FAILED", "UNSURE", "SUCCEEDED"}]]
  BY DEF PrepareRefund, workVars, PayoutInv, TypeOK
<1>2. /\ earning[x] = before[x][r] /\ earning[x] \in {"PENDING", "FROZEN"}
      /\ x \notin dispute \cup decided \/ earning[x] = "FROZEN"
      /\ \A s \in Reason : refund[x][s] # "ACTIVE"
  BY <1>1 DEF PayoutInv, PreparingInv
<1>3. Become({x}, "FROZEN")
  BY <1>2 DEF PrepareRefund, Become, PayoutInv, TypeOK
<1>4. /\ earning' \in [Earning -> EarningStatus]
      /\ \A e \in Earning : earning'[e] = IF e = x THEN "FROZEN" ELSE earning[e]
  BY <1>3, Became DEF PayoutInv, EarningStatus
<1>5. /\ refund' \in [Earning -> [Reason -> {"NONE", "ACTIVE", "FAILED", "UNSURE", "SUCCEEDED"}]]
      /\ \A e \in Earning, s \in Reason :
           refund'[e][s] = IF e = x /\ s = r THEN "ACTIVE" ELSE refund[e][s]
  BY <1>1
<1>6. TypeOK'
  BY <1>1, <1>4, <1>5 DEF PayoutInv, TypeOK, payoutVars
<1>7. ItemsInv'
  BY <1>1, <1>2, <1>4, ItemsKept
<1>8. LedgerInv'
  BY <1>1, <1>2, <1>3, LedgerKept
<1>9. TxInv'
  <2>1. ASSUME tx.stage = "selected", NEW e \in tx.rows, NEW s \in Reason,
               refund'[e][s] = "ACTIVE" \/ <<e, s>> \in preparing'
        PROVE  e \in decided
    <3>1. e \in Earning
      BY <2>1 DEF PayoutInv, TypeOK
    <3>2. refund[e][s] = "ACTIVE" \/ <<e, s>> \in preparing
      BY <1>1, <1>5, <2>1, <3>1
    <3> QED BY <2>1, <3>2 DEF PayoutInv, TxInv
  <2> QED BY <1>1, <2>1 DEF PayoutInv, TxInv, ProviderFree, payoutVars
<1>10. DisputeInv'
  BY <1>1, <1>4 DEF PayoutInv, TypeOK, DisputeInv, DisputeHolds
<1>11. HoldRespected'
  BY <1>1, <1>4, <1>5 DEF PayoutInv, HoldRespected
<1>12. PreparingInv'
  <2>1. \A e \in Earning, s \in Reason : <<e, s>> \in preparing' => <<e, s>> \in preparing /\ e # x
    BY <1>1 DEF PayoutInv, PreparingInv
  <2>2. \A e \in Earning \ {x}, s \in Reason : refund'[e][s] = refund[e][s] /\ earning'[e] = earning[e]
    BY <1>4, <1>5
  <2> QED BY <1>1, <2>1, <2>2 DEF PayoutInv, PreparingInv
<1>13. RefundsInv'
  <2>1. \A e \in Earning \ {x}, s \in Reason : refund'[e][s] = refund[e][s] /\ earning'[e] = earning[e]
    BY <1>4, <1>5
  <2>2. before[x][r] = "PENDING" => ledger[x]["RELEASE"] = 0 /\ x \notin dispute \cup decided
    BY <1>2 DEF PayoutInv, LedgerInv, AccountsReconcile, StatementReconciles
  <2>3. \A s \in Reason : refund'[x][s] = "ACTIVE" => s = r
    BY <1>2, <1>5
  <2>4. \A s \in Reason : refund'[x][s] # "SUCCEEDED"
    BY <1>2, <1>5 DEF PayoutInv, RefundsInv
  <2>5. \A e \in Earning \ {x}, s \in Reason :
          /\ refund'[e][s] = "ACTIVE" =>
               /\ earning'[e] \in {"PENDING", "AVAILABLE", "FROZEN"} /\ before'[e][s] \in {"PENDING", "FROZEN"}
               /\ \A u \in Reason : refund'[e][u] = "ACTIVE" => u = s
               /\ before'[e][s] = "PENDING" =>
                    earning'[e] = "FROZEN" /\ e \notin dispute' \cup decided' /\ ledger'[e]["RELEASE"] = 0
          /\ refund'[e][s] = "SUCCEEDED" => earning'[e] = "REFUNDED"
    BY <1>1, <2>1 DEF PayoutInv, RefundsInv
  <2> QED BY <1>1, <1>2, <1>4, <2>2, <2>3, <2>4, <2>5 DEF RefundsInv
<1>14. Money' = Money
  BY <1>2, <1>4 DEF Money
<1> QED BY <1>6, <1>7, <1>8, <1>9, <1>10, <1>11, <1>12, <1>13, <1>14 DEF PayoutInv

LEMMA AbandonStep ==
  ASSUME PayoutInv, NEW x \in Earning, NEW r \in Reason, AbandonRefund(x, r)
  PROVE  PayoutInv' /\ UNCHANGED earning
<1>1. /\ UNCHANGED <<earning, ledger, ripe, dispute, held, decided, refund, payoutVars, destination, tx>>
      /\ <<x, r>> \in preparing /\ preparing' = preparing \ {<<x, r>>}
      /\ before' = [before EXCEPT ![x][r] = "NONE"]
      /\ before \in [Earning -> [Reason -> {"NONE", "PENDING", "AVAILABLE", "FROZEN"}]]
  BY DEF AbandonRefund, workVars, PayoutInv, TypeOK
<1>2. /\ before' \in [Earning -> [Reason -> {"NONE", "PENDING", "AVAILABLE", "FROZEN"}]]
      /\ \A e \in Earning, s \in Reason :
           before'[e][s] = IF e = x /\ s = r THEN "NONE" ELSE before[e][s]
  BY <1>1
<1>3. TypeOK'
  BY <1>1, <1>2 DEF PayoutInv, TypeOK, payoutVars
<1>4. ItemsInv' /\ LedgerInv' /\ HoldRespected' /\ DisputeInv'
  BY <1>1, ItemsKept DEF PayoutInv, LedgerInv, AccountsReconcile, StatementReconciles, HoldRespected,
                         DisputeInv, DisputeHolds
<1>5. TxInv'
  BY <1>1 DEF PayoutInv, TxInv, ProviderFree, payoutVars
<1>6. PreparingInv'
  <2>1. \A e \in Earning, s \in Reason : <<e, s>> \in preparing' => <<e, s>> \in preparing /\ before'[e][s] = before[e][s]
    BY <1>1, <1>2
  <2> QED BY <1>1, <2>1 DEF PayoutInv, PreparingInv
<1>7. RefundsInv'
  <2>1. \A s \in Reason : refund[x][s] # "ACTIVE"
    BY <1>1 DEF PayoutInv, PreparingInv
  <2>2. \A e \in Earning, s \in Reason : refund[e][s] = "ACTIVE" => before'[e][s] = before[e][s]
    BY <1>2, <2>1
  <2> QED BY <1>1, <2>2 DEF PayoutInv, RefundsInv
<1> QED BY <1>1, <1>3, <1>4, <1>5, <1>6, <1>7 DEF PayoutInv

\* A refund that ends or becomes unsure; only one on its way moves the earning.
LEMMA RefundEnds ==
  ASSUME PayoutInv, NEW x \in Earning, NEW r \in Reason,
         RefundSucceeds(x, r) \/ RefundFails(x, r) \/ MarkUnsure(x, r)
  PROVE  /\ PayoutInv'
         /\ Money' = Money \/ (RefundSucceeds(x, r) /\ earning[x] \in {"PENDING", "AVAILABLE", "FROZEN"}
                               /\ Become({x}, "REFUNDED"))
<1>1. PICK to \in {"SUCCEEDED", "FAILED", "UNSURE"} :
        /\ UNCHANGED <<ripe, dispute, held, decided, before, preparing, payoutVars, destination, tx>>
        /\ OrderFree(OrderOf[x]) /\ refund' = [refund EXCEPT ![x][r] = to]
        /\ to = "SUCCEEDED" => RefundSucceeds(x, r)
        /\ to = "FAILED" => RefundFails(x, r)
        /\ to = "UNSURE" => MarkUnsure(x, r)
  BY DEF RefundSucceeds, RefundFails, MarkUnsure, workVars
<1>2. /\ refund' \in [Earning -> [Reason -> {"NONE", "ACTIVE", "FAILED", "UNSURE", "SUCCEEDED"}]]
      /\ \A e \in Earning, s \in Reason :
           refund'[e][s] = IF e = x /\ s = r THEN to ELSE refund[e][s]
  BY <1>1 DEF PayoutInv, TypeOK
<1>3. \A s \in Reason : <<x, s>> \notin preparing
  BY <1>1, FreeOrder
<1>4. refund[x][r] = "ACTIVE" =>
        /\ earning[x] \in {"PENDING", "AVAILABLE", "FROZEN"} /\ before[x][r] \in {"PENDING", "FROZEN"}
        /\ \A s \in Reason : refund[x][s] = "ACTIVE" => s = r
        /\ before[x][r] = "PENDING" =>
             earning[x] = "FROZEN" /\ x \notin dispute \cup decided /\ ledger[x]["RELEASE"] = 0
  BY DEF PayoutInv, RefundsInv
<1>5. TxInv' /\ PreparingInv' /\ TypeOK' /\ ItemsInv' /\ LedgerInv' /\ DisputeInv' /\ HoldRespected' /\ RefundsInv'
      /\ (Money' = Money \/ (RefundSucceeds(x, r) /\ earning[x] \in {"PENDING", "AVAILABLE", "FROZEN"}
                             /\ Become({x}, "REFUNDED")))
  <2>1. CASE to = "SUCCEEDED"
    <3>1. refund[x][r] = "ACTIVE" /\ Become({x}, "REFUNDED") /\ Book({x}, "REVERSAL")
      BY <1>1, <2>1 DEF RefundSucceeds
    <3>2. /\ earning' \in [Earning -> EarningStatus]
          /\ \A e \in Earning : earning'[e] = IF e = x THEN "REFUNDED" ELSE earning[e]
      BY <3>1, Became DEF PayoutInv, EarningStatus
    <3>3. /\ ledger' \in [Earning -> [EntryKind -> Nat]]
          /\ \A e \in Earning, k \in EntryKind :
               ledger'[e][k] = IF e \in {x} /\ k = "REVERSAL" THEN ledger[e][k] + 1 ELSE ledger[e][k]
      BY <3>1, Booked, EntriesAreKinds DEF PayoutInv
    <3>4. TypeOK'
      BY <1>1, <1>2, <3>2, <3>3 DEF PayoutInv, TypeOK, payoutVars
    <3>5. ItemsInv'
      BY <1>1, <1>4, <3>1, <3>2, ItemsKept
    <3>6. \A e \in Earning : ledger'[e]["RELEASE"] = ledger[e]["RELEASE"]
      BY <3>3, EntriesAreKinds
    <3>7. TxInv'
      <4>1. tx.rows \subseteq Earning
        BY DEF PayoutInv, TypeOK
      <4>2. \A e \in Earning, s \in Reason : refund'[e][s] = "ACTIVE" => refund[e][s] = "ACTIVE"
        BY <1>2, <2>1
      <4> QED BY <1>1, <3>6, <4>1, <4>2 DEF PayoutInv, TxInv, ProviderFree, payoutVars
    <3>8. LedgerInv'
      <4> SUFFICES ASSUME NEW e \in Earning
                   PROVE  /\ StatementReconciles(e)'
                          /\ ledger'[e]["PAID_OUT"] = IF earning'[e] = "PAID_OUT" THEN 1 ELSE 0
        BY DEF LedgerInv, AccountsReconcile
      <4>1. /\ StatementReconciles(e) /\ ledger[e] \in [EntryKind -> Nat]
            /\ ledger[e]["PAID_OUT"] = IF earning[e] = "PAID_OUT" THEN 1 ELSE 0
        BY DEF PayoutInv, TypeOK, LedgerInv, AccountsReconcile
      <4> QED BY <1>4, <3>1, <3>2, <3>3, <4>1, EntriesAreKinds DEF StatementReconciles
    <3>9. DisputeInv'
      BY <1>1, <3>2, <3>6 DEF PayoutInv, TypeOK, DisputeInv, DisputeHolds
    <3>10. HoldRespected'
      BY <1>1, <1>2, <1>4, <3>1, <3>2 DEF PayoutInv, HoldRespected
    <3>11. PreparingInv'
      BY <1>1, <1>2, <1>3, <2>1, <3>2 DEF PayoutInv, PreparingInv
    <3>12. RefundsInv'
      <4>1. \A s \in Reason : refund'[x][s] # "ACTIVE"
        BY <1>2, <1>4, <2>1, <3>1
      <4>2. \A e \in Earning \ {x}, s \in Reason : refund'[e][s] = refund[e][s] /\ earning'[e] = earning[e]
        BY <1>2, <3>2
      <4> QED BY <1>1, <3>2, <3>6, <4>1, <4>2 DEF PayoutInv, RefundsInv
    <3> QED BY <1>1, <1>4, <2>1, <3>1, <3>4, <3>5, <3>7, <3>8, <3>9, <3>10, <3>11, <3>12
  <2>2. CASE to # "SUCCEEDED" /\ UNCHANGED earning
    <3>1. UNCHANGED ledger /\ Money' = Money
      BY <1>1, <2>2 DEF RefundFails, MarkUnsure, Money
    <3>2. TypeOK'
      BY <1>1, <1>2, <2>2, <3>1 DEF PayoutInv, TypeOK, payoutVars
    <3>3. \A e \in Earning, s \in Reason :
            /\ refund'[e][s] = "ACTIVE" => refund[e][s] = "ACTIVE"
            /\ refund'[e][s] = "SUCCEEDED" => refund[e][s] = "SUCCEEDED"
            /\ e # x => refund'[e][s] = refund[e][s]
      BY <1>2, <2>2
    <3>4. ItemsInv' /\ LedgerInv' /\ DisputeInv'
      BY <1>1, <2>2, <3>1, ItemsKept DEF PayoutInv, LedgerInv, AccountsReconcile, StatementReconciles,
                                         DisputeInv, DisputeHolds
    <3>5. TxInv'
      <4>1. tx.rows \subseteq Earning
        BY DEF PayoutInv, TypeOK
      <4> QED BY <1>1, <3>1, <3>3, <4>1 DEF PayoutInv, TxInv, ProviderFree, payoutVars
    <3>6. HoldRespected' /\ RefundsInv'
      BY <1>1, <2>2, <3>1, <3>3 DEF PayoutInv, HoldRespected, RefundsInv
    <3>7. PreparingInv'
      BY <1>1, <1>3, <2>2, <3>1, <3>3 DEF PayoutInv, PreparingInv
    <3> QED BY <3>1, <3>2, <3>4, <3>5, <3>6, <3>7
  <2>3. CASE to # "SUCCEEDED" /\ ~UNCHANGED earning
    <3>1. to = "FAILED" /\ before[x][r] # "FROZEN" /\ Become({x}, before[x][r]) /\ UNCHANGED ledger
      BY <1>1, <2>3 DEF RefundFails, MarkUnsure
    <3>2. refund[x][r] = "ACTIVE" /\ before[x][r] = "PENDING" /\ earning[x] = "FROZEN"
      BY <1>1, <1>4, <3>1 DEF RefundFails
    <3>3. /\ earning' \in [Earning -> EarningStatus]
          /\ \A e \in Earning : earning'[e] = IF e = x THEN "PENDING" ELSE earning[e]
      BY <3>1, <3>2, Became DEF PayoutInv, EarningStatus
    <3>4. TypeOK'
      BY <1>1, <1>2, <3>1, <3>3 DEF PayoutInv, TypeOK, payoutVars
    <3>5. ItemsInv'
      BY <1>1, <3>2, <3>3, ItemsKept
    <3>6. LedgerInv'
      BY <1>4, <3>1, <3>2, LedgerKept
    <3>7. \A s \in Reason : refund'[x][s] # "ACTIVE" /\ refund'[x][s] # "SUCCEEDED"
      BY <1>2, <1>4, <3>1, <3>2 DEF PayoutInv, RefundsInv
    <3>8. \A e \in Earning \ {x}, s \in Reason : refund'[e][s] = refund[e][s] /\ earning'[e] = earning[e]
      BY <1>2, <3>3
    <3>9. TxInv'
      <4>1. tx.rows \subseteq Earning
        BY DEF PayoutInv, TypeOK
      <4> QED BY <1>1, <1>3, <3>1, <3>7, <3>8, <4>1 DEF PayoutInv, TxInv, ProviderFree, payoutVars
    <3>10. DisputeInv'
      <4>1. x \notin dispute /\ x \notin decided /\ dispute \subseteq Earning /\ decided \subseteq Earning
        BY <1>4, <3>2 DEF PayoutInv, TypeOK
      <4> QED BY <1>1, <3>1, <3>8, <4>1 DEF PayoutInv, DisputeInv, DisputeHolds
    <3>11. HoldRespected'
      BY <1>1, <3>3, <3>8 DEF PayoutInv, HoldRespected
    <3>12. PreparingInv'
      BY <1>1, <1>3, <3>8 DEF PayoutInv, PreparingInv
    <3>13. RefundsInv'
      BY <1>1, <3>1, <3>7, <3>8 DEF PayoutInv, RefundsInv
    <3>14. Money' = Money
      BY <3>2, <3>3 DEF Money
    <3> QED BY <3>4, <3>5, <3>6, <3>9, <3>10, <3>11, <3>12, <3>13, <3>14
  <2> QED BY <2>1, <2>2, <2>3
<1> QED BY <1>5 DEF PayoutInv

-----------------------------------------------------------------------------
(* The theorems *)

\* Every step of the payouts keeps the invariant and moves the money as Custody allows.
LEMMA StepHolds ==
  ASSUME PayoutInv, [Next]_vars
  PROVE  PayoutInv' /\ (C!CustodyNext \/ Money' = Money)
<1> DEFINE Moves == PayoutInv' /\ (C!CustodyNext \/ Money' = Money)
<1>1. UNCHANGED earning => Money' = Money
  BY DEF Money
<1>2. ASSUME NEW S \in SUBSET Earning, NEW s \in {"AVAILABLE", "PAYOUT_PROCESSING", "PAID_OUT"},
             S # {}, Become(S, s), PayoutInv,
             \/ s = "PAYOUT_PROCESSING" /\ \A e \in S : earning[e] = "AVAILABLE"
             \/ s # "PAYOUT_PROCESSING" /\ \A e \in S : earning[e] = "PAYOUT_PROCESSING"
      PROVE  C!CustodyNext
  <2>1. \A e \in Earning : earning'[e] = IF e \in S THEN s ELSE earning[e]
    BY <1>2, Became DEF PayoutInv, EarningStatus
  <2>2. CASE s = "PAYOUT_PROCESSING"
    <3>1. C!Shift(S, "ours", "reserved")
      BY <1>2, <2>1, <2>2 DEF C!Shift, Money
    <3> QED BY <3>1 DEF C!CustodyNext
  <2>3. CASE s = "AVAILABLE"
    <3>1. C!Shift(S, "reserved", "ours")
      BY <1>2, <2>1, <2>3 DEF C!Shift, Money
    <3> QED BY <3>1 DEF C!CustodyNext
  <2>4. CASE s = "PAID_OUT"
    <3>1. C!Shift(S, "reserved", "provider")
      BY <1>2, <2>1, <2>4 DEF C!Shift, Money
    <3> QED BY <3>1 DEF C!CustodyNext
  <2> QED BY <2>2, <2>3, <2>4
<1>3. ASSUME NEW e \in Earning, earning[e] \in {"PENDING", "AVAILABLE", "FROZEN"}, Become({e}, "REFUNDED")
      PROVE  C!CustodyNext
  <2>1. \A x \in Earning : earning'[x] = IF x = e THEN "REFUNDED" ELSE earning[x]
    BY <1>3, Became DEF PayoutInv, EarningStatus
  <2>2. C!Shift({e}, "ours", "client")
    BY <1>3, <2>1 DEF C!Shift, Money
  <2> QED BY <2>2 DEF C!CustodyNext
<1> HIDE DEF Moves
<1>4. CASE UNCHANGED vars
  <2>1. UNCHANGED <<earning, ledger, workVars, refundVars, payoutVars, destination, tx>>
    BY <1>4 DEF vars
  <2>2. TxInv'
    BY <2>1 DEF PayoutInv, TxInv, ProviderFree, workVars, refundVars, payoutVars
  <2>3. PayoutInv'
    BY <2>1, <2>2, RequestStep DEF PayoutInv, TypeOK
  <2> QED BY <1>1, <2>1, <2>3 DEF Moves
<1>5. ASSUME NEW o \in Orders, Complete(o) PROVE Moves
  BY <1>5, CompleteStep DEF Moves
<1>6. ASSUME NEW e \in Earning,
             Ripen(e) \/ OpenDispute(e) \/ \E for \in {"client", "provider"} : ResolveDispute(e, for)
      PROVE  Moves
  BY <1>1, <1>6, RipenStep, OpenStep, ResolveStep DEF Moves
<1>7. ASSUME NEW e \in Earning, NEW r \in Reason,
             ReadForRefund(e, r) \/ PrepareRefund(e, r) \/ AbandonRefund(e, r)
      PROVE  Moves
  BY <1>1, <1>7, ReadStep, PrepareStep, AbandonStep DEF Moves
<1>8. ASSUME NEW e \in Earning, NEW r \in Reason,
             RefundSucceeds(e, r) \/ RefundFails(e, r) \/ MarkUnsure(e, r)
      PROVE  Moves
  BY <1>3, <1>8, RefundEnds DEF Moves
<1>9. ASSUME NEW d \in Destination,
             CreateDestination(d) \/ ReviewDestination(d) \/ DeactivateDestination(d)
             \/ \E p \in Payout : BeginRequest(p, d)
      PROVE  Moves
  BY <1>1, <1>9, DestinationStep, BeginStep DEF Moves
<1>10. CASE LockOrders \/ SelectEarnings \/ RollBack
  BY <1>1, <1>10, LockStep, SelectStep, RollBackStep DEF Moves
<1>11. CASE Reserve
  BY <1>1, <1>2, <1>11, ReserveStep DEF Moves
<1>12. ASSUME NEW p \in Payout, PayoutStep(p) PROVE Moves
  <2>1. CASE Approve(p) \/ BeginManual(p)
    BY <1>1, <2>1, AdvanceStep DEF Moves
  <2>2. CASE SettleManual(p) \/ \E s \in Final : ReleaseReservation(p, s)
    <3>1. /\ PayoutInv' /\ items[p] \subseteq Earning /\ items[p] # {}
          /\ \A e \in items[p] : earning[e] = "PAYOUT_PROCESSING"
          /\ Become(items[p], "AVAILABLE") \/ Become(items[p], "PAID_OUT")
      BY <2>2, EndStep
    <3> QED BY <1>2, <3>1 DEF Moves
  <2> QED BY <1>12, <2>1, <2>2 DEF PayoutStep
<1> QED BY <1>4, <1>5, <1>6, <1>7, <1>8, <1>9, <1>10, <1>11, <1>12 DEF Next, Moves

\* The invariant of the payouts is inductive: whatever a request, a dispute and a
\* refund do to the same earnings, in any order.
THEOREM PayoutInvariance == ~OldDecision /\ Spec => []PayoutInv
<1>1. ~OldDecision /\ Init => PayoutInv
  BY InitHolds
<1>2. PayoutInv /\ [Next]_vars => PayoutInv'
  BY StepHolds
<1> QED BY <1>1, <1>2, PTL DEF Spec

\* What is set aside for a payout is there, for one payout only, until the payout
\* ends (transitionWithReservation).
THEOREM ReservationsHold == ~OldDecision /\ Spec => []ReservationReconciles
<1>1. PayoutInv => ReservationReconciles
  BY InvReconciles
<1> QED BY <1>1, PayoutInvariance, PTL

\* The statement of a provider's earnings always adds up (list).
THEOREM StatementsAddUp == ~OldDecision /\ Spec => []AccountsReconcile
<1>1. PayoutInv => AccountsReconcile
  BY DEF PayoutInv, LedgerInv
<1> QED BY <1>1, PayoutInvariance, PTL

\* Payouts, refunds and disputes together implement Custody: the money of an
\* earning goes once and for good, to the provider or to the client.
THEOREM PayoutsKeepCustody == ~OldDecision /\ Spec => KeepsCustody
<1>1. Init => C!CustodyInit
  BY DEF Init, C!CustodyInit, Money
<1>2. PayoutInv /\ [Next]_vars => [C!CustodyNext]_Money
  BY StepHolds
<1> QED BY <1>1, <1>2, PayoutInvariance, PTL DEF Spec, KeepsCustody, C!CustodySpec
=============================================================================
