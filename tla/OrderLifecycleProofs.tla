------------------------ MODULE OrderLifecycleProofs ------------------------
(***************************************************************************)
(* Theorems about the life cycle of one order, for every revision limit,   *)
(* review and response window, and every number of deliveries and          *)
(* disputes.                                                               *)
(***************************************************************************)
EXTENDS Offers, FiniteSetTheorems, WellFoundedInduction, TLAPS

-----------------------------------------------------------------------------
\* The rows keep their types.

LEMMA InitTypeOK == Init => TypeOK
  BY LimitsAssumption
  DEF Init, RowsInit, TypeOK, OrderStatus, CompletionSource, EarningKey, Original,
      Delivery, RevisionType, RevisionStatus, ChargeStatus, ActivationStatus,
      EarningStatus, DisputeRow, NoDispute, DisputeStatus, ActiveStatuses,
      Waiting, FinalStatuses, Restoring

LEMMA OrdersTypeOK == TypeOK /\ OrdersNext => TypeOK'
<1> SUFFICES ASSUME TypeOK, OrdersNext PROVE TypeOK'
  OBVIOUS
<1> USE LimitsAssumption DEF TypeOK, EarningKey, Original, Delivery
<1>1. CASE Accept \/ Reject \/ Cancel \/ Start
  BY <1>1 DEF Accept, Reject, Cancel, Start, OrderStatus, reviewVars, workVars, moneyVars
<1>2. CASE DeliverFirst
  BY <1>2 DEF DeliverFirst, SubmitVersion, OrderStatus, CompletionSource, moneyVars
<1>3. ASSUME NEW r \in OpenRevisions, DeliverRevision(r) PROVE TypeOK'
  BY <1>3 DEF DeliverRevision, SubmitVersion, OrderStatus, CompletionSource, moneyVars,
              OpenRevisions, Revisions, RevisionStatus
<1>4. CASE RequestRevision
  BY <1>4 DEF RequestRevision, Included, ActionableReview, ReviewIsCurrent, ReviewCleared, OrderStatus,
              RevisionType, RevisionStatus, moneyVars
<1>5. CASE RequestProviderCorrection
  BY <1>5 DEF RequestProviderCorrection, Claim, ActionableReview, ReviewIsCurrent,
              RevisionType, RevisionStatus, orderVars, reviewVars, moneyVars
<1>6. ASSUME NEW d \in Delivery, AcceptProviderCorrection(d) PROVE TypeOK'
  BY <1>6 DEF AcceptProviderCorrection, Claim, ReviewCleared, OrderStatus,
              RevisionType, RevisionStatus, moneyVars
<1>7. ASSUME NEW d \in Delivery, DeclineProviderCorrection(d) PROVE TypeOK'
  BY <1>7 DEF DeclineProviderCorrection, Claim, RevisionType, RevisionStatus, orderVars, reviewVars,
              moneyVars
<1>8. CASE Complete \/ ReconcileExpiredReview
  BY <1>8 DEF Complete, ReconcileExpiredReview, CompleteReviewedOrder, OrderStatus, CompletionSource,
              EarningStatus, reviewVars, workVars
<1> QED
  BY <1>1, <1>2, <1>3, <1>4, <1>5, <1>6, <1>7, <1>8
  DEF OrdersNext, Deliver, DecideProviderCorrection

LEMMA LedgerTypeOK == TypeOK /\ LedgerNext => TypeOK'
<1> SUFFICES ASSUME TypeOK, LedgerNext PROVE TypeOK'
  OBVIOUS
<1> USE LimitsAssumption DEF TypeOK, EarningKey, Original, Delivery
<1>1. CASE CreateCheckout
  BY <1>1 DEF CreateCheckout, ChargeStatus, orderVars, reviewVars, workVars
<1>2. CASE CreateExtraRevisionCheckout
  BY <1>2 DEF CreateExtraRevisionCheckout, ChargeStatus, orderVars, reviewVars, workVars
<1>3. CASE MarkPaid
  <2>1. ASSUME NEW i \in DisputeId PROVE FrozenRow(i) \in DisputeRow
    <3>1. dispute[i] \in DisputeRow
      OBVIOUS
    <3> QED
      BY <3>1 DEF FrozenRow, DisputeRow
  <2> QED
    BY <1>3, <2>1 DEF MarkPaid, ChargeStatus, EarningStatus, orderVars, reviewVars, workVars
<1>4. ASSUME NEW d \in Delivery, NEW paidInTime \in BOOLEAN, MarkRevisionPaid(d, paidInTime)
      PROVE  TypeOK'
  <2>1. CASE CanActivate(d, paidInTime)
    <3>1. /\ status' = "REVISION_REQUESTED" /\ reviewDelivery' = 0 /\ reviewLeft' = 0
          /\ revision' = [revision EXCEPT ![Extra(d)] = "OPEN"]
          /\ activation' = [activation EXCEPT ![d] = "ACTIVATED"]
          /\ earning' = [earning EXCEPT ![d] = "PENDING"]
          /\ charge' = [charge EXCEPT ![d] = "PAID"]
          /\ UNCHANGED <<revisionsUsed, completionSource, delivered, answers, dispute>>
      BY <1>4, <2>1 DEF MarkRevisionPaid, ReviewCleared
    <3> QED
      BY <3>1 DEF Extra, ChargeStatus, ActivationStatus, EarningStatus, OrderStatus,
                  RevisionType, RevisionStatus
  <2>2. CASE ~CanActivate(d, paidInTime)
    BY <1>4, <2>2 DEF MarkRevisionPaid, ChargeStatus, ActivationStatus, reviewVars
  <2> QED
    BY <2>1, <2>2
<1>5. ASSUME NEW k \in EarningKey, PaymentFailed(k) PROVE TypeOK'
  BY <1>5 DEF PaymentFailed, ChargeStatus, orderVars, reviewVars, workVars
<1> QED
  BY <1>1, <1>2, <1>3, <1>4, <1>5 DEF LedgerNext

\* A dispute row stays a dispute row when only its status, or its time, moves.
LEMMA DisputeRowUpdates ==
  ASSUME NEW row \in DisputeRow
  PROVE  /\ \A s \in DisputeStatus : [row EXCEPT !.status = s] \in DisputeRow
         /\ \A s \in DisputeStatus :
              [row EXCEPT !.status = s, !.left = ResponseWindow] \in DisputeRow
         /\ [row EXCEPT !.left = Sooner(@)] \in DisputeRow
         /\ Sooner(row.left) <= row.left
<1> USE LimitsAssumption DEF DisputeRow
<1>1. ASSUME NEW s \in DisputeStatus PROVE [row EXCEPT !.status = s] \in DisputeRow
  OBVIOUS
<1>2. ASSUME NEW s \in DisputeStatus
      PROVE  [row EXCEPT !.status = s, !.left = ResponseWindow] \in DisputeRow
  <2> DEFINE asked == [row EXCEPT !.status = s]
  <2>1. asked \in DisputeRow
    BY <1>1
  <2>2. \A r \in DisputeRow : [r EXCEPT !.left = ResponseWindow] \in DisputeRow
    OBVIOUS
  <2>3. [row EXCEPT !.status = s, !.left = ResponseWindow] = [asked EXCEPT !.left = ResponseWindow]
    OBVIOUS
  <2> QED
    BY <2>1, <2>2, <2>3, Zenon
<1>3. Sooner(row.left) \in 0 .. ResponseWindow /\ Sooner(row.left) <= row.left
  BY DEF Sooner
<1>4. [row EXCEPT !.left = Sooner(@)] \in DisputeRow
  BY <1>3
<1> QED
  BY <1>1, <1>2, <1>3, <1>4

\* Whatever a new dispute is about, it is a delivery and an earning of the order.
LEMMA DisputeTargetTyped ==
  TypeOK => TargetDelivery \in EarningKey /\ TargetPurchase \in EarningKey
<1> SUFFICES ASSUME TypeOK
             PROVE  TargetDelivery \in EarningKey /\ TargetPurchase \in EarningKey
  OBVIOUS
<1> DEFINE r == CHOOSE r \in PendingRevisions : TRUE
<1>1. CASE status = "REVISION_REQUESTED" /\ PendingRevisions # {}
  <2>1. r \in PendingRevisions
    BY <1>1
  <2>2. r \in Delivery \X RevisionType
    BY <2>1 DEF PendingRevisions, Revisions, TypeOK
  <2>3. r[1] \in Delivery
    BY <2>2
  <2> QED
    BY <1>1, <2>3 DEF TargetDelivery, TargetPurchase, EarningKey
<1>2. CASE ~(status = "REVISION_REQUESTED" /\ PendingRevisions # {})
  BY <1>2, LimitsAssumption DEF TargetDelivery, TargetPurchase, TypeOK, EarningKey, Original
<1> QED
  BY <1>1, <1>2

LEMMA DisputesTypeOK == TypeOK /\ DisputesNext => TypeOK'
<1> SUFFICES ASSUME TypeOK, NEW i \in DisputeId,
                    \/ \E by \in Parties, escalation \in BOOLEAN : OpenDispute(i, by, escalation)
                    \/ SubmitResponse(i) \/ ReconcileExpiredResponse(i)
                    \/ \E party \in Parties : RequestResponse(i, party)
                    \/ MarkReady(i) \/ BeginReview(i)
                    \/ \E decision \in FinalStatuses : Resolve(i, decision)
             PROVE  TypeOK'
  BY DEF DisputesNext
<1> USE LimitsAssumption
<1>r. dispute[i] \in DisputeRow /\ dispute \in [DisputeId -> DisputeRow]
  BY DEF TypeOK
<1>s. ASSUME NEW s \in DisputeStatus, SetStatus(i, s)
      PROVE  dispute' \in [DisputeId -> DisputeRow]
  BY <1>s, <1>r, DisputeRowUpdates DEF SetStatus
<1>t. /\ "READY_FOR_REVIEW" \in DisputeStatus /\ "UNDER_REVIEW" \in DisputeStatus
      /\ FinalStatuses \subseteq DisputeStatus
      /\ \A party \in Parties : WaitingFor(party) \in DisputeStatus
  BY DEF DisputeStatus, ActiveStatuses, FinalStatuses, Restoring, Waiting, Parties, WaitingFor
<1>1. ASSUME NEW by \in Parties, NEW escalation \in BOOLEAN, OpenDispute(i, by, escalation)
      PROVE  TypeOK'
  <2> DEFINE k == TargetPurchase
             row == [status |-> WaitingFor(CHOOSE p \in Parties : p # by),
                     left |-> ResponseWindow,
                     target |-> k,
                     targetDelivery |-> TargetDelivery,
                     preFreeze |-> earning[k],
                     paused |-> status = "SUBMITTED" /\ reviewDelivery # 0,
                     remaining |-> IF status = "SUBMITTED" /\ reviewDelivery # 0
                                   THEN reviewLeft ELSE 0]
  <2>1. TargetDelivery \in EarningKey /\ k \in EarningKey
    BY DisputeTargetTyped
  <2>2. earning[k] \in {"NONE", "PENDING", "AVAILABLE"}
    BY <1>1 DEF OpenDispute, Disputable, Freezable
  <2>3. WaitingFor(CHOOSE p \in Parties : p # by) \in DisputeStatus
    <3>1. (CHOOSE p \in Parties : p # by) \in Parties
      BY DEF Parties
    <3> QED
      BY <3>1, <1>t
  <2>4. row \in DisputeRow
    BY <2>1, <2>2, <2>3 DEF DisputeRow, TypeOK
  <2>5. /\ dispute' = [dispute EXCEPT ![i] = row]
        /\ earning' = [earning EXCEPT ![k] = IF @ = "NONE" THEN @ ELSE "FROZEN"]
        /\ UNCHANGED <<orderVars, reviewVars, workVars, charge, activation>>
    BY <1>1 DEF OpenDispute
  <2>6. dispute' \in [DisputeId -> DisputeRow]
    BY <2>4, <2>5, <1>r
  <2>7. earning' \in [EarningKey -> EarningStatus]
    BY <2>5 DEF TypeOK, EarningStatus
  <2> QED
    BY <2>5, <2>6, <2>7 DEF TypeOK, orderVars, reviewVars, workVars
<1>2. CASE SubmitResponse(i) \/ ReconcileExpiredResponse(i) \/ MarkReady(i) \/ BeginReview(i)
  <2>1. dispute' \in [DisputeId -> DisputeRow]
    BY <1>2, <1>s, <1>t DEF SubmitResponse, ReconcileExpiredResponse, MarkReady, BeginReview
  <2>2. UNCHANGED <<orderVars, reviewVars, workVars, moneyVars>>
    BY <1>2 DEF SubmitResponse, ReconcileExpiredResponse, MarkReady, BeginReview
  <2> QED
    BY <2>1, <2>2 DEF TypeOK, orderVars, reviewVars, workVars, moneyVars
<1>3. ASSUME NEW party \in Parties, RequestResponse(i, party) PROVE TypeOK'
  <2>1. dispute' \in [DisputeId -> DisputeRow]
    BY <1>3, <1>r, <1>t, DisputeRowUpdates DEF RequestResponse
  <2> QED
    BY <1>3, <2>1 DEF RequestResponse, TypeOK, orderVars, reviewVars, workVars, moneyVars
<1>4. ASSUME NEW decision \in FinalStatuses, Resolve(i, decision) PROVE TypeOK'
  <2>1. dispute' \in [DisputeId -> DisputeRow]
    BY <1>4, <1>s, <1>t DEF Resolve
  <2>2. reviewLeft' \in 0 .. ReviewWindow
    BY <1>4, <1>r DEF Resolve, ResumeReview, DisputeRow, TypeOK
  <2>3. earning' \in [EarningKey -> EarningStatus]
    BY <1>4, <1>r DEF Resolve, RestoreEarning, DisputeRow, TypeOK, EarningStatus
  <2> QED
    BY <1>4, <2>1, <2>2, <2>3 DEF Resolve, TypeOK, orderVars, workVars
<1> QED
  BY <1>1, <1>2, <1>3, <1>4

LEMMA TickTypeOK == TypeOK /\ Tick => TypeOK'
<1> SUFFICES ASSUME TypeOK, Tick PROVE TypeOK'
  OBVIOUS
<1>1. dispute' \in [DisputeId -> DisputeRow]
  BY DisputeRowUpdates DEF Tick, TypeOK
<1>2. reviewLeft' \in 0 .. ReviewWindow
  BY LimitsAssumption DEF Tick, Sooner, TypeOK
<1> QED
  BY <1>1, <1>2 DEF Tick, TypeOK, orderVars, workVars, moneyVars

\* Every reachable state of the order's rows is well typed: in particular no
\* review or response window is ever longer than the policy's and a delivery or
\* purchase is only ever named after it exists.
THEOREM TypeCorrect == Spec => []TypeOK
<1>1. TypeOK /\ [Next]_vars => TypeOK'
  BY OrdersTypeOK, LedgerTypeOK, DisputesTypeOK, TickTypeOK
  DEF Next, vars, rowVars, orderVars, reviewVars, workVars, moneyVars, TypeOK
<1> QED
  BY InitTypeOK, <1>1, PTL DEF Spec

-----------------------------------------------------------------------------
\* Deliveries, revisions and the review.

LEMMA InitWorkInv == Init => WorkInv
<1> SUFFICES ASSUME Init PROVE WorkInv
  OBVIOUS
<1>1. OpenRevisions = {}
  BY DEF Init, RowsInit, OpenRevisions, Revisions
<1>2. IncludedDeliveries = {}
  BY DEF Init, RowsInit, IncludedDeliveries, Included, RevisionType
<1> QED
  BY <1>1, <1>2, FS_EmptySet, LimitsAssumption
  DEF Init, RowsInit, WorkInv, OneRevisionInHand, ReviewFollowsWork, FreshDeliveries,
      IncludedRevisionsCounted, RevisionType

\* Nothing that leaves the work and the review alone disturbs them.
LEMMA WorkFrame ==
  WorkInv /\ UNCHANGED <<status, revisionsUsed, reviewDelivery, delivered, revision>> => WorkInv'
  BY DEF WorkInv, OneRevisionInHand, ReviewFollowsWork, FreshDeliveries, IncludedRevisionsCounted,
         OpenRevisions, Revisions, ReviewIsCurrent, IncludedDeliveries

\* The included revisions are counted right unless one of their rows appears.
LEMMA IncludedFrame ==
  ASSUME IncludedRevisionsCounted, UNCHANGED revisionsUsed,
         \A d \in Delivery : revision'[Included(d)] # "NONE" <=> revision[Included(d)] # "NONE"
  PROVE  IncludedRevisionsCounted'
<1>1. IncludedDeliveries' = IncludedDeliveries
  BY DEF IncludedDeliveries, Included
<1> QED
  BY <1>1 DEF IncludedRevisionsCounted

LEMMA DecisionsWorkInv == TypeOK /\ WorkInv /\ (Accept \/ Reject \/ Cancel \/ Start) => WorkInv'
<1> SUFFICES ASSUME TypeOK, WorkInv, Accept \/ Reject \/ Cancel \/ Start PROVE WorkInv'
  OBVIOUS
<1>1. UNCHANGED <<revisionsUsed, reviewDelivery, delivered, revision>>
  BY DEF Accept, Reject, Cancel, Start, reviewVars, workVars
<1>2. /\ status \in {"REQUESTED", "ACCEPTED"}
      /\ status' \in {"ACCEPTED", "REJECTED", "CANCELLED", "IN_PROGRESS"}
  BY DEF Accept, Reject, Cancel, Start, Startable
<1>3. OpenRevisions' = OpenRevisions /\ IncludedDeliveries' = IncludedDeliveries
  BY <1>1 DEF OpenRevisions, Revisions, IncludedDeliveries, Included
<1> QED
  BY <1>1, <1>2, <1>3
  DEF WorkInv, OneRevisionInHand, ReviewFollowsWork, FreshDeliveries, IncludedRevisionsCounted

LEMMA DeliverWorkInv == TypeOK /\ WorkInv /\ Deliver => WorkInv'
<1> SUFFICES ASSUME TypeOK, WorkInv, Deliver PROVE WorkInv'
  OBVIOUS
<1> USE LimitsAssumption
<1>1. /\ status' = "SUBMITTED" /\ delivered' = delivered + 1 /\ reviewDelivery' = delivered + 1
      /\ delivered + 1 \in Delivery /\ revisionsUsed' = revisionsUsed
      /\ delivered \in Nat
  BY DEF Deliver, DeliverFirst, DeliverRevision, SubmitVersion, TypeOK, EarningKey, Original, Delivery
<1>2. \/ status = "IN_PROGRESS" /\ revision' = revision
      \/ \E r \in OpenRevisions : /\ status = "REVISION_REQUESTED" /\ OpenRevisions = {r}
                                  /\ revision' = [revision EXCEPT ![r] = "RESOLVED"]
  BY DEF Deliver, DeliverFirst, FirstDue, DeliverRevision, RevisionDue, TheOpenRevision
<1>3. OpenRevisions' = {}
  <2>1. CASE status = "IN_PROGRESS" /\ revision' = revision
    BY <2>1 DEF WorkInv, OneRevisionInHand, OpenRevisions, Revisions
  <2>2. ASSUME NEW r \in OpenRevisions, OpenRevisions = {r},
               revision' = [revision EXCEPT ![r] = "RESOLVED"]
        PROVE  OpenRevisions' = {}
    BY <2>2 DEF OpenRevisions, Revisions, TypeOK
  <2> QED
    BY <1>2, <2>1, <2>2
<1>4. \A r \in Delivery \X RevisionType : revision'[r] # "NONE" <=> revision[r] # "NONE"
  BY <1>2 DEF OpenRevisions, Revisions, TypeOK
<1>5. \A d \in Delivery, t \in RevisionType : d > delivered => revision'[<<d, t>>] = "NONE"
  BY <1>4 DEF WorkInv, FreshDeliveries
<1>6. FreshDeliveries'
  <2>1. \A d \in Delivery : d > delivered + 1 => d > delivered
    BY <1>1 DEF Delivery
  <2>2. delivered + 1 > delivered
    BY <1>1
  <2>3. \A t \in RevisionType : revision'[<<delivered + 1, t>>] = "NONE"
    BY <1>1, <1>5, <2>2
  <2>4. revision'[Included(delivered + 1)] = "NONE" /\ revision'[Extra(delivered + 1)] = "NONE"
    BY <2>3 DEF Included, Extra, RevisionType
  <2> QED
    BY <1>1, <1>5, <2>1, <2>4 DEF FreshDeliveries, Included, Extra
<1>7. IncludedRevisionsCounted'
  BY <1>1, <1>4, IncludedFrame DEF WorkInv, Included, RevisionType
<1> QED
  BY <1>1, <1>3, <1>6, <1>7 DEF WorkInv, OneRevisionInHand, ReviewFollowsWork, ReviewIsCurrent

\* The three ways the work goes back to the provider: the review is cleared and
\* one revision of the delivery under review becomes the open one.
SentBack(t) ==
  /\ status = "SUBMITTED" /\ ReviewIsCurrent /\ OpenRevisions = {}
  /\ status' = "REVISION_REQUESTED" /\ reviewDelivery' = 0
  /\ revision' = [revision EXCEPT ![<<delivered, t>>] = "OPEN"]
  /\ UNCHANGED delivered

LEMMA SentBackWork ==
  ASSUME TypeOK, WorkInv, NEW t \in RevisionType, SentBack(t)
  PROVE  OneRevisionInHand' /\ ReviewFollowsWork' /\ FreshDeliveries'
<1> USE LimitsAssumption
<1>1. delivered \in Delivery /\ delivered # 0
  BY DEF SentBack, ReviewIsCurrent, TypeOK, EarningKey, Original, Delivery
<1>2. OpenRevisions' = {<<delivered, t>>}
  BY <1>1 DEF SentBack, OpenRevisions, Revisions, TypeOK
<1>3. \A d \in Delivery, u \in RevisionType : d > delivered => revision'[<<d, u>>] = "NONE"
  BY <1>1 DEF SentBack, WorkInv, FreshDeliveries, TypeOK, Delivery
<1> QED
  BY <1>1, <1>2, <1>3 DEF SentBack, OneRevisionInHand, ReviewFollowsWork, FreshDeliveries

LEMMA RequestRevisionWorkInv == TypeOK /\ WorkInv /\ RequestRevision => WorkInv'
<1> SUFFICES ASSUME TypeOK, WorkInv, RequestRevision PROVE WorkInv'
  OBVIOUS
<1>1. /\ status = "SUBMITTED" /\ ReviewIsCurrent /\ PendingRevisions = {}
      /\ revisionsUsed < RevisionLimit /\ revisionsUsed' = revisionsUsed + 1
      /\ revision' = [revision EXCEPT ![Included(delivered)] = "OPEN"]
  BY DEF RequestRevision, IncludedRevisionLeft, ActionableReview, ReviewIsCurrent
<1>2. SentBack("INCLUDED")
  BY <1>1 DEF RequestRevision, SentBack, ReviewCleared, PendingRevisions, OpenRevisions,
              Revisions, Included
<1>3. OneRevisionInHand' /\ ReviewFollowsWork' /\ FreshDeliveries'
  BY <1>2, SentBackWork DEF RevisionType
<1>4. IncludedRevisionsCounted'
  <2>1. delivered \in Delivery /\ delivered \notin IncludedDeliveries
    BY <1>1 DEF ReviewIsCurrent, TypeOK, EarningKey, Original, Delivery,
                WorkInv, FreshDeliveries, IncludedDeliveries
  <2>2. IncludedDeliveries' = IncludedDeliveries \cup {delivered}
    BY <1>1, <2>1 DEF IncludedDeliveries, Included, TypeOK, RevisionType
  <2>3. IsFiniteSet(IncludedDeliveries)
    <3>1. IsFiniteSet(Delivery)
      BY FS_Interval, LimitsAssumption DEF Delivery
    <3>2. IncludedDeliveries \subseteq Delivery
      BY DEF IncludedDeliveries
    <3> QED
      BY <3>1, <3>2, FS_Subset
  <2>4. Cardinality(IncludedDeliveries') = Cardinality(IncludedDeliveries) + 1
    BY <2>1, <2>2, <2>3, FS_AddElement
  <2> QED
    BY <1>1, <2>4, LimitsAssumption DEF WorkInv, IncludedRevisionsCounted, TypeOK
<1> QED
  BY <1>3, <1>4 DEF WorkInv

LEMMA AcceptCorrectionWorkInv ==
  ASSUME TypeOK, WorkInv, NEW d \in Delivery, AcceptProviderCorrection(d)
  PROVE  WorkInv'
<1>1. /\ revision' = [revision EXCEPT ![Claim(delivered)] = "OPEN"]
      /\ UNCHANGED revisionsUsed
  BY DEF AcceptProviderCorrection, ActionableReview, ReviewIsCurrent
<1>2. SentBack("PROVIDER_CORRECTION")
  BY <1>1 DEF AcceptProviderCorrection, ActionableReview, ReviewIsCurrent, SentBack,
              ReviewCleared, Claim
<1>3. OneRevisionInHand' /\ ReviewFollowsWork' /\ FreshDeliveries'
  BY <1>2, SentBackWork DEF RevisionType
<1>4. \A e \in Delivery : revision'[Included(e)] # "NONE" <=> revision[Included(e)] # "NONE"
  BY <1>1 DEF Included, Claim, TypeOK, RevisionType
<1> QED
  BY <1>1, <1>3, <1>4, IncludedFrame DEF WorkInv

\* Claiming and declining a correction concern only the claim's own row.
ClaimOnly(status2) ==
  \E d \in Delivery :
    /\ d <= delivered /\ status2 # "OPEN"
    /\ revision[Claim(d)] # "OPEN"
    /\ revision' = [revision EXCEPT ![Claim(d)] = status2]
    /\ UNCHANGED <<status, revisionsUsed, reviewDelivery, delivered>>

LEMMA ClaimOnlyWorkInv ==
  ASSUME TypeOK, WorkInv, NEW s \in RevisionStatus, ClaimOnly(s)
  PROVE  WorkInv'
<1> PICK d \in Delivery : /\ d <= delivered /\ s # "OPEN"
                          /\ revision[Claim(d)] # "OPEN"
                          /\ revision' = [revision EXCEPT ![Claim(d)] = s]
                          /\ UNCHANGED <<status, revisionsUsed, reviewDelivery, delivered>>
  BY DEF ClaimOnly
<1>1. OpenRevisions' = OpenRevisions
  BY DEF OpenRevisions, Revisions, Claim, TypeOK
<1>2. \A e \in Delivery : /\ revision'[Included(e)] = revision[Included(e)]
                          /\ revision'[Extra(e)] = revision[Extra(e)]
  BY DEF Included, Extra, Claim, TypeOK, RevisionType
<1>3. FreshDeliveries'
  <2>1. ASSUME NEW e \in Delivery, NEW t \in RevisionType, e > delivered
        PROVE  revision'[<<e, t>>] = "NONE"
    <3>1. e # d
      BY <2>1, LimitsAssumption DEF TypeOK, EarningKey, Original, Delivery
    <3> QED
      BY <2>1, <3>1 DEF Claim, WorkInv, FreshDeliveries, TypeOK
  <2>2. status = "SUBMITTED" => delivered \in Delivery
    BY DEF WorkInv, ReviewFollowsWork, ReviewIsCurrent, TypeOK, EarningKey, Original
  <2> QED
    BY <1>2, <2>1, <2>2 DEF WorkInv, FreshDeliveries, Included, Extra
<1>4. IncludedRevisionsCounted'
  BY <1>2, IncludedFrame DEF WorkInv
<1> QED
  BY <1>1, <1>3, <1>4 DEF WorkInv, OneRevisionInHand, ReviewFollowsWork, ReviewIsCurrent

LEMMA ClaimWorkInv ==
  ASSUME TypeOK, WorkInv,
         RequestProviderCorrection \/ \E d \in Delivery : DeclineProviderCorrection(d)
  PROVE  WorkInv'
<1>1. CASE RequestProviderCorrection
  <2>1. /\ delivered \in Delivery
        /\ revision[Claim(delivered)] = "NONE"
        /\ revision' = [revision EXCEPT ![Claim(delivered)] = "AWAITING"]
        /\ UNCHANGED <<status, revisionsUsed, reviewDelivery, delivered>>
    BY <1>1 DEF RequestProviderCorrection, Claimable, ActionableReview, ReviewIsCurrent,
                RevisionType, Claim, TypeOK, EarningKey, Original, orderVars, reviewVars
  <2>2. delivered <= delivered
    BY LimitsAssumption DEF TypeOK, EarningKey, Original, Delivery
  <2>3. ClaimOnly("AWAITING")
    BY <2>1, <2>2 DEF ClaimOnly
  <2> QED
    BY <2>3, ClaimOnlyWorkInv DEF RevisionStatus
<1>2. ASSUME NEW d \in Delivery, DeclineProviderCorrection(d) PROVE WorkInv'
  <2>1. /\ revision[Claim(d)] = "AWAITING"
        /\ revision' = [revision EXCEPT ![Claim(d)] = "DECLINED"]
        /\ UNCHANGED <<status, revisionsUsed, reviewDelivery, delivered>>
    BY <1>2 DEF DeclineProviderCorrection, orderVars, reviewVars
  <2>2. d > delivered => revision[Claim(d)] = "NONE"
    BY DEF WorkInv, FreshDeliveries, Claim, RevisionType
  <2>3. d <= delivered
    <3>1. d \in Nat /\ delivered \in Nat
      BY LimitsAssumption DEF TypeOK, EarningKey, Original, Delivery
    <3> QED
      BY <2>1, <2>2, <3>1
  <2>4. ClaimOnly("DECLINED")
    BY <2>1, <2>3 DEF ClaimOnly
  <2> QED
    BY <2>4, ClaimOnlyWorkInv DEF RevisionStatus
<1> QED
  BY <1>1, <1>2

LEMMA MarkRevisionPaidWorkInv ==
  ASSUME TypeOK, WorkInv, NEW d \in Delivery, NEW paidInTime \in BOOLEAN,
         MarkRevisionPaid(d, paidInTime)
  PROVE  WorkInv'
<1>1. CASE CanActivate(d, paidInTime)
  <2>1. /\ status = "SUBMITTED" /\ ReviewIsCurrent /\ d = delivered /\ PendingRevisions = {}
        /\ status' = "REVISION_REQUESTED" /\ reviewDelivery' = 0
        /\ revision' = [revision EXCEPT ![Extra(d)] = "OPEN"]
        /\ UNCHANGED <<delivered, revisionsUsed>>
    BY <1>1 DEF MarkRevisionPaid, CanActivate, ReviewCleared, ReviewIsCurrent
  <2>2. OpenRevisions = {}
    BY <2>1 DEF PendingRevisions, OpenRevisions, Revisions
  <2>3. SentBack("PAID_EXTRA")
    BY <2>1, <2>2 DEF SentBack, Extra
  <2>4. \A e \in Delivery : revision'[Included(e)] # "NONE" <=> revision[Included(e)] # "NONE"
    BY <2>1 DEF Included, Extra, TypeOK, RevisionType
  <2> QED
    BY <2>1, <2>3, <2>4, SentBackWork, IncludedFrame DEF WorkInv, RevisionType
<1>2. CASE ~CanActivate(d, paidInTime)
  BY <1>2, WorkFrame DEF MarkRevisionPaid, reviewVars
<1> QED
  BY <1>1, <1>2

LEMMA CompletionWorkInv ==
  ASSUME WorkInv, NEW source, CompleteReviewedOrder(source)
  PROVE  WorkInv'
<1>1. /\ status = "SUBMITTED" /\ status' = "COMPLETED" /\ ReviewIsCurrent /\ OpenRevisions = {}
      /\ UNCHANGED <<revisionsUsed, reviewDelivery, delivered, revision>>
  BY DEF CompleteReviewedOrder, Completable, reviewVars, workVars
<1>2. OpenRevisions' = OpenRevisions /\ IncludedDeliveries' = IncludedDeliveries
  BY <1>1 DEF OpenRevisions, Revisions, IncludedDeliveries, Included
<1> QED
  BY <1>1, <1>2 DEF WorkInv, OneRevisionInHand, ReviewFollowsWork, ReviewIsCurrent,
                    FreshDeliveries, IncludedRevisionsCounted

\* Disputes, payments that buy no revision, and the clock leave the work alone.
LEMMA OthersWorkInv ==
  ASSUME WorkInv,
         \/ CreateCheckout \/ CreateExtraRevisionCheckout \/ MarkPaid
         \/ \E k \in EarningKey : PaymentFailed(k)
         \/ DisputesNext \/ Tick \/ UNCHANGED vars
  PROVE  WorkInv'
<1>1. UNCHANGED <<status, revisionsUsed, reviewDelivery, delivered, revision>>
  BY DEF CreateCheckout, CreateExtraRevisionCheckout, MarkPaid, PaymentFailed, DisputesNext,
         OpenDispute, SubmitResponse, ReconcileExpiredResponse, RequestResponse, MarkReady,
         BeginReview, Resolve, Tick, vars, rowVars, orderVars, reviewVars, workVars
<1> QED
  BY <1>1, WorkFrame

LEMMA WorkInvKept == TypeOK /\ WorkInv /\ [Next]_vars => WorkInv'
<1> SUFFICES ASSUME TypeOK, WorkInv, [Next]_vars PROVE WorkInv'
  OBVIOUS
<1>1. CASE OrdersNext
  BY <1>1, DecisionsWorkInv, DeliverWorkInv, RequestRevisionWorkInv, AcceptCorrectionWorkInv,
     ClaimWorkInv, CompletionWorkInv
  DEF OrdersNext, DecideProviderCorrection, Complete, ReconcileExpiredReview
<1>2. CASE LedgerNext
  BY <1>2, MarkRevisionPaidWorkInv, OthersWorkInv DEF LedgerNext
<1>3. CASE DisputesNext \/ Tick \/ UNCHANGED vars
  BY <1>3, OthersWorkInv
<1> QED
  BY <1>1, <1>2, <1>3 DEF Next

-----------------------------------------------------------------------------
\* Payments and earnings.

LEMMA InitMoneyInv == Init => MoneyInv
BY DEF Init, RowsInit, MoneyInv, WorkIsPaid, NoMoneyLeaves, EarningsFollowPayments, EarningKey,
       Extra, RevisionType

Working == {"IN_PROGRESS", "SUBMITTED", "REVISION_REQUESTED", "COMPLETED"}

\* Steps that move no money keep its invariant if they only let paid work go on
\* and leave alone which deliveries were sent back for a paid revision.
LEMMA MoneyFrame ==
  ASSUME MoneyInv, UNCHANGED moneyVars, status' \in Working => PaidInFull,
         \A d \in Delivery : revision'[Extra(d)] # "NONE" <=> revision[Extra(d)] # "NONE"
  PROVE  MoneyInv'
BY DEF MoneyInv, WorkIsPaid, NoMoneyLeaves, EarningsFollowPayments, moneyVars, PaidInFull, Working

LEMMA OrderStepsMoneyInv ==
  ASSUME TypeOK, MoneyInv,
         \/ Accept \/ Reject \/ Cancel \/ Start \/ Deliver \/ RequestRevision
         \/ RequestProviderCorrection \/ DecideProviderCorrection
  PROVE  MoneyInv'
<1>1. UNCHANGED moneyVars
  BY DEF Accept, Reject, Cancel, Start, Deliver, DeliverFirst, DeliverRevision, RequestRevision,
         RequestProviderCorrection, DecideProviderCorrection, AcceptProviderCorrection,
         DeclineProviderCorrection
<1>2. status' \in Working => PaidInFull
  BY DEF Accept, Reject, Cancel, Start, Startable, Deliver, DeliverFirst, FirstDue, DeliverRevision,
         RevisionDue, RequestRevision, RequestProviderCorrection, Claimable,
         DecideProviderCorrection, AcceptProviderCorrection, DeclineProviderCorrection,
         ActionableReview, MoneyInv, WorkIsPaid, Working, orderVars
<1>3. ASSUME NEW d \in Delivery PROVE revision'[Extra(d)] # "NONE" <=> revision[Extra(d)] # "NONE"
  <2>1. CASE Accept \/ Reject \/ Cancel \/ Start \/ DeliverFirst
    BY <2>1 DEF Accept, Reject, Cancel, Start, DeliverFirst, workVars
  <2>2. ASSUME NEW r \in OpenRevisions, DeliverRevision(r)
        PROVE  revision'[Extra(d)] # "NONE" <=> revision[Extra(d)] # "NONE"
    BY <2>2 DEF DeliverRevision, OpenRevisions, Revisions, TypeOK
  <2>3. CASE RequestRevision
    BY <2>3 DEF RequestRevision, Included, Extra, TypeOK, RevisionType
  <2>4. CASE RequestProviderCorrection \/ DecideProviderCorrection
    BY <2>4 DEF RequestProviderCorrection, DecideProviderCorrection, AcceptProviderCorrection,
                DeclineProviderCorrection, Claim, Extra, TypeOK, RevisionType
  <2> QED
    BY <2>1, <2>2, <2>3, <2>4 DEF Deliver
<1> QED
  BY <1>1, <1>2, <1>3, MoneyFrame

LEMMA CompletionMoneyInv ==
  ASSUME TypeOK, MoneyInv, NEW source, CompleteReviewedOrder(source)
  PROVE  MoneyInv'
<1>1. /\ PaidInFull /\ UNCHANGED <<charge, activation, revision>>
      /\ \A k \in EarningKey : earning'[k] = IF k \in ReleasableEarnings THEN "AVAILABLE" ELSE earning[k]
      /\ \A k \in ReleasableEarnings : earning[k] = "PENDING"
  BY DEF CompleteReviewedOrder, Completable, workVars
<1>2. \A k \in EarningKey : /\ earning'[k] # "NONE" <=> earning[k] # "NONE"
                            /\ earning'[k] \in {"NONE", "PENDING", "AVAILABLE", "FROZEN"}
  BY <1>1 DEF MoneyInv, NoMoneyLeaves
<1> QED
  BY <1>1, <1>2 DEF MoneyInv, WorkIsPaid, NoMoneyLeaves, EarningsFollowPayments, PaidInFull,
                    EarningKey

\* Opening and failing a checkout only touch charges that are not settled.
LEMMA CheckoutMoneyInv ==
  ASSUME TypeOK, MoneyInv,
         \/ CreateCheckout \/ CreateExtraRevisionCheckout
         \/ \E k \in EarningKey : PaymentFailed(k)
  PROVE  MoneyInv'
<1>1. PICK k \in EarningKey, c \in {"REQUIRES_ACTION", "FAILED"} :
        charge[k] # "PAID" /\ charge' = [charge EXCEPT ![k] = c]
  BY DEF CreateCheckout, OrderPayable, CreateExtraRevisionCheckout, ExtraPayable, PaymentFailed,
         EarningKey, TypeOK
<1>2. UNCHANGED <<status, revision, activation, earning>>
  BY DEF CreateCheckout, CreateExtraRevisionCheckout, PaymentFailed, orderVars, workVars
<1>3. \A j \in EarningKey : /\ charge'[j] = "PAID" <=> charge[j] = "PAID"
                            /\ charge'[j] \in {"NONE", "REQUIRES_ACTION", "PAID", "FAILED"}
  BY <1>1 DEF TypeOK, MoneyInv, NoMoneyLeaves
<1> QED
  BY <1>2, <1>3 DEF MoneyInv, WorkIsPaid, NoMoneyLeaves, EarningsFollowPayments, PaidInFull,
                    EarningKey

LEMMA MarkPaidMoneyInv == TypeOK /\ MoneyInv /\ MarkPaid => MoneyInv'
<1> SUFFICES ASSUME TypeOK, MoneyInv, MarkPaid PROVE MoneyInv'
  OBVIOUS
<1>1. /\ charge' = [charge EXCEPT ![Original] = "PAID"]
      /\ UNCHANGED <<status, revision, activation>>
  BY DEF MarkPaid, orderVars, workVars
<1>2. PICK e \in {"FROZEN", "PENDING"} : earning' = [earning EXCEPT ![Original] = e]
  BY DEF MarkPaid
<1>3. Original \in EarningKey /\ \A d \in Delivery : d \in EarningKey /\ d # Original
  BY LimitsAssumption DEF EarningKey, Original, Delivery
<1>4. /\ charge'[Original] = "PAID" /\ earning'[Original] = e
      /\ \A d \in Delivery : charge'[d] = charge[d] /\ earning'[d] = earning[d]
  BY <1>1, <1>2, <1>3 DEF TypeOK
<1> QED
  BY <1>1, <1>3, <1>4 DEF MoneyInv, WorkIsPaid, NoMoneyLeaves, EarningsFollowPayments, PaidInFull,
                          EarningKey

LEMMA MarkRevisionPaidMoneyInv ==
  ASSUME TypeOK, MoneyInv, NEW d \in Delivery, NEW paidInTime \in BOOLEAN,
         MarkRevisionPaid(d, paidInTime)
  PROVE  MoneyInv'
<1>1. d \in EarningKey /\ d # Original /\ Original \in EarningKey
  BY LimitsAssumption DEF EarningKey, Original, Delivery
<1>2. /\ charge[d] = "REQUIRES_ACTION" /\ charge' = [charge EXCEPT ![d] = "PAID"]
      /\ earning[d] = "NONE" /\ activation[d] = "PENDING" /\ revision[Extra(d)] = "NONE"
  BY <1>1 DEF MarkRevisionPaid, MoneyInv, EarningsFollowPayments, TypeOK, ActivationStatus
<1>3. CASE CanActivate(d, paidInTime)
  <2>1. /\ status = "SUBMITTED"
        /\ revision' = [revision EXCEPT ![Extra(d)] = "OPEN"]
        /\ activation' = [activation EXCEPT ![d] = "ACTIVATED"]
        /\ earning' = [earning EXCEPT ![d] = "PENDING"]
    BY <1>3 DEF MarkRevisionPaid, CanActivate
  <2>2. /\ charge'[d] = "PAID" /\ activation'[d] = "ACTIVATED" /\ earning'[d] = "PENDING"
        /\ revision'[Extra(d)] = "OPEN"
    BY <1>1, <1>2, <2>1 DEF TypeOK, Extra, RevisionType
  <2>3. \A j \in EarningKey : j # d => charge'[j] = charge[j] /\ earning'[j] = earning[j]
    BY <1>2, <2>1 DEF TypeOK
  <2>4. \A j \in Delivery : j # d => activation'[j] = activation[j] /\ revision'[Extra(j)] = revision[Extra(j)]
    BY <2>1 DEF TypeOK, Extra, RevisionType
  <2> QED
    BY <1>1, <2>1, <2>2, <2>3, <2>4
    DEF MoneyInv, WorkIsPaid, NoMoneyLeaves, EarningsFollowPayments, PaidInFull, EarningKey
<1>4. CASE ~CanActivate(d, paidInTime)
  <2>1. /\ activation' = [activation EXCEPT ![d] = "RECONCILIATION_REQUIRED"]
        /\ UNCHANGED <<status, revision, earning>>
    BY <1>4 DEF MarkRevisionPaid
  <2>2. /\ charge'[d] = "PAID" /\ activation'[d] = "RECONCILIATION_REQUIRED"
        /\ \A j \in EarningKey : j # d => charge'[j] = charge[j]
        /\ \A j \in Delivery : j # d => activation'[j] = activation[j]
    BY <1>1, <1>2, <2>1 DEF TypeOK
  <2> QED
    BY <1>1, <1>2, <2>1, <2>2
    DEF MoneyInv, WorkIsPaid, NoMoneyLeaves, EarningsFollowPayments, PaidInFull, EarningKey
<1> QED
  BY <1>3, <1>4

\* No earning appears, disappears or leaves the platform in a step.
SameEarnings ==
  \A k \in EarningKey :
    /\ earning'[k] # "NONE" <=> earning[k] # "NONE"
    /\ earning'[k] \in {"NONE", "PENDING", "AVAILABLE", "FROZEN"}

\* A dispute only ever moves an earning between frozen and free.
LEMMA DisputesMoneyInv == TypeOK /\ MoneyInv /\ DisputesNext => MoneyInv'
<1> SUFFICES ASSUME TypeOK, MoneyInv, DisputesNext PROVE MoneyInv'
  OBVIOUS
<1>1. UNCHANGED <<status, charge, activation, revision>>
  BY DEF DisputesNext, OpenDispute, SubmitResponse, ReconcileExpiredResponse, RequestResponse,
         MarkReady, BeginReview, Resolve, orderVars, workVars, moneyVars
<1>2. PICK i \in DisputeId :
        \/ \E by \in Parties, escalation \in BOOLEAN : OpenDispute(i, by, escalation)
        \/ SubmitResponse(i) \/ ReconcileExpiredResponse(i) \/ MarkReady(i) \/ BeginReview(i)
        \/ \E party \in Parties : RequestResponse(i, party)
        \/ \E decision \in FinalStatuses : Resolve(i, decision)
  BY DEF DisputesNext
<1>3. ASSUME NEW by \in Parties, NEW escalation \in BOOLEAN, OpenDispute(i, by, escalation)
      PROVE  SameEarnings
  <2>1. PICK k : earning' = [earning EXCEPT ![k] = IF @ = "NONE" THEN @ ELSE "FROZEN"]
    BY <1>3 DEF OpenDispute
  <2> QED
    BY <2>1 DEF MoneyInv, NoMoneyLeaves, TypeOK, SameEarnings
<1>4. ASSUME NEW decision \in FinalStatuses, Resolve(i, decision) PROVE SameEarnings
  <2>1. CASE UNCHANGED earning
    BY <2>1 DEF MoneyInv, NoMoneyLeaves, SameEarnings
  <2>2. CASE ~UNCHANGED earning
    <3>1. dispute[i] \in DisputeRow
      BY DEF TypeOK
    <3>2. /\ dispute[i].preFreeze \in {"PENDING", "AVAILABLE"}
          /\ earning[dispute[i].target] = "FROZEN"
          /\ earning' = [earning EXCEPT ![dispute[i].target] = dispute[i].preFreeze]
      BY <1>4, <2>2, <3>1 DEF Resolve, RestoreEarning, DisputeRow
    <3> QED
      BY <3>2 DEF MoneyInv, NoMoneyLeaves, TypeOK, SameEarnings
  <2> QED
    BY <2>1, <2>2
<1>5. ASSUME \/ SubmitResponse(i) \/ ReconcileExpiredResponse(i) \/ MarkReady(i) \/ BeginReview(i)
             \/ \E party \in Parties : RequestResponse(i, party)
      PROVE  SameEarnings
  <2>1. UNCHANGED earning
    BY <1>5 DEF SubmitResponse, ReconcileExpiredResponse, RequestResponse, MarkReady, BeginReview,
                moneyVars
  <2> QED
    BY <2>1 DEF MoneyInv, NoMoneyLeaves, SameEarnings
<1>6. SameEarnings
  BY <1>2, <1>3, <1>4, <1>5
<1> QED
  BY <1>1, <1>6 DEF SameEarnings, MoneyInv, WorkIsPaid, NoMoneyLeaves, EarningsFollowPayments,
                    PaidInFull, EarningKey

LEMMA MoneyInvKept == TypeOK /\ MoneyInv /\ [Next]_vars => MoneyInv'
<1> SUFFICES ASSUME TypeOK, MoneyInv, [Next]_vars PROVE MoneyInv'
  OBVIOUS
<1>1. CASE OrdersNext
  BY <1>1, OrderStepsMoneyInv, CompletionMoneyInv DEF OrdersNext, Complete, ReconcileExpiredReview
<1>2. CASE LedgerNext
  BY <1>2, CheckoutMoneyInv, MarkPaidMoneyInv, MarkRevisionPaidMoneyInv DEF LedgerNext
<1>3. CASE DisputesNext
  BY <1>3, DisputesMoneyInv
<1>4. CASE Tick \/ UNCHANGED vars
  <2>1. UNCHANGED <<status, revision, charge, activation, earning>>
    BY <1>4 DEF Tick, vars, rowVars, orderVars, workVars, moneyVars
  <2> QED
    BY <2>1 DEF MoneyInv, WorkIsPaid, NoMoneyLeaves, EarningsFollowPayments, PaidInFull
<1> QED
  BY <1>1, <1>2, <1>3, <1>4 DEF Next

-----------------------------------------------------------------------------
\* Freezes and releases.

LEMMA InitHoldInv == Init => HoldInv
BY DEF Init, RowsInit, HoldInv, OneActiveDispute, FrozenWhileHeld, ReleasedByCompletion, Holds,
       Released, IsActive, NoDispute, ActiveStatuses, Waiting

\* The part of a dispute that freezes depend on.
SameHold(i) ==
  /\ IsActive(i)' => IsActive(i)
  /\ \A k \in EarningKey : Holds(i, k)' <=> Holds(i, k)
  /\ dispute'[i].preFreeze = dispute[i].preFreeze

\* Steps that freeze and release nothing.
LEMMA HoldFrame ==
  ASSUME HoldInv, \A i \in DisputeId : SameHold(i), UNCHANGED earning,
         status' = "COMPLETED" <=> status = "COMPLETED"
  PROVE  HoldInv'
<1>1. OneActiveDispute'
  BY DEF HoldInv, OneActiveDispute, SameHold
<1>2. FrozenWhileHeld'
  BY DEF HoldInv, FrozenWhileHeld, SameHold
<1>3. \A k \in EarningKey : Released(k)' <=> Released(k)
  BY DEF Released, SameHold
<1> QED
  BY <1>1, <1>2, <1>3 DEF HoldInv, ReleasedByCompletion

\* Disputes that do not move at all.
LEMMA StillDisputes == UNCHANGED dispute => \A i \in DisputeId : SameHold(i)
BY DEF SameHold, Holds, IsActive

\* Only a completed order is in the state COMPLETED.
LEMMA OrderStepsHoldInv ==
  ASSUME WorkInv, HoldInv,
         \/ Accept \/ Reject \/ Cancel \/ Start \/ Deliver \/ RequestRevision
         \/ RequestProviderCorrection \/ DecideProviderCorrection
         \/ CreateCheckout \/ CreateExtraRevisionCheckout
         \/ \E k \in EarningKey : PaymentFailed(k)
  PROVE  HoldInv'
<1>1. UNCHANGED <<earning, dispute>>
  BY DEF Accept, Reject, Cancel, Start, Deliver, DeliverFirst, DeliverRevision, RequestRevision,
         RequestProviderCorrection, DecideProviderCorrection, AcceptProviderCorrection,
         DeclineProviderCorrection, CreateCheckout, CreateExtraRevisionCheckout, PaymentFailed,
         moneyVars
<1>2. status' = "COMPLETED" <=> status = "COMPLETED"
  BY DEF Accept, Reject, Cancel, Start, Startable, Deliver, DeliverFirst, FirstDue, DeliverRevision,
         RevisionDue, SubmitVersion, RequestRevision, RequestProviderCorrection, Claimable,
         DecideProviderCorrection, ActionableReview, AcceptProviderCorrection,
         DeclineProviderCorrection, CreateCheckout, OrderPayable, CreateExtraRevisionCheckout,
         ExtraPayable, PaymentFailed, orderVars
<1> QED
  BY <1>1, <1>2, HoldFrame, StillDisputes

\* Nothing is frozen when the order completes, because every earning is PENDING.
LEMMA CompletionHoldInv ==
  ASSUME TypeOK, HoldInv, MoneyInv, NEW source, CompleteReviewedOrder(source)
  PROVE  HoldInv'
<1>1. /\ status' = "COMPLETED" /\ UNCHANGED dispute
      /\ \A k \in EarningKey : earning'[k] = IF k \in ReleasableEarnings THEN "AVAILABLE" ELSE earning[k]
      /\ \A k \in ReleasableEarnings : earning[k] = "PENDING"
  BY DEF CompleteReviewedOrder, Completable
<1>2. \A k \in EarningKey : k \in ReleasableEarnings <=> earning[k] # "NONE"
  BY <1>1 DEF ReleasableEarnings, ExtraEarnings, EarningKey
<1>3. \A k \in EarningKey : earning[k] # "FROZEN" /\ earning'[k] # "FROZEN"
  BY <1>1, <1>2
<1>4. \A i \in DisputeId, k \in EarningKey : ~Holds(i, k) /\ ~Holds(i, k)'
  BY <1>1, <1>3 DEF HoldInv, FrozenWhileHeld, Holds
<1>5. OneActiveDispute'
  BY <1>1 DEF HoldInv, OneActiveDispute, IsActive
<1>6. FrozenWhileHeld'
  BY <1>3, <1>4 DEF FrozenWhileHeld
<1>7. ReleasedByCompletion'
  BY <1>1, <1>2, <1>4 DEF ReleasedByCompletion, Released
<1> QED
  BY <1>5, <1>6, <1>7 DEF HoldInv

LEMMA MarkRevisionPaidHoldInv ==
  ASSUME TypeOK, MoneyInv, HoldInv, NEW d \in Delivery, NEW paidInTime \in BOOLEAN,
         MarkRevisionPaid(d, paidInTime)
  PROVE  HoldInv'
<1>1. UNCHANGED dispute
  BY DEF MarkRevisionPaid
<1>2. CASE ~CanActivate(d, paidInTime)
  BY <1>1, <1>2, HoldFrame, StillDisputes DEF MarkRevisionPaid
<1>3. CASE CanActivate(d, paidInTime)
  <2>1. /\ status = "SUBMITTED" /\ status' = "REVISION_REQUESTED"
        /\ earning' = [earning EXCEPT ![d] = "PENDING"]
    BY <1>3 DEF MarkRevisionPaid, CanActivate
  <2>2. d \in EarningKey /\ earning[d] = "NONE"
    BY DEF EarningKey, MarkRevisionPaid, MoneyInv, EarningsFollowPayments
  <2>3. /\ earning'[d] = "PENDING"
        /\ \A k \in EarningKey : k # d => earning'[k] = earning[k]
    BY <2>1, <2>2 DEF TypeOK
  <2>4. \A k \in EarningKey : earning'[k] = "FROZEN" <=> earning[k] = "FROZEN"
    BY <2>2, <2>3
  <2>5. \A i \in DisputeId, k \in EarningKey : Holds(i, k)' <=> Holds(i, k)
    BY <1>1 DEF Holds
  <2>6. OneActiveDispute' /\ FrozenWhileHeld'
    BY <1>1, <2>4, <2>5 DEF HoldInv, OneActiveDispute, IsActive, FrozenWhileHeld
  <2>7. \A k \in EarningKey : ~Released(k)
    BY <2>1 DEF HoldInv, ReleasedByCompletion
  <2>8. \A k \in EarningKey : ~Released(k)'
    BY <1>1, <2>3, <2>5, <2>7 DEF Released
  <2> QED
    BY <2>1, <2>6, <2>8 DEF HoldInv, ReleasedByCompletion
<1> QED
  BY <1>2, <1>3

\* A first payment of a disputed order is frozen on arrival, by the dispute.
LEMMA MarkPaidHoldInv == TypeOK /\ MoneyInv /\ HoldInv /\ MarkPaid => HoldInv'
<1> SUFFICES ASSUME TypeOK, MoneyInv, HoldInv, MarkPaid PROVE HoldInv'
  OBVIOUS
<1>1. Original \in EarningKey /\ earning[Original] = "NONE" /\ status # "COMPLETED"
  BY DEF EarningKey, MarkPaid, MoneyInv, EarningsFollowPayments, WorkIsPaid, PaidInFull
<1>2. \A i \in DisputeId : ~Holds(i, Original)
  BY <1>1 DEF HoldInv, FrozenWhileHeld
<1>3. UNCHANGED status
  BY DEF MarkPaid, orderVars
<1>4. /\ earning'[Original] = IF PaymentDisputed THEN "FROZEN" ELSE "PENDING"
      /\ \A k \in EarningKey : k # Original => earning'[k] = earning[k]
  BY <1>1 DEF MarkPaid, TypeOK
<1>5. ASSUME NEW i \in DisputeId, ~FreezingDispute(i) PROVE dispute'[i] = dispute[i]
  BY <1>5 DEF MarkPaid, FrozenRow
<1>6. ASSUME NEW i \in DisputeId, FreezingDispute(i)
      PROVE  /\ dispute'[i].status = dispute[i].status
             /\ dispute'[i].target = Original
             /\ dispute'[i].preFreeze = "PENDING"
  <2>1. dispute[i] \in DisputeRow /\ dispute[i].target = Original
    BY <1>6 DEF TypeOK, FreezingDispute
  <2>2. dispute'[i] = [dispute[i] EXCEPT !.preFreeze = "PENDING"]
    BY <1>6 DEF MarkPaid, FrozenRow
  <2> QED
    BY <2>1, <2>2 DEF DisputeRow
<1>7. ASSUME NEW i \in DisputeId
      PROVE  /\ IsActive(i)' <=> IsActive(i)
             /\ Holds(i, Original)' <=> FreezingDispute(i)
  <2>1. CASE FreezingDispute(i)
    BY <1>6, <2>1 DEF IsActive, Holds, FreezingDispute
  <2>2. CASE ~FreezingDispute(i)
    BY <1>2, <1>5, <2>2 DEF IsActive, Holds
  <2> QED
    BY <2>1, <2>2
<1>8. ASSUME NEW i \in DisputeId, NEW k \in EarningKey, k # Original
      PROVE  /\ Holds(i, k)' <=> Holds(i, k)
             /\ Holds(i, k) => dispute'[i].preFreeze = dispute[i].preFreeze
  <2>1. CASE FreezingDispute(i)
    BY <1>6, <1>8, <2>1 DEF Holds, FreezingDispute
  <2>2. CASE ~FreezingDispute(i)
    BY <1>5, <2>2 DEF Holds
  <2> QED
    BY <2>1, <2>2
<1>9. OneActiveDispute'
  BY <1>7 DEF HoldInv, OneActiveDispute
<1>10. FrozenWhileHeld'
  <2>1. /\ earning'[Original] = "FROZEN" <=> \E i \in DisputeId : Holds(i, Original)'
        /\ \A i, j \in DisputeId : Holds(i, Original)' /\ Holds(j, Original)' => i = j
    <3>1. \A i, j \in DisputeId : FreezingDispute(i) /\ FreezingDispute(j) => i = j
      BY DEF FreezingDispute, HoldInv, OneActiveDispute
    <3>2. PaymentDisputed <=> \E i \in DisputeId : Holds(i, Original)'
      BY <1>7 DEF PaymentDisputed
    <3> QED
      BY <1>4, <1>7, <3>1, <3>2
  <2>2. ASSUME NEW k \in EarningKey, k # Original
        PROVE  /\ earning'[k] = "FROZEN" <=> \E i \in DisputeId : Holds(i, k)'
               /\ \A i, j \in DisputeId : Holds(i, k)' /\ Holds(j, k)' => i = j
    BY <1>4, <1>8, <2>2 DEF HoldInv, FrozenWhileHeld
  <2> QED
    BY <2>1, <2>2 DEF FrozenWhileHeld
<1>11. ReleasedByCompletion'
  <2>1. \A k \in EarningKey : ~Released(k)
    BY <1>1 DEF HoldInv, ReleasedByCompletion
  <2>2. \A i \in DisputeId : Holds(i, Original)' => dispute'[i].preFreeze = "PENDING"
    BY <1>6, <1>7
  <2>3. ~Released(Original)'
    <3>1. earning'[Original] # "AVAILABLE"
      BY <1>4
    <3> QED
      BY <2>2, <3>1 DEF Released
  <2>4. ASSUME NEW k \in EarningKey, k # Original PROVE ~Released(k)'
    BY <1>4, <1>8, <2>1, <2>4 DEF Released
  <2> QED
    BY <1>1, <1>3, <2>3, <2>4 DEF ReleasedByCompletion
<1> QED
  BY <1>9, <1>10, <1>11 DEF HoldInv

\* Answers, deadlines and the administrators' queue change no freeze.
LEMMA DisputeQueueHoldInv ==
  ASSUME TypeOK, HoldInv, NEW i \in DisputeId,
         \/ SubmitResponse(i) \/ ReconcileExpiredResponse(i) \/ MarkReady(i) \/ BeginReview(i)
         \/ \E party \in Parties : RequestResponse(i, party)
  PROVE  HoldInv'
<1>1. UNCHANGED <<status, earning>>
  BY DEF SubmitResponse, ReconcileExpiredResponse, MarkReady, BeginReview, RequestResponse,
         orderVars, moneyVars
<1>2. IsActive(i)
  BY DEF SubmitResponse, Answerable, ReconcileExpiredResponse, MarkReady, BeginReview, RequestResponse,
         IsActive, ActiveStatuses
<1>3. \A j \in DisputeId : j # i => dispute'[j] = dispute[j]
  BY DEF SubmitResponse, ReconcileExpiredResponse, MarkReady, BeginReview, RequestResponse,
         SetStatus, TypeOK
<1>4. /\ dispute'[i].status \in ActiveStatuses
      /\ dispute'[i].target = dispute[i].target
      /\ dispute'[i].preFreeze = dispute[i].preFreeze
  <2>1. dispute[i] \in DisputeRow
    BY DEF TypeOK
  <2>2. ASSUME NEW s \in ActiveStatuses, SetStatus(i, s)
        PROVE  /\ dispute'[i].status \in ActiveStatuses
               /\ dispute'[i].target = dispute[i].target
               /\ dispute'[i].preFreeze = dispute[i].preFreeze
    BY <2>1, <2>2 DEF SetStatus, TypeOK, DisputeRow
  <2>3. ASSUME NEW party \in Parties, RequestResponse(i, party)
        PROVE  /\ dispute'[i].status \in ActiveStatuses
               /\ dispute'[i].target = dispute[i].target
               /\ dispute'[i].preFreeze = dispute[i].preFreeze
    BY <2>1, <2>3 DEF RequestResponse, TypeOK, DisputeRow, WaitingFor, ActiveStatuses, Waiting
  <2> QED
    BY <2>2, <2>3 DEF SubmitResponse, ReconcileExpiredResponse, MarkReady, BeginReview, ActiveStatuses
<1>5. \A j \in DisputeId : SameHold(j)
  BY <1>2, <1>3, <1>4 DEF SameHold, IsActive, Holds
<1> QED
  BY <1>1, <1>5, HoldFrame

\* An earning this step leaves alone, and so do the disputes that hold it.
Untouched(k) ==
  /\ earning'[k] = earning[k]
  /\ \A i \in DisputeId : /\ Holds(i, k)' <=> Holds(i, k)
                          /\ Holds(i, k) => dispute'[i].preFreeze = dispute[i].preFreeze

\* The part of FrozenWhileHeld that is about earning k.
FrozenIffHeld(k) ==
  /\ earning[k] = "FROZEN" <=> \E i \in DisputeId : Holds(i, k)
  /\ \A i, j \in DisputeId : Holds(i, k) /\ Holds(j, k) => i = j

LEMMA FrozenEach == FrozenWhileHeld <=> \A k \in EarningKey : FrozenIffHeld(k)
BY DEF FrozenWhileHeld, FrozenIffHeld

LEMMA UntouchedFacts ==
  ASSUME NEW k \in EarningKey, Untouched(k), FrozenIffHeld(k)
  PROVE  FrozenIffHeld(k)' /\ (Released(k)' <=> Released(k))
<1>1. FrozenIffHeld(k)'
  BY DEF Untouched, FrozenIffHeld
<1>2. Released(k)' <=> Released(k)
  BY DEF Untouched, Released
<1> QED
  BY <1>1, <1>2

\* A new dispute finds no other active, and freezes an earning nobody holds.
LEMMA OpenDisputeHoldInv ==
  ASSUME TypeOK, HoldInv, NEW i \in DisputeId, NEW by \in Parties, NEW escalation \in BOOLEAN,
         OpenDispute(i, by, escalation)
  PROVE  HoldInv'
<1>1. PICK k \in EarningKey : k = TargetPurchase
  BY DisputeTargetTyped
<1>2. /\ dispute[i].status = "NONE" /\ ~ActiveDispute /\ UNCHANGED status
      /\ earning[k] \in {"NONE", "PENDING", "AVAILABLE"}
  BY <1>1 DEF OpenDispute, Disputable, Freezable, orderVars
<1>3. /\ earning'[k] = IF earning[k] = "NONE" THEN "NONE" ELSE "FROZEN"
      /\ \A j \in EarningKey : j # k => earning'[j] = earning[j]
  BY <1>1 DEF OpenDispute, TypeOK
<1>4. /\ dispute'[i].target = k /\ dispute'[i].preFreeze = earning[k]
      /\ dispute'[i].status \in ActiveStatuses
      /\ \A j \in DisputeId : j # i => dispute'[j] = dispute[j]
  <2>1. (CHOOSE p \in Parties : p # by) \in Parties
    BY DEF Parties
  <2>2. WaitingFor(CHOOSE p \in Parties : p # by) \in ActiveStatuses
    BY <2>1 DEF WaitingFor, Parties, ActiveStatuses, Waiting
  <2> QED
    BY <1>1, <2>2 DEF OpenDispute, TypeOK
<1>5. \A j \in DisputeId : ~Holds(j, k)
  BY <1>1, <1>2 DEF HoldInv, FrozenWhileHeld
<1>6. /\ Holds(i, k)' <=> earning[k] # "NONE"
      /\ \A j \in DisputeId : j # i => ~Holds(j, k)'
  <2>1. Holds(i, k)' <=> earning[k] # "NONE"
    BY <1>4 DEF Holds
  <2>2. ASSUME NEW j \in DisputeId, j # i PROVE ~Holds(j, k)'
    BY <1>4, <1>5, <2>2 DEF Holds
  <2> QED
    BY <2>1, <2>2
<1>7. ASSUME NEW e \in EarningKey, e # k PROVE Untouched(e) /\ FrozenIffHeld(e)
  <2>1. ASSUME NEW j \in DisputeId
        PROVE  /\ Holds(j, e)' <=> Holds(j, e)
               /\ Holds(j, e) => dispute'[j].preFreeze = dispute[j].preFreeze
    <3>1. CASE j = i
      BY <1>2, <1>4, <1>7, <3>1 DEF Holds, ActiveStatuses, Waiting
    <3>2. CASE j # i
      BY <1>4, <3>2 DEF Holds
    <3> QED
      BY <3>1, <3>2
  <2> QED
    BY <1>3, <1>7, <2>1, FrozenEach DEF Untouched, HoldInv
<1>8. OneActiveDispute'
  <2>1. \A j \in DisputeId : IsActive(j)' => j = i
    BY <1>2, <1>4 DEF ActiveDispute, IsActive
  <2> QED
    BY <2>1 DEF OneActiveDispute
<1>9. FrozenWhileHeld'
  <2>1. FrozenIffHeld(k)'
    BY <1>2, <1>3, <1>6 DEF FrozenIffHeld
  <2>2. FrozenWhileHeld' <=> \A e \in EarningKey : FrozenIffHeld(e)'
    BY DEF FrozenWhileHeld, FrozenIffHeld
  <2> QED
    BY <1>7, <2>1, <2>2, UntouchedFacts
<1>10. ReleasedByCompletion'
  <2>1. Released(k)' <=> Released(k)
    <3>1. Released(k) <=> earning[k] = "AVAILABLE"
      BY <1>5 DEF Released
    <3>2. earning'[k] # "AVAILABLE"
      BY <1>3
    <3>3. Released(k)' <=> Holds(i, k)' /\ dispute'[i].preFreeze = "AVAILABLE"
      BY <1>6, <3>2 DEF Released
    <3>4. Released(k)' <=> earning[k] = "AVAILABLE"
      BY <1>4, <1>6, <3>3
    <3> QED
      BY <3>1, <3>4
  <2>2. \A e \in EarningKey : e # k => (Released(e)' <=> Released(e))
    BY <1>7, UntouchedFacts
  <2>3. \A e \in EarningKey : earning'[e] # "NONE" <=> earning[e] # "NONE"
    BY <1>3
  <2> QED
    BY <1>2, <2>1, <2>2, <2>3 DEF HoldInv, ReleasedByCompletion
<1> QED
  BY <1>8, <1>9, <1>10 DEF HoldInv

\* Deciding for the provider or closing gives back the freeze the dispute holds,
\* which nobody else does; deciding for the client keeps it.
LEMMA ResolveHoldInv ==
  ASSUME TypeOK, HoldInv, NEW i \in DisputeId, NEW decision \in FinalStatuses,
         Resolve(i, decision)
  PROVE  HoldInv'
<1>0. /\ dispute[i] \in DisputeRow /\ dispute[i].target \in EarningKey
      /\ dispute[i].preFreeze \in {"NONE", "PENDING", "AVAILABLE"}
  BY DEF TypeOK, DisputeRow
<1>1. PICK k \in EarningKey : k = dispute[i].target
  BY <1>0
<1>2. IsActive(i) /\ UNCHANGED status
  BY DEF Resolve, orderVars
<1>3. /\ dispute'[i].status = decision
      /\ dispute'[i].target = k /\ dispute'[i].preFreeze = dispute[i].preFreeze
      /\ \A j \in DisputeId : j # i => dispute'[j] = dispute[j]
  BY <1>0, <1>1 DEF Resolve, SetStatus, TypeOK, DisputeRow
<1>4. decision \notin ActiveStatuses
  BY DEF FinalStatuses, Restoring, ActiveStatuses, Waiting
<1>5. CASE decision = "RESOLVED_CLIENT" \/ dispute[i].preFreeze = "NONE"
  <2>1. UNCHANGED earning
    BY <1>5 DEF Resolve, RestoreEarning, Restoring
  <2>2. ASSUME NEW e \in EarningKey PROVE Holds(i, e)' <=> Holds(i, e)
    <3>1. CASE dispute[i].preFreeze = "NONE"
      BY <1>3, <3>1 DEF Holds
    <3>2. CASE decision = "RESOLVED_CLIENT"
      BY <1>1, <1>2, <1>3, <3>2 DEF Holds, IsActive
    <3> QED
      BY <1>5, <3>1, <3>2
  <2>3. \A j \in DisputeId : SameHold(j)
    BY <1>2, <1>3, <2>2 DEF SameHold, IsActive, Holds
  <2> QED
    BY <1>2, <2>1, <2>3, HoldFrame
<1>6. CASE decision # "RESOLVED_CLIENT" /\ dispute[i].preFreeze # "NONE"
  <2>1. /\ earning[k] = "FROZEN" /\ earning' = [earning EXCEPT ![k] = dispute[i].preFreeze]
    BY <1>1, <1>6 DEF Resolve, RestoreEarning, Restoring, FinalStatuses
  <2>2. /\ earning'[k] = dispute[i].preFreeze
        /\ \A e \in EarningKey : e # k => earning'[e] = earning[e]
    BY <1>1, <2>1 DEF TypeOK
  <2>3. Holds(i, k) /\ \A j \in DisputeId : Holds(j, k) => j = i
    BY <1>1, <1>2, <1>6 DEF Holds, IsActive, HoldInv, FrozenWhileHeld
  <2>4. \A j \in DisputeId : ~Holds(j, k)'
    <3>1. ~Holds(i, k)'
      BY <1>3, <1>4, <1>6 DEF Holds
    <3> QED
      BY <1>3, <2>3, <3>1 DEF Holds
  <2>5. ASSUME NEW e \in EarningKey, e # k PROVE Untouched(e) /\ FrozenIffHeld(e)
    <3>1. ASSUME NEW j \in DisputeId
          PROVE  /\ Holds(j, e)' <=> Holds(j, e)
                 /\ dispute'[j].preFreeze = dispute[j].preFreeze
      <4>1. CASE j = i
        BY <1>1, <1>3, <2>5, <4>1 DEF Holds
      <4>2. CASE j # i
        BY <1>3, <4>2 DEF Holds
      <4> QED
        BY <4>1, <4>2
    <3> QED
      BY <2>2, <2>5, <3>1, FrozenEach DEF Untouched, HoldInv
  <2>6. OneActiveDispute'
    BY <1>3, <1>4 DEF HoldInv, OneActiveDispute, IsActive
  <2>7. FrozenWhileHeld'
    <3>1. FrozenIffHeld(k)'
      BY <1>0, <2>2, <2>4 DEF FrozenIffHeld
    <3>2. FrozenWhileHeld' <=> \A e \in EarningKey : FrozenIffHeld(e)'
      BY DEF FrozenWhileHeld, FrozenIffHeld
    <3> QED
      BY <2>5, <3>1, <3>2, UntouchedFacts
  <2>8. ReleasedByCompletion'
    <3>1. Released(k) <=> dispute[i].preFreeze = "AVAILABLE"
      BY <2>1, <2>3 DEF Released
    <3>2. Released(k)' <=> dispute[i].preFreeze = "AVAILABLE"
      BY <2>2, <2>4 DEF Released
    <3>3. \A e \in EarningKey : e # k => (Released(e)' <=> Released(e))
      BY <2>5, UntouchedFacts
    <3>4. \A e \in EarningKey : earning'[e] # "NONE" <=> earning[e] # "NONE"
      BY <1>1, <1>6, <2>1, <2>2
    <3> QED
      BY <1>2, <3>1, <3>2, <3>3, <3>4 DEF HoldInv, ReleasedByCompletion
  <2> QED
    BY <2>6, <2>7, <2>8 DEF HoldInv
<1> QED
  BY <1>5, <1>6

LEMMA HoldInvKept == TypeOK /\ WorkInv /\ MoneyInv /\ HoldInv /\ [Next]_vars => HoldInv'
<1> SUFFICES ASSUME TypeOK, WorkInv, MoneyInv, HoldInv, [Next]_vars PROVE HoldInv'
  OBVIOUS
<1>1. CASE OrdersNext
  BY <1>1, OrderStepsHoldInv, CompletionHoldInv DEF OrdersNext, Complete, ReconcileExpiredReview
<1>2. CASE LedgerNext
  BY <1>2, OrderStepsHoldInv, MarkPaidHoldInv, MarkRevisionPaidHoldInv DEF LedgerNext
<1>3. CASE DisputesNext
  BY <1>3, OpenDisputeHoldInv, DisputeQueueHoldInv, ResolveHoldInv DEF DisputesNext
<1>4. CASE Tick
  <2>1. UNCHANGED <<status, earning>>
    BY <1>4 DEF Tick, orderVars, moneyVars
  <2>2. ASSUME NEW i \in DisputeId PROVE SameHold(i)
    <3>1. dispute[i] \in DisputeRow
      BY DEF TypeOK
    <3>2. dispute'[i] = [dispute[i] EXCEPT !.left = Sooner(@)]
      BY <1>4 DEF Tick
    <3>3. /\ dispute'[i].status = dispute[i].status
          /\ dispute'[i].target = dispute[i].target
          /\ dispute'[i].preFreeze = dispute[i].preFreeze
      BY <3>1, <3>2 DEF DisputeRow
    <3> QED
      BY <3>3 DEF SameHold, IsActive, Holds
  <2> QED
    BY <2>1, <2>2, HoldFrame
<1>5. CASE UNCHANGED vars
  <2>1. UNCHANGED <<status, earning, dispute>>
    BY <1>5 DEF vars, rowVars, orderVars, moneyVars
  <2> QED
    BY <2>1, HoldFrame, StillDisputes
<1> QED
  BY <1>1, <1>2, <1>3, <1>4, <1>5 DEF Next

-----------------------------------------------------------------------------
\* Payments and disputes come after the provider's agreement.

LEMMA AgreedFirstKept == TypeOK /\ AgreedFirst /\ [Next]_vars => AgreedFirst'
<1> SUFFICES ASSUME TypeOK, AgreedFirst, [Next]_vars PROVE AgreedFirst'
  OBVIOUS
<1> USE DEF PayableStatuses, DisputableStatuses
<1>1. CASE OrdersNext
  <2>1. /\ UNCHANGED <<charge, dispute>>
        /\ status' # status => \/ status = "REQUESTED"
                              \/ status' \in PayableStatuses
    BY <1>1 DEF OrdersNext, Accept, Reject, Cancel, Start, Deliver, DeliverFirst, DeliverRevision,
                SubmitVersion, RequestRevision, RequestProviderCorrection, DecideProviderCorrection,
                AcceptProviderCorrection, DeclineProviderCorrection, Complete,
                ReconcileExpiredReview, CompleteReviewedOrder, orderVars, moneyVars
  <2> QED
    BY <2>1 DEF AgreedFirst
<1>2. CASE CreateCheckout
  BY <1>2 DEF CreateCheckout, OrderPayable, AgreedFirst, TypeOK, orderVars
<1>3. CASE CreateExtraRevisionCheckout
  BY <1>3 DEF CreateExtraRevisionCheckout, ExtraPayable, ExtraRevisionAvailable, AgreedFirst,
              TypeOK, orderVars
<1>4. ASSUME NEW k \in EarningKey, PaymentFailed(k) PROVE AgreedFirst'
  BY <1>4 DEF PaymentFailed, AgreedFirst, TypeOK, orderVars
<1>5. CASE MarkPaid
  <2>1. /\ status \in PayableStatuses /\ UNCHANGED status
        /\ \A i \in DisputeId : dispute[i].status # "NONE" => status \in DisputableStatuses
    BY <1>5 DEF MarkPaid, AgreedFirst, EarningKey, orderVars
  <2> QED
    BY <2>1 DEF AgreedFirst
<1>6. ASSUME NEW d \in Delivery, NEW paidInTime \in BOOLEAN, MarkRevisionPaid(d, paidInTime)
      PROVE  AgreedFirst'
  <2>1. status \in PayableStatuses
    BY <1>6 DEF MarkRevisionPaid, AgreedFirst, EarningKey
  <2>2. status' \in PayableStatuses
    BY <1>6, <2>1 DEF MarkRevisionPaid
  <2> QED
    BY <2>2 DEF AgreedFirst
<1>7. CASE DisputesNext
  <2>1. UNCHANGED <<status, charge>>
    BY <1>7 DEF DisputesNext, OpenDispute, SubmitResponse, ReconcileExpiredResponse, RequestResponse,
                MarkReady, BeginReview, Resolve, orderVars, moneyVars
  <2>2. status \in DisputableStatuses
    BY <1>7 DEF DisputesNext, OpenDispute, Disputable, SubmitResponse, Answerable,
                ReconcileExpiredResponse, RequestResponse, MarkReady, BeginReview, Resolve,
                AgreedFirst, IsActive, ActiveStatuses, Waiting
  <2> QED
    BY <2>1, <2>2 DEF AgreedFirst
<1>8. CASE Tick
  <2>1. UNCHANGED <<status, charge>>
    BY <1>8 DEF Tick, orderVars, moneyVars
  <2>2. ASSUME NEW i \in DisputeId PROVE dispute'[i].status = dispute[i].status
    <3>1. dispute[i] \in DisputeRow
      BY DEF TypeOK
    <3>2. dispute'[i] = [dispute[i] EXCEPT !.left = Sooner(@)]
      BY <1>8 DEF Tick
    <3> QED
      BY <3>1, <3>2 DEF DisputeRow
  <2> QED
    BY <2>1, <2>2 DEF AgreedFirst
<1>9. CASE UNCHANGED vars
  BY <1>9 DEF AgreedFirst, vars, rowVars, orderVars, moneyVars
<1> QED
  BY <1>1, <1>2, <1>3, <1>4, <1>5, <1>6, <1>7, <1>8, <1>9 DEF Next, LedgerNext

-----------------------------------------------------------------------------
\* The conjunction of everything above is inductive: the three services, acting
\* on the same rows in any order, keep deliveries, money and disputes in step.

LEMMA InitIInv == Init => IInv
<1>1. Init => AgreedFirst
  BY DEF Init, RowsInit, AgreedFirst, NoDispute
<1> QED
  BY <1>1, InitTypeOK, InitWorkInv, InitMoneyInv, InitHoldInv DEF IInv

LEMMA IInvKept == IInv /\ [Next]_vars => IInv'
<1>1. TypeOK /\ [Next]_vars => TypeOK'
  BY OrdersTypeOK, LedgerTypeOK, DisputesTypeOK, TickTypeOK
  DEF Next, vars, rowVars, orderVars, reviewVars, workVars, moneyVars, TypeOK
<1> QED
  BY <1>1, AgreedFirstKept, WorkInvKept, MoneyInvKept, HoldInvKept DEF IInv

\* Every state the services can bring the rows of one order into is consistent.
THEOREM Invariance == Spec => []IInv
BY InitIInv, IInvKept, PTL DEF Spec

\* The provider never has two revisions in hand, nor one nobody may answer.
THEOREM SingleRevision == Spec => []OneRevisionInHand
<1>1. IInv => OneRevisionInHand
  BY DEF IInv, WorkInv
<1> QED
  BY <1>1, Invariance, PTL

\* The review that a client or the reconciler closes is the latest delivery's.
THEOREM ReviewOfLatest == Spec => []ReviewFollowsWork
<1>1. IInv => ReviewFollowsWork
  BY DEF IInv, WorkInv
<1> QED
  BY <1>1, Invariance, PTL

\* Included revisions are spent once each and never beyond the price.
THEOREM RevisionsWithinPrice == Spec => []IncludedRevisionsCounted
<1>1. IInv => IncludedRevisionsCounted
  BY DEF IInv, WorkInv
<1> QED
  BY <1>1, Invariance, PTL

\* The provider is credited for exactly the payments that bought something.
THEOREM CreditedForPayments == Spec => []EarningsFollowPayments
<1>1. IInv => EarningsFollowPayments
  BY DEF IInv, MoneyInv
<1> QED
  BY <1>1, Invariance, PTL

\* A frozen earning always has the one dispute that can give it back.
THEOREM FreezesAccountedFor == Spec => []FrozenWhileHeld
<1>1. IInv => FrozenWhileHeld
  BY DEF IInv, HoldInv
<1> QED
  BY <1>1, Invariance, PTL

\* No dispute can release an earning that completion has not, or take back one
\* that it has.
THEOREM ReleaseNeedsCompletion == Spec => []ReleasedByCompletion
<1>1. IInv => ReleasedByCompletion
  BY DEF IInv, HoldInv
<1> QED
  BY <1>1, Invariance, PTL

-----------------------------------------------------------------------------
\* The life cycle implements the escrow: each step of the services is one step of
\* the promise, seen through the refinement mapping, or none.

LEMMA Phases ==
  /\ PhaseOf("REQUESTED") = "asked"
  /\ PhaseOf("ACCEPTED") = "working" /\ PhaseOf("IN_PROGRESS") = "working"
  /\ PhaseOf("REVISION_REQUESTED") = "working"
  /\ PhaseOf("SUBMITTED") = "reviewing" /\ PhaseOf("COMPLETED") = "done"
  /\ PhaseOf("CANCELLED") = "void" /\ PhaseOf("REJECTED") = "void"
BY Zenon DEF PhaseOf

FundsMap == [k \in EarningKey |-> FundsOf(k)]

\* Where a payment is can be told from its earning and the state of the order alone.
FundsNow(k) ==
  IF earning[k] = "NONE" THEN "none" ELSE IF status = "COMPLETED" THEN "released" ELSE "escrow"

InView == \A k \in EarningKey : FundsOf(k) = FundsNow(k)

LEMMA EscrowView == IInv => InView
<1> USE DEF InView
<1> SUFFICES ASSUME IInv, NEW k \in EarningKey PROVE FundsOf(k) = FundsNow(k)
  OBVIOUS
<1>1. Released(k) <=> status = "COMPLETED" /\ earning[k] # "NONE"
  BY DEF IInv, HoldInv, ReleasedByCompletion
<1>2. CASE earning[k] = "NONE"
  BY <1>2, Zenon DEF FundsOf, FundsNow
<1>3. CASE earning[k] # "NONE" /\ status = "COMPLETED"
  BY <1>1, <1>3, Zenon DEF FundsOf, FundsNow
<1>4. CASE earning[k] # "NONE" /\ status # "COMPLETED"
  BY <1>1, <1>4, Zenon DEF FundsOf, FundsNow
<1> QED
  BY <1>2, <1>3, <1>4

LEMMA EscrowViewNext == IInv' => InView'
BY EscrowView, PTL

EscrowStep == Promise!EscrowNext \/ UNCHANGED <<PhaseOf(status), FundsMap, Frozen>>

\* A step that moves no earning and completes nothing leaves the money where it is.
LEMMA MoneyStays ==
  ASSUME IInv, IInv', UNCHANGED earning, status' = "COMPLETED" <=> status = "COMPLETED"
  PROVE  UNCHANGED <<FundsMap, Frozen>>
<1>1. \A k \in EarningKey : FundsOf(k)' = FundsOf(k)
  BY EscrowView, EscrowViewNext DEF InView, FundsNow
<1> QED
  BY <1>1 DEF FundsMap, Frozen

LEMMA OrderStepsEscrow ==
  ASSUME IInv, IInv',
         \/ Accept \/ Reject \/ Cancel \/ Start \/ Deliver \/ RequestRevision
         \/ RequestProviderCorrection \/ DecideProviderCorrection
         \/ CreateCheckout \/ CreateExtraRevisionCheckout
         \/ \E k \in EarningKey : PaymentFailed(k)
  PROVE  EscrowStep
<1>1. UNCHANGED earning
  BY DEF Accept, Reject, Cancel, Start, Deliver, DeliverFirst, DeliverRevision, RequestRevision,
         RequestProviderCorrection, DecideProviderCorrection, AcceptProviderCorrection,
         DeclineProviderCorrection, CreateCheckout, CreateExtraRevisionCheckout, PaymentFailed,
         moneyVars
<1>2. \/ status = "REQUESTED" /\ status' = "ACCEPTED"
      \/ status = "REQUESTED" /\ status' \in {"REJECTED", "CANCELLED"}
      \/ status = "ACCEPTED" /\ status' = "IN_PROGRESS"
      \/ status \in {"IN_PROGRESS", "REVISION_REQUESTED"} /\ PaidInFull /\ status' = "SUBMITTED"
      \/ status = "SUBMITTED" /\ status' = "REVISION_REQUESTED"
      \/ UNCHANGED status
  BY DEF Accept, Reject, Cancel, Start, Startable, Deliver, DeliverFirst, FirstDue, DeliverRevision,
         RevisionDue, SubmitVersion, RequestRevision, RequestProviderCorrection, Claimable,
         DecideProviderCorrection, ActionableReview, AcceptProviderCorrection,
         DeclineProviderCorrection, CreateCheckout, OrderPayable, CreateExtraRevisionCheckout,
         ExtraPayable, PaymentFailed, orderVars
<1>3. UNCHANGED <<FundsMap, Frozen>>
  BY <1>1, <1>2, MoneyStays
<1>4. CASE status = "REQUESTED" /\ status' = "ACCEPTED"
  BY <1>3, <1>4, Phases DEF EscrowStep, FundsMap, Promise!EscrowNext, Promise!Agree
<1>5. CASE status = "REQUESTED" /\ status' \in {"REJECTED", "CANCELLED"}
  BY <1>3, <1>5, Phases DEF EscrowStep, FundsMap, Promise!EscrowNext, Promise!CallOff
<1>6. CASE (status = "ACCEPTED" /\ status' = "IN_PROGRESS") \/ UNCHANGED status
  BY <1>3, <1>6, Phases DEF EscrowStep
<1>7. CASE status \in {"IN_PROGRESS", "REVISION_REQUESTED"} /\ PaidInFull /\ status' = "SUBMITTED"
  <2>1. Original \in EarningKey /\ earning[Original] # "NONE"
    BY <1>7 DEF IInv, MoneyInv, EarningsFollowPayments, PaidInFull, EarningKey
  <2>2. FundsMap[Original] = "escrow"
    BY <1>7, <2>1, EscrowView DEF InView, FundsMap, FundsNow
  <2> QED
    BY <1>3, <1>7, <2>2, Phases DEF EscrowStep, FundsMap, Promise!EscrowNext, Promise!HandOver
<1>8. CASE status = "SUBMITTED" /\ status' = "REVISION_REQUESTED"
  BY <1>3, <1>8, Phases DEF EscrowStep, FundsMap, Promise!EscrowNext, Promise!SendBack
<1> QED
  BY <1>2, <1>4, <1>5, <1>6, <1>7, <1>8

\* Completion releases everything that is in escrow, none of it on hold.
LEMMA CompletionEscrow ==
  ASSUME IInv, IInv', NEW source, CompleteReviewedOrder(source)
  PROVE  EscrowStep
<1>1. /\ status = "SUBMITTED" /\ status' = "COMPLETED" /\ PaidInFull
      /\ \A k \in EarningKey : earning'[k] = IF k \in ReleasableEarnings THEN "AVAILABLE" ELSE earning[k]
      /\ \A k \in ReleasableEarnings : earning[k] = "PENDING"
  BY DEF CompleteReviewedOrder, Completable
<1>2. \A k \in EarningKey : k \in ReleasableEarnings <=> earning[k] # "NONE"
  BY <1>1 DEF ReleasableEarnings, ExtraEarnings, EarningKey
<1>3. Frozen = {} /\ Frozen' = {}
  BY <1>1, <1>2 DEF Frozen
<1>4. Original \in EarningKey /\ FundsMap[Original] = "escrow"
  <2>1. Original \in EarningKey /\ earning[Original] # "NONE"
    BY <1>1, <1>2 DEF ReleasableEarnings, EarningKey
  <2> QED
    BY <1>1, <2>1, EscrowView DEF InView, FundsMap, FundsNow
<1>5. ASSUME NEW k \in EarningKey
      PROVE  FundsOf(k)' = IF FundsMap[k] = "escrow" THEN "released" ELSE FundsMap[k]
  BY <1>1, <1>2, EscrowView, EscrowViewNext DEF InView, FundsMap, FundsNow
<1>6. FundsMap' = [k \in EarningKey |-> IF FundsMap[k] = "escrow" THEN "released" ELSE FundsMap[k]]
  BY <1>5 DEF FundsMap
<1> QED
  BY <1>1, <1>3, <1>4, <1>6, Phases DEF EscrowStep, FundsMap, Promise!EscrowNext, Promise!Release

\* One more payment is in escrow, and the others are where they were.
LEMMA OnePaid ==
  ASSUME IInv, IInv', NEW k \in EarningKey, earning[k] = "NONE", earning'[k] # "NONE",
         status # "COMPLETED", status' # "COMPLETED",
         \A j \in EarningKey : j # k => earning'[j] = earning[j]
  PROVE  FundsMap[k] = "none" /\ FundsMap' = [FundsMap EXCEPT ![k] = "escrow"]
<1>1. FundsMap[k] = "none"
  BY EscrowView DEF InView, FundsMap, FundsNow
<1>2. ASSUME NEW j \in EarningKey PROVE FundsOf(j)' = IF j = k THEN "escrow" ELSE FundsOf(j)
  BY EscrowView, EscrowViewNext DEF InView, FundsNow
<1> QED
  BY <1>1, <1>2 DEF FundsMap

LEMMA MarkPaidEscrow ==
  ASSUME IInv, IInv', MarkPaid
  PROVE  EscrowStep
<1>1. Original \in EarningKey /\ earning[Original] = "NONE"
  BY DEF EarningKey, MarkPaid, IInv, MoneyInv, EarningsFollowPayments
<1>2. status = "ACCEPTED" /\ status' = "ACCEPTED"
  BY DEF MarkPaid, EarningKey, IInv, AgreedFirst, PayableStatuses, MoneyInv, WorkIsPaid, PaidInFull,
         orderVars
<1>3. PICK e \in {"FROZEN", "PENDING"} : earning' = [earning EXCEPT ![Original] = e]
  BY DEF MarkPaid
<1>4. /\ earning'[Original] = e
      /\ \A j \in EarningKey : j # Original => earning'[j] = earning[j]
  BY <1>1, <1>3 DEF IInv, TypeOK
<1>5. FundsMap[Original] = "none" /\ FundsMap' = [FundsMap EXCEPT ![Original] = "escrow"]
  BY <1>1, <1>2, <1>4, OnePaid
<1>6. Frozen' = Frozen \/ Frozen' = Frozen \cup {Original}
  BY <1>1, <1>4 DEF Frozen
<1> QED
  BY <1>2, <1>5, <1>6, Phases DEF EscrowStep, FundsMap, Promise!EscrowNext, Promise!PayOrder

LEMMA MarkRevisionPaidEscrow ==
  ASSUME IInv, IInv', NEW d \in Delivery, NEW paidInTime \in BOOLEAN,
         MarkRevisionPaid(d, paidInTime)
  PROVE  EscrowStep
<1>1. d \in EarningKey /\ d # Original /\ earning[d] = "NONE"
  BY LimitsAssumption
  DEF EarningKey, Original, Delivery, MarkRevisionPaid, IInv, MoneyInv, EarningsFollowPayments
<1>2. CASE CanActivate(d, paidInTime)
  <2>1. /\ status = "SUBMITTED" /\ status' = "REVISION_REQUESTED"
        /\ earning' = [earning EXCEPT ![d] = "PENDING"]
    BY <1>2 DEF MarkRevisionPaid, CanActivate
  <2>2. /\ earning'[d] = "PENDING"
        /\ \A j \in EarningKey : j # d => earning'[j] = earning[j]
    BY <1>1, <2>1 DEF IInv, TypeOK
  <2>3. FundsMap[d] = "none" /\ FundsMap' = [FundsMap EXCEPT ![d] = "escrow"]
    BY <1>1, <2>1, <2>2, OnePaid
  <2>4. Frozen' = Frozen
    BY <1>1, <2>2 DEF Frozen
  <2>5. Promise!PayExtra(d)
    BY <1>1, <2>1, <2>3, <2>4, Phases DEF FundsMap, Promise!PayExtra
  <2> QED
    BY <1>1, <2>5 DEF EscrowStep, Promise!EscrowNext
<1>3. CASE ~CanActivate(d, paidInTime)
  <2>1. UNCHANGED <<status, earning>>
    BY <1>3 DEF MarkRevisionPaid
  <2> QED
    BY <2>1, MoneyStays DEF EscrowStep
<1> QED
  BY <1>2, <1>3

\* A dispute puts a payment on hold if there is one.
LEMMA OpenDisputeEscrow ==
  ASSUME IInv, IInv', NEW i \in DisputeId, NEW by \in Parties, NEW escalation \in BOOLEAN,
         OpenDispute(i, by, escalation)
  PROVE  EscrowStep
<1>1. PICK k \in EarningKey : k = TargetPurchase
  BY DisputeTargetTyped DEF IInv
<1>2. /\ status \in DisputableStatuses /\ UNCHANGED status
      /\ earning[k] \in {"NONE", "PENDING", "AVAILABLE"}
  BY <1>1 DEF OpenDispute, Disputable, Freezable, orderVars
<1>3. /\ earning'[k] = IF earning[k] = "NONE" THEN "NONE" ELSE "FROZEN"
      /\ \A j \in EarningKey : j # k => earning'[j] = earning[j]
  BY <1>1 DEF OpenDispute, IInv, TypeOK
<1>4. FundsMap' = FundsMap
  <2>1. \A j \in EarningKey : FundsOf(j)' = FundsOf(j)
    BY <1>2, <1>3, EscrowView, EscrowViewNext DEF InView, FundsNow
  <2> QED
    BY <2>1 DEF FundsMap
<1>5. CASE earning[k] = "NONE"
  <2>1. Frozen' = Frozen
    BY <1>3, <1>5 DEF Frozen
  <2> QED
    BY <1>2, <1>4, <2>1 DEF EscrowStep
<1>6. CASE earning[k] # "NONE"
  <2>1. k \notin Frozen /\ Frozen' = Frozen \cup {k}
    BY <1>2, <1>3, <1>6 DEF Frozen
  <2>2. FundsMap[k] # "none"
    BY <1>6, EscrowView DEF InView, FundsMap, FundsNow
  <2>3. PhaseOf(status) \in {"working", "reviewing", "done"}
    BY <1>2, Phases DEF DisputableStatuses
  <2>4. Promise!PutOnHold(k)
    BY <1>2, <1>4, <2>1, <2>2, <2>3 DEF FundsMap, Promise!PutOnHold
  <2> QED
    BY <2>4 DEF EscrowStep, Promise!EscrowNext
<1> QED
  BY <1>5, <1>6

\* Deciding it takes the payment off hold, or leaves it there.
LEMMA ResolveEscrow ==
  ASSUME IInv, IInv', NEW i \in DisputeId, NEW decision \in FinalStatuses, Resolve(i, decision)
  PROVE  EscrowStep
<1>1. UNCHANGED status
  BY DEF Resolve, orderVars
<1>2. CASE UNCHANGED earning
  BY <1>1, <1>2, MoneyStays DEF EscrowStep
<1>3. CASE ~UNCHANGED earning
  <2>1. dispute[i] \in DisputeRow
    BY DEF IInv, TypeOK
  <2>2. PICK k \in EarningKey, e \in {"PENDING", "AVAILABLE"} :
          earning[k] = "FROZEN" /\ earning' = [earning EXCEPT ![k] = e]
    BY <1>3, <2>1 DEF Resolve, RestoreEarning, DisputeRow
  <2>3. /\ earning'[k] = e
        /\ \A j \in EarningKey : j # k => earning'[j] = earning[j]
    BY <2>2 DEF IInv, TypeOK
  <2>4. FundsMap' = FundsMap
    <3>1. \A j \in EarningKey : FundsOf(j)' = FundsOf(j)
      BY <1>1, <2>2, <2>3, EscrowView, EscrowViewNext DEF InView, FundsNow
    <3> QED
      BY <3>1 DEF FundsMap
  <2>5. k \in Frozen /\ Frozen' = Frozen \ {k}
    BY <2>2, <2>3 DEF Frozen
  <2>6. Promise!TakeOffHold(k)
    BY <1>1, <2>4, <2>5 DEF FundsMap, Promise!TakeOffHold
  <2> QED
    BY <2>6 DEF EscrowStep, Promise!EscrowNext
<1> QED
  BY <1>2, <1>3

LEMMA EscrowSimulation == IInv /\ IInv' /\ [Next]_vars => EscrowStep
<1> SUFFICES ASSUME IInv, IInv', [Next]_vars PROVE EscrowStep
  OBVIOUS
<1>1. CASE OrdersNext
  BY <1>1, OrderStepsEscrow, CompletionEscrow DEF OrdersNext, Complete, ReconcileExpiredReview
<1>2. CASE LedgerNext
  BY <1>2, OrderStepsEscrow, MarkPaidEscrow, MarkRevisionPaidEscrow DEF LedgerNext
<1>3. CASE DisputesNext
  <2>1. PICK i \in DisputeId :
          \/ \E by \in Parties, escalation \in BOOLEAN : OpenDispute(i, by, escalation)
          \/ SubmitResponse(i) \/ ReconcileExpiredResponse(i) \/ MarkReady(i) \/ BeginReview(i)
          \/ \E party \in Parties : RequestResponse(i, party)
          \/ \E decision \in FinalStatuses : Resolve(i, decision)
    BY <1>3 DEF DisputesNext
  <2>2. ASSUME \/ SubmitResponse(i) \/ ReconcileExpiredResponse(i) \/ MarkReady(i) \/ BeginReview(i)
               \/ \E party \in Parties : RequestResponse(i, party)
        PROVE  EscrowStep
    <3>1. UNCHANGED <<status, earning>>
      BY <2>2 DEF SubmitResponse, ReconcileExpiredResponse, RequestResponse, MarkReady, BeginReview,
                  orderVars, moneyVars
    <3> QED
      BY <3>1, MoneyStays DEF EscrowStep
  <2> QED
    BY <2>1, <2>2, OpenDisputeEscrow, ResolveEscrow
<1>4. CASE Tick \/ UNCHANGED vars
  <2>1. UNCHANGED <<status, earning>>
    BY <1>4 DEF Tick, vars, rowVars, orderVars, moneyVars
  <2> QED
    BY <2>1, MoneyStays DEF EscrowStep
<1> QED
  BY <1>1, <1>2, <1>3, <1>4 DEF Next

\* The order, ledger and dispute services, whatever their deliveries, deadlines and
\* dispute procedures, move the provider's money only as module Escrow allows.
THEOREM ImplementsEscrow == Spec => KeepsEscrow
<1>1. Init => Promise!EscrowInit
  <2> SUFFICES ASSUME Init PROVE Promise!EscrowInit
    OBVIOUS
  <2>1. status = "REQUESTED" /\ \A k \in EarningKey : earning[k] = "NONE"
    BY DEF Init, RowsInit
  <2>2. \A k \in EarningKey : FundsOf(k) = "none"
    BY <2>1, InitIInv, EscrowView DEF InView, FundsNow
  <2>3. Frozen = {}
    BY <2>1 DEF Frozen
  <2> QED
    BY <2>1, <2>2, <2>3, Phases DEF Promise!EscrowInit
<1>2. IInv /\ IInv' /\ [Next]_vars => [Promise!EscrowNext]_(Promise!escrowVars)
  BY EscrowSimulation DEF EscrowStep, FundsMap, Promise!escrowVars
<1> QED
  BY <1>1, <1>2, Invariance, PTL DEF Spec, KeepsEscrow, Promise!EscrowSpec

-----------------------------------------------------------------------------
\* An order in dispute.

\* What a step does to an order whose dispute was active before it and is after it.
OrderStands ==
  /\ UNCHANGED <<delivered, reviewDelivery, revisionsUsed, completionSource>>
  /\ status' # status => status = "ACCEPTED" /\ status' = "IN_PROGRESS"
  /\ \A k \in EarningKey : Released(k)' = Released(k)

\* Only a completion could release what was not released.
LEMMA ReleasedStays ==
  ASSUME IInv, IInv', status' = "COMPLETED" <=> status = "COMPLETED",
         \A k \in EarningKey : (earning'[k] = "NONE" <=> earning[k] = "NONE") \/ status # "COMPLETED"
  PROVE  \A k \in EarningKey : Released(k)' = Released(k)
<1> SUFFICES ASSUME NEW k \in EarningKey PROVE Released(k)' = Released(k)
  OBVIOUS
<1>1. Released(k) <=> status = "COMPLETED" /\ earning[k] # "NONE"
  BY DEF IInv, HoldInv, ReleasedByCompletion
<1>2. Released(k)' <=> status' = "COMPLETED" /\ earning'[k] # "NONE"
  BY DEF IInv, HoldInv, ReleasedByCompletion
<1>3. Released(k)' <=> Released(k)
  BY <1>1, <1>2
<1>4. Released(k) \in BOOLEAN /\ Released(k)' \in BOOLEAN
  BY DEF Released
<1> QED
  BY <1>3, <1>4

LEMMA DisputedOrderStep ==
  ASSUME IInv, IInv', [Next]_vars, ActiveDispute
  PROVE  OrderStands
<1>1. status \in DisputableStatuses
  BY DEF ActiveDispute, IsActive, IInv, AgreedFirst, ActiveStatuses, Waiting
<1>2. CASE OrdersNext
  <2>1. CASE Start \/ RequestProviderCorrection \/ \E d \in Delivery : DeclineProviderCorrection(d)
    <3>1. /\ UNCHANGED <<delivered, reviewDelivery, revisionsUsed, completionSource, earning>>
          /\ \/ UNCHANGED status
             \/ status = "ACCEPTED" /\ status' = "IN_PROGRESS"
      BY <2>1 DEF Start, Startable, RequestProviderCorrection, Claimable, DeclineProviderCorrection,
                  orderVars, reviewVars, workVars, moneyVars
    <3>2. \A k \in EarningKey : Released(k)' = Released(k)
      BY <3>1, ReleasedStays
    <3> QED
      BY <3>1, <3>2 DEF OrderStands
  <2>2. ~(Accept \/ Reject \/ Cancel)
    BY <1>1 DEF Accept, Reject, Cancel, DisputableStatuses
  <2>3. ~(Deliver \/ RequestRevision \/ \E d \in Delivery : AcceptProviderCorrection(d))
    BY DEF Deliver, DeliverFirst, FirstDue, DeliverRevision, RevisionDue, RequestRevision,
           AcceptProviderCorrection, ActionableReview
  <2>4. ~(Complete \/ ReconcileExpiredReview)
    BY DEF Complete, ReconcileExpiredReview, CompleteReviewedOrder, Completable
  <2> QED
    BY <1>2, <2>1, <2>2, <2>3, <2>4 DEF OrdersNext, DecideProviderCorrection
<1>3. CASE LedgerNext
  <2>1. UNCHANGED <<orderVars, delivered, reviewVars>>
    BY <1>3 DEF LedgerNext, CreateCheckout, CreateExtraRevisionCheckout, MarkPaid, MarkRevisionPaid,
                CanActivate, PaymentFailed, orderVars, workVars
  <2>2. status = "COMPLETED" => PaidInFull
    BY DEF IInv, MoneyInv, WorkIsPaid
  <2>3. ASSUME NEW k \in EarningKey
        PROVE  (earning'[k] = "NONE" <=> earning[k] = "NONE") \/ status # "COMPLETED"
    <3>1. CASE MarkPaid
      BY <2>2, <3>1 DEF MarkPaid, PaidInFull
    <3>2. CASE ~MarkPaid
      BY <1>3, <3>2 DEF LedgerNext, CreateCheckout, CreateExtraRevisionCheckout, MarkRevisionPaid,
                        CanActivate, PaymentFailed
    <3> QED
      BY <3>1, <3>2
  <2>4. \A k \in EarningKey : Released(k)' = Released(k)
    BY <2>1, <2>3, ReleasedStays DEF orderVars
  <2> QED
    BY <2>1, <2>4 DEF OrderStands, orderVars, reviewVars
<1>4. CASE DisputesNext \/ Tick \/ UNCHANGED vars
  <2>1. UNCHANGED <<orderVars, delivered, reviewDelivery, charge, activation>>
    BY <1>4 DEF DisputesNext, OpenDispute, SubmitResponse, ReconcileExpiredResponse, RequestResponse,
                MarkReady, BeginReview, Resolve, Tick, vars, rowVars, orderVars, reviewVars, workVars,
                moneyVars
  <2>2. \A k \in EarningKey : earning'[k] = "NONE" <=> earning[k] = "NONE"
    BY <2>1 DEF IInv, MoneyInv, EarningsFollowPayments, EarningKey
  <2>3. \A k \in EarningKey : Released(k)' = Released(k)
    BY <2>1, <2>2, ReleasedStays DEF orderVars
  <2> QED
    BY <2>1, <2>3 DEF OrderStands, orderVars
<1> QED
  BY <1>2, <1>3, <1>4 DEF Next

\* While a dispute is active, and whoever acts, the work and the money stand still;
\* only the start of an accepted order gets through.
THEOREM DisputeSuspendsOrder == Spec => DisputedOrderStands
<1>1. IInv /\ IInv' /\ [Next]_vars =>
        [ActiveDispute /\ ActiveDispute' =>
           /\ UNCHANGED <<delivered, reviewDelivery, revisionsUsed, completionSource>>
           /\ status' # status => status = "ACCEPTED" /\ status' = "IN_PROGRESS"
           /\ \A k \in EarningKey : Released(k)' = Released(k)]_vars
  BY DisputedOrderStep DEF OrderStands
<1> QED
  BY <1>1, Invariance, PTL DEF Spec, DisputedOrderStands

-----------------------------------------------------------------------------
\* The review clock: how long the client has had the delivery.

\* Outside a review only the source of a completion matters.
LEMMA OutsideReview ==
  ASSUME ReviewInv, status' # "SUBMITTED", UNCHANGED <<completionSource, reviewed>>,
         status' = status \/ status # "COMPLETED"
  PROVE  ReviewInv'
BY DEF ReviewInv, DisputeInterruptsReview, NothingLost, SourceOfCompletion, TimeoutAfterFullReview

\* A dispute that stays what it is about, with what it froze and what it will give
\* back, and does not become active again.
SamePause(i) ==
  /\ dispute'[i].paused = dispute[i].paused
  /\ dispute'[i].targetDelivery = dispute[i].targetDelivery
  /\ dispute'[i].preFreeze = dispute[i].preFreeze
  /\ dispute'[i].remaining = dispute[i].remaining
  /\ IsActive(i)' => IsActive(i)

LEMMA PausesKept ==
  ASSUME DisputeInterruptsReview, UNCHANGED <<status, reviewDelivery>>,
         \A i \in DisputeId : SamePause(i)
  PROVE  DisputeInterruptsReview'
BY DEF DisputeInterruptsReview, SamePause

\* Nothing that concerns the review happens.
LEMMA ReviewFrame ==
  ASSUME ReviewInv, UNCHANGED <<status, completionSource, reviewDelivery, reviewLeft, reviewed>>,
         \A i \in DisputeId : SamePause(i) /\ (IsActive(i)' <=> IsActive(i))
                              /\ (dispute[i].status = "RESOLVED_CLIENT" => dispute'[i].status = "RESOLVED_CLIENT")
  PROVE  ReviewInv'
<1>1. DisputeInterruptsReview'
  BY PausesKept DEF ReviewInv
<1>2. (ActiveDispute' <=> ActiveDispute) /\ (ClientHolds => ClientHolds')
  BY DEF ActiveDispute, ClientHolds, SamePause
<1>3. NothingLost'
  BY <1>2 DEF ReviewInv, NothingLost, SamePause
<1> QED
  BY <1>1, <1>3 DEF ReviewInv, SourceOfCompletion, TimeoutAfterFullReview

LEMMA StillReview ==
  ASSUME ReviewInv, UNCHANGED <<status, completionSource, reviewDelivery, reviewLeft, reviewed, dispute>>
  PROVE  ReviewInv'
BY ReviewFrame DEF SamePause, IsActive

\* A review begins with the whole window, and with no dispute.
LEMMA DeliverReview ==
  ASSUME ClockInv, Deliver, reviewed' = 0
  PROVE  ReviewInv'
<1>1. /\ reviewLeft' = ReviewWindow /\ ~ActiveDispute /\ UNCHANGED dispute
      /\ completionSource' = "NONE"
  BY DEF Deliver, DeliverFirst, FirstDue, DeliverRevision, RevisionDue, SubmitVersion
<1>2. \A i \in DisputeId : ~IsActive(i)'
  BY <1>1 DEF ActiveDispute, IsActive
<1>3. reviewed' + reviewLeft' >= ReviewWindow
  BY <1>1, LimitsAssumption
<1> QED
  BY <1>1, <1>2, <1>3
  DEF ReviewInv, DisputeInterruptsReview, NothingLost, SourceOfCompletion, TimeoutAfterFullReview

\* A frozen earning stands in the way of completion, so the whole window was used.
LEMMA CompletionReview ==
  ASSUME ClockInv, Complete \/ ReconcileExpiredReview, UNCHANGED reviewed
  PROVE  ReviewInv'
<1>1. /\ Completable /\ status' = "COMPLETED"
      /\ \/ completionSource' = "CLIENT_ACCEPTED"
         \/ completionSource' = "AUTO_REVIEW_TIMEOUT" /\ reviewLeft = 0
  BY DEF Complete, ReconcileExpiredReview, CompleteReviewedOrder
<1>2. ~ClientHolds
  <2> SUFFICES ASSUME ClientHolds PROVE FALSE
    OBVIOUS
  <2>1. PICK i \in DisputeId : dispute[i].status = "RESOLVED_CLIENT" /\ dispute[i].preFreeze # "NONE"
    BY DEF ClientHolds
  <2>2. PICK k \in EarningKey : k = dispute[i].target
    BY DEF ClockInv, IInv, TypeOK, DisputeRow
  <2>3. earning[k] = "FROZEN"
    BY <2>1, <2>2 DEF ClockInv, IInv, HoldInv, FrozenWhileHeld, Holds
  <2>4. k \in ReleasableEarnings
    BY <2>3 DEF ReleasableEarnings, ExtraEarnings, EarningKey
  <2> QED
    BY <1>1, <2>3, <2>4 DEF Completable
<1>3. completionSource' = "AUTO_REVIEW_TIMEOUT" => reviewed = ReviewWindow
  <2>1. status = "SUBMITTED" /\ ~ActiveDispute
    BY <1>1 DEF Completable
  <2>2. reviewed + reviewLeft >= ReviewWindow
    BY <1>2, <2>1 DEF ClockInv, ReviewInv, NothingLost
  <2>3. reviewed \in 0 .. ReviewWindow
    BY DEF ClockInv, ClockTypeOK
  <2> QED
    BY <1>1, <2>2, <2>3, LimitsAssumption
<1> QED
  BY <1>1, <1>3
  DEF ReviewInv, DisputeInterruptsReview, NothingLost, SourceOfCompletion, TimeoutAfterFullReview

LEMMA OtherOrdersReview ==
  ASSUME ClockInv, OrdersNext, ~Deliver, UNCHANGED reviewed
  PROVE  ReviewInv'
<1>1. CASE Accept \/ Reject \/ Cancel \/ Start \/ RequestRevision
           \/ \E d \in Delivery : AcceptProviderCorrection(d)
  <2>1. status' # "SUBMITTED" /\ status # "COMPLETED" /\ UNCHANGED completionSource
    BY <1>1 DEF Accept, Reject, Cancel, Start, Startable, RequestRevision, AcceptProviderCorrection,
                ActionableReview
  <2> QED
    BY <2>1, OutsideReview DEF ClockInv
<1>2. CASE RequestProviderCorrection \/ \E d \in Delivery : DeclineProviderCorrection(d)
  <2>1. UNCHANGED <<status, completionSource, reviewDelivery, reviewLeft, dispute>>
    BY <1>2 DEF RequestProviderCorrection, DeclineProviderCorrection, orderVars, reviewVars
  <2> QED
    BY <2>1, StillReview DEF ClockInv
<1> QED
  BY <1>1, <1>2, CompletionReview DEF OrdersNext, DecideProviderCorrection

LEMMA LedgerReview ==
  ASSUME ClockInv, LedgerNext, UNCHANGED reviewed
  PROVE  ReviewInv'
<1>1. CASE \/ CreateCheckout \/ CreateExtraRevisionCheckout
           \/ \E k \in EarningKey : PaymentFailed(k)
  <2>1. UNCHANGED <<status, completionSource, reviewDelivery, reviewLeft, dispute>>
    BY <1>1 DEF CreateCheckout, CreateExtraRevisionCheckout, PaymentFailed, orderVars, reviewVars
  <2> QED
    BY <2>1, StillReview DEF ClockInv
<1>2. CASE MarkPaid
  <2>1. status # "SUBMITTED" /\ UNCHANGED <<status, completionSource>>
    BY <1>2 DEF MarkPaid, ClockInv, IInv, MoneyInv, WorkIsPaid, PaidInFull, orderVars
  <2> QED
    BY <2>1, OutsideReview DEF ClockInv
<1>3. ASSUME NEW d \in Delivery, NEW paidInTime \in BOOLEAN, MarkRevisionPaid(d, paidInTime)
      PROVE  ReviewInv'
  <2>1. CASE CanActivate(d, paidInTime)
    <3>1. status' # "SUBMITTED" /\ status # "COMPLETED" /\ UNCHANGED completionSource
      BY <1>3, <2>1 DEF MarkRevisionPaid, CanActivate
    <3> QED
      BY <3>1, OutsideReview DEF ClockInv
  <2>2. CASE ~CanActivate(d, paidInTime)
    <3>1. UNCHANGED <<status, completionSource, reviewDelivery, reviewLeft, dispute>>
      BY <1>3, <2>2 DEF MarkRevisionPaid, reviewVars
    <3> QED
      BY <3>1, StillReview DEF ClockInv
  <2> QED
    BY <2>1, <2>2
<1> QED
  BY <1>1, <1>2, <1>3 DEF LedgerNext

\* A dispute opened during a review takes over what is left of it.
LEMMA OpenDisputeReview ==
  ASSUME ClockInv, NEW i \in DisputeId, NEW by \in Parties, NEW escalation \in BOOLEAN,
         OpenDispute(i, by, escalation), UNCHANGED reviewed
  PROVE  ReviewInv'
<1>1. /\ ~ActiveDispute /\ dispute[i].status = "NONE" /\ Freezable(TargetPurchase)
      /\ UNCHANGED <<status, completionSource, reviewDelivery, reviewLeft>>
  BY DEF OpenDispute, Disputable, orderVars, reviewVars
<1>2. CASE status # "SUBMITTED"
  BY <1>1, <1>2, OutsideReview DEF ClockInv
<1>3. CASE status = "SUBMITTED"
  <2>1. /\ reviewDelivery # 0 /\ TargetDelivery = reviewDelivery
    BY <1>3 DEF ClockInv, IInv, WorkInv, ReviewFollowsWork, ReviewIsCurrent, TargetDelivery
  <2>2. earning[TargetPurchase] # "NONE"
    <3>1. earning[Original] # "NONE"
      BY <1>3 DEF ClockInv, IInv, MoneyInv, WorkIsPaid, PaidInFull, EarningsFollowPayments
    <3> QED
      BY <1>1, <3>1 DEF Freezable
  <2>3. /\ dispute'[i].paused /\ dispute'[i].targetDelivery = reviewDelivery
        /\ dispute'[i].preFreeze # "NONE" /\ dispute'[i].remaining = reviewLeft
        /\ dispute'[i].status # "RESOLVED_CLIENT"
        /\ \A j \in DisputeId : j # i => dispute'[j] = dispute[j]
    <3> DEFINE pausing == status = "SUBMITTED" /\ reviewDelivery # 0
    <3>1. dispute'[i] = [status |-> WaitingFor(CHOOSE p \in Parties : p # by),
                         left |-> ResponseWindow,
                         target |-> TargetPurchase,
                         targetDelivery |-> TargetDelivery,
                         preFreeze |-> earning[TargetPurchase],
                         paused |-> pausing,
                         remaining |-> IF pausing THEN reviewLeft ELSE 0]
      BY DEF OpenDispute, ClockInv, IInv, TypeOK
    <3>0. pausing = TRUE
      BY <1>3, <2>1
    <3> HIDE DEF pausing
    <3>2. \A j \in DisputeId : j # i => dispute'[j] = dispute[j]
      BY DEF OpenDispute, ClockInv, IInv, TypeOK
    <3>3. dispute'[i].paused = TRUE
      <4>1. dispute'[i].paused = pausing
        BY <3>1
      <4> QED
        BY <3>0, <4>1
    <3>4. /\ dispute'[i].targetDelivery = TargetDelivery
          /\ dispute'[i].preFreeze = earning[TargetPurchase]
          /\ dispute'[i].remaining = reviewLeft
      BY <3>0, <3>1
    <3>5. dispute'[i].status = WaitingFor(CHOOSE p \in Parties : p # by)
      BY <3>1
    <3> QED
      BY <2>1, <2>2, <3>2, <3>3, <3>4, <3>5 DEF WaitingFor
  <2>4. \A j \in DisputeId : IsActive(j)' => j = i
    BY <1>1, <2>3 DEF ActiveDispute, IsActive
  <2>5. DisputeInterruptsReview'
    BY <1>1, <2>3, <2>4 DEF DisputeInterruptsReview
  <2>6. ClientHolds => ClientHolds'
    BY <1>1, <2>3 DEF ClientHolds
  <2>7. IsActive(i)'
    <3>1. (CHOOSE p \in Parties : p # by) \in Parties
      BY DEF Parties
    <3>2. WaitingFor(CHOOSE p \in Parties : p # by) \in ActiveStatuses
      BY <3>1 DEF WaitingFor, Parties, ActiveStatuses, Waiting
    <3> QED
      BY <3>2 DEF OpenDispute, IsActive, ClockInv, IInv, TypeOK
  <2>8. NothingLost'
    <3>1. ~ClientHolds => reviewed + reviewLeft >= ReviewWindow
      BY <1>1, <1>3 DEF ClockInv, ReviewInv, NothingLost
    <3> QED
      BY <1>1, <2>3, <2>4, <2>6, <2>7, <3>1 DEF NothingLost, ActiveDispute
  <2> QED
    BY <1>1, <2>5, <2>8 DEF ClockInv, ReviewInv, SourceOfCompletion, TimeoutAfterFullReview
<1> QED
  BY <1>2, <1>3

LEMMA DisputeQueueReview ==
  ASSUME ClockInv, NEW i \in DisputeId,
         \/ SubmitResponse(i) \/ ReconcileExpiredResponse(i) \/ MarkReady(i) \/ BeginReview(i)
         \/ \E party \in Parties : RequestResponse(i, party),
         UNCHANGED reviewed
  PROVE  ReviewInv'
<1>1. UNCHANGED <<status, completionSource, reviewDelivery, reviewLeft>>
  BY DEF SubmitResponse, ReconcileExpiredResponse, MarkReady, BeginReview, RequestResponse,
         orderVars, reviewVars
<1>2. IsActive(i) /\ dispute[i].status # "RESOLVED_CLIENT"
  BY DEF SubmitResponse, Answerable, ReconcileExpiredResponse, MarkReady, BeginReview, RequestResponse,
         IsActive, ActiveStatuses, Waiting
<1>3. \A j \in DisputeId : j # i => dispute'[j] = dispute[j]
  BY DEF SubmitResponse, ReconcileExpiredResponse, MarkReady, BeginReview, RequestResponse,
         SetStatus, ClockInv, IInv, TypeOK
<1>4. dispute'[i].status \in ActiveStatuses /\ SamePause(i)
  <2>1. dispute[i] \in DisputeRow
    BY DEF ClockInv, IInv, TypeOK
  <2>2. ASSUME NEW s \in ActiveStatuses, SetStatus(i, s)
        PROVE  dispute'[i].status \in ActiveStatuses /\ SamePause(i)
    BY <1>2, <2>1, <2>2 DEF SetStatus, SamePause, ClockInv, IInv, TypeOK, DisputeRow
  <2>3. ASSUME NEW party \in Parties, RequestResponse(i, party)
        PROVE  dispute'[i].status \in ActiveStatuses /\ SamePause(i)
    <3>1. WaitingFor(party) \in ActiveStatuses
      BY DEF WaitingFor, ActiveStatuses, Waiting
    <3> QED
      BY <1>2, <2>1, <2>3, <3>1 DEF RequestResponse, SamePause, ClockInv, IInv, TypeOK, DisputeRow
  <2> QED
    BY <2>2, <2>3 DEF SubmitResponse, ReconcileExpiredResponse, MarkReady, BeginReview, ActiveStatuses
<1>5. \A j \in DisputeId :
        /\ SamePause(j) /\ (IsActive(j)' <=> IsActive(j))
        /\ dispute[j].status = "RESOLVED_CLIENT" => dispute'[j].status = "RESOLVED_CLIENT"
  BY <1>2, <1>3, <1>4 DEF SamePause, IsActive
<1> QED
  BY <1>1, <1>5, ReviewFrame DEF ClockInv

\* The decision gives the time back, or leaves the earning frozen for good.
LEMMA ResolveReview ==
  ASSUME ClockInv, NEW i \in DisputeId, NEW decision \in FinalStatuses, Resolve(i, decision),
         UNCHANGED reviewed
  PROVE  ReviewInv'
<1>0. dispute[i] \in DisputeRow
  BY DEF ClockInv, IInv, TypeOK
<1>1. IsActive(i) /\ UNCHANGED <<status, completionSource, reviewDelivery>>
  BY DEF Resolve, orderVars
<1>2. /\ dispute'[i].status = decision /\ SamePause(i) /\ ~IsActive(i)'
      /\ \A j \in DisputeId : j # i => dispute'[j] = dispute[j]
  BY <1>0, <1>1 DEF Resolve, SetStatus, SamePause, IsActive, ClockInv, IInv, TypeOK, DisputeRow,
                    FinalStatuses, Restoring, ActiveStatuses, Waiting
<1>3. CASE status # "SUBMITTED"
  BY <1>1, <1>3, OutsideReview DEF ClockInv
<1>4. CASE status = "SUBMITTED"
  <2>1. \A j \in DisputeId : SamePause(j) /\ ~IsActive(j)'
    BY <1>1, <1>2 DEF SamePause, ClockInv, IInv, HoldInv, OneActiveDispute, IsActive
  <2>2. DisputeInterruptsReview'
    BY <1>1, <2>1, PausesKept DEF ClockInv, ReviewInv
  <2>3. /\ dispute[i].paused /\ dispute[i].targetDelivery = reviewDelivery
        /\ dispute[i].preFreeze # "NONE"
    BY <1>1, <1>4 DEF ClockInv, ReviewInv, DisputeInterruptsReview
  <2>4. ClientHolds => ClientHolds'
    BY <1>1, <1>2 DEF ClientHolds, IsActive, ActiveStatuses, Waiting
  <2>5. CASE decision = "RESOLVED_CLIENT"
    <3>1. ClientHolds'
      BY <1>2, <2>3, <2>5 DEF ClientHolds, SamePause
    <3> QED
      BY <1>1, <2>2, <3>1 DEF ClockInv, ReviewInv, NothingLost, SourceOfCompletion,
                             TimeoutAfterFullReview
  <2>6. CASE decision # "RESOLVED_CLIENT"
    <3>1. reviewLeft' = dispute[i].remaining
      BY <1>4, <2>3, <2>6 DEF Resolve, ResumeReview, FinalStatuses
    <3>2. ~ClientHolds => reviewed + dispute[i].remaining >= ReviewWindow
      BY <1>1, <1>4 DEF ClockInv, ReviewInv, NothingLost
    <3>3. NothingLost'
      BY <2>1, <2>4, <3>1, <3>2 DEF NothingLost
    <3> QED
      BY <1>1, <2>2, <3>3 DEF ClockInv, ReviewInv, SourceOfCompletion, TimeoutAfterFullReview
  <2> QED
    BY <2>5, <2>6
<1> QED
  BY <1>3, <1>4

\* Time runs for the client as long as no dispute stops it.
LEMMA TickReview ==
  ASSUME ClockInv, Tick,
         IF ReviewTick THEN reviewed' = IF reviewed < ReviewWindow THEN reviewed + 1 ELSE reviewed
         ELSE UNCHANGED reviewed
  PROVE  ReviewInv'
<1>1. /\ UNCHANGED <<status, completionSource, reviewDelivery>>
      /\ reviewLeft' = Sooner(reviewLeft)
  BY DEF Tick, orderVars
<1>2. ASSUME NEW i \in DisputeId PROVE SamePause(i) /\ dispute'[i].status = dispute[i].status
  <2>1. dispute[i] \in DisputeRow
    BY DEF ClockInv, IInv, TypeOK
  <2>2. dispute'[i] = [dispute[i] EXCEPT !.left = Sooner(@)]
    BY DEF Tick
  <2> QED
    BY <2>1, <2>2 DEF SamePause, IsActive, DisputeRow
<1>3. CASE status # "SUBMITTED"
  BY <1>1, <1>3, OutsideReview DEF ClockInv, ReviewTick
<1>4. CASE status = "SUBMITTED"
  <2>1. DisputeInterruptsReview'
    BY <1>1, <1>2, PausesKept DEF ClockInv, ReviewInv
  <2>2. (ActiveDispute' <=> ActiveDispute) /\ (ClientHolds <=> ClientHolds')
    BY <1>2 DEF ActiveDispute, ClientHolds, SamePause, IsActive
  <2>3. NothingLost'
    <3>1. CASE ActiveDispute
      BY <1>1, <1>2, <1>4, <2>2, <3>1 DEF ClockInv, ReviewInv, NothingLost, SamePause, ReviewTick
    <3>2. CASE ~ActiveDispute
      <4>1. reviewed \in 0 .. ReviewWindow /\ reviewLeft \in 0 .. ReviewWindow
        BY DEF ClockInv, ClockTypeOK, TypeOK
      <4>2. ~ClientHolds => reviewed + reviewLeft >= ReviewWindow
        BY <1>4, <3>2 DEF ClockInv, ReviewInv, NothingLost
      <4>3. reviewed' = IF reviewed < ReviewWindow THEN reviewed + 1 ELSE reviewed
        BY <1>4, <3>2 DEF ReviewTick
      <4>4. reviewed + reviewLeft >= ReviewWindow => reviewed' + reviewLeft' >= ReviewWindow
        BY <1>1, <4>1, <4>3, LimitsAssumption DEF Sooner
      <4> QED
        BY <2>2, <3>2, <4>2, <4>4 DEF NothingLost, ActiveDispute
    <3> QED
      BY <3>1, <3>2
  <2>4. SourceOfCompletion' /\ TimeoutAfterFullReview'
    BY <1>1, <1>4 DEF ClockInv, ReviewInv, SourceOfCompletion, TimeoutAfterFullReview
  <2> QED
    BY <2>1, <2>3, <2>4 DEF ReviewInv
<1> QED
  BY <1>3, <1>4

LEMMA ReviewInvKept == ClockInv /\ [ClockNext]_clockVars => ReviewInv'
<1> SUFFICES ASSUME ClockInv, [ClockNext]_clockVars PROVE ReviewInv'
  OBVIOUS
<1>1. CASE ReviewTick /\ reviewed' = IF reviewed < ReviewWindow THEN reviewed + 1 ELSE reviewed
  BY <1>1, TickReview DEF ReviewTick
<1>2. CASE Deliver /\ reviewed' = 0
  BY <1>2, DeliverReview
<1>3. CASE Next /\ ~ReviewTick /\ ~Deliver /\ UNCHANGED reviewed
  <2>1. CASE DisputesNext
    BY <1>3, <2>1, OpenDisputeReview, DisputeQueueReview, ResolveReview DEF DisputesNext
  <2> QED
    BY <1>3, <2>1, OtherOrdersReview, LedgerReview, TickReview DEF Next
<1>4. CASE UNCHANGED clockVars
  BY <1>4, StillReview DEF clockVars, ClockInv, vars, rowVars, orderVars, reviewVars
<1> QED
  BY <1>1, <1>2, <1>3, <1>4 DEF ClockNext

LEMMA ClockInvKept == ClockInv /\ [ClockNext]_clockVars => ClockInv'
<1> SUFFICES ASSUME ClockInv, [ClockNext]_clockVars PROVE ClockInv'
  OBVIOUS
<1>1. [Next]_vars
  BY DEF ClockNext, ReviewTick, Next, OrdersNext, clockVars
<1>2. IInv'
  BY <1>1, IInvKept DEF ClockInv
<1>3. reviewed' \in 0 .. ReviewWindow
  <2>1. reviewed \in 0 .. ReviewWindow
    BY DEF ClockInv, ClockTypeOK
  <2> QED
    BY <2>1, LimitsAssumption DEF ClockNext, clockVars
<1> QED
  BY <1>2, <1>3, ReviewInvKept DEF ClockInv, ClockTypeOK, IInv

LEMMA InitClockInv == ClockInit => ClockInv
<1> SUFFICES ASSUME ClockInit PROVE ClockInv
  OBVIOUS
<1>1. IInv
  BY InitIInv DEF ClockInit
<1>2. status = "REQUESTED" /\ completionSource = "NONE" /\ reviewed = 0
  BY DEF ClockInit, Init, RowsInit
<1> QED
  BY <1>1, <1>2, LimitsAssumption
  DEF ClockInv, ClockTypeOK, IInv, ReviewInv, DisputeInterruptsReview, NothingLost,
      SourceOfCompletion, TimeoutAfterFullReview

\* The rows, the disputes and the history of the review stay in step.
THEOREM ClockInvariance == ClockSpec => []ClockInv
BY InitClockInv, ClockInvKept, PTL DEF ClockSpec

\* No order is completed by the timeout before its client has had the whole window
\* without a dispute, whatever disputes interrupted the review.
THEOREM TimeoutIsFair == ClockSpec => []TimeoutAfterFullReview
<1>1. ClockInv => TimeoutAfterFullReview
  BY DEF ClockInv, ReviewInv
<1> QED
  BY <1>1, ClockInvariance, PTL

\* And at every moment of the review the rest of the window is still to come.
THEOREM WindowIsKept == ClockSpec => []WindowAccountedFor
<1>1. ClockInv => WindowAccountedFor
  BY DEF ClockInv, ReviewInv, NothingLost, ClientHolds, ActiveDispute, WindowAccountedFor
<1> QED
  BY <1>1, ClockInvariance, PTL

-----------------------------------------------------------------------------
\* What the screens offer.

LEMMA Smallest ==
  ASSUME NEW S \in SUBSET Nat, S # {}
  PROVE  \E m \in S : \A n \in S : m <= n
<1> DEFINE Less == {ss \in Nat \X Nat : ss[1] < ss[2]}
<1>1. IsWellFoundedOn(Less, Nat)
  BY NatLessThanWellFounded DEF OpToRel
<1>2. \A m, n \in Nat : n < m => <<n, m>> \in Less
  OBVIOUS
<1> HIDE DEF Less
<1>3. PICK m \in S : \A n \in S : ~(<<n, m>> \in Less)
  BY <1>1, WFMin
<1>4. ASSUME NEW n \in S PROVE m <= n
  <2>1. n \in Nat /\ m \in Nat /\ ~(n < m)
    BY <1>2, <1>3
  <2> QED BY <2>1
<1> QED BY <1>3, <1>4

LEMMA Largest ==
  ASSUME NEW N \in Nat, NEW S \in SUBSET (1 .. N), S # {}
  PROVE  Max(S) \in S /\ \A n \in S : n <= Max(S)
<1> DEFINE Rest == {N - n : n \in S}
<1>1. Rest \in SUBSET Nat /\ Rest # {}
  OBVIOUS
<1>2. PICK r \in Rest : \A q \in Rest : r <= q
  BY <1>1, Smallest
<1>3. PICK m \in S : r = N - m
  BY <1>2
<1>4. \A n \in S : N - n \in Rest
  OBVIOUS
<1> HIDE DEF Rest
<1>5. ASSUME NEW n \in S PROVE m >= n
  <2>1. N - m <= N - n /\ n \in 1 .. N /\ m \in 1 .. N
    BY <1>2, <1>3, <1>4
  <2> QED BY <2>1
<1>6. Max(S) \in S /\ \A n \in S : Max(S) >= n
  BY <1>5 DEF Max
<1>7. \A n \in S : n \in 1 .. N
  OBVIOUS
<1> QED BY <1>6, <1>7

\* As long as disputes are left, one is the next to be opened.
LEMMA NextDispute ==
  ASSUME Cardinality(Opened) < MaxDisputes
  PROVE  \E i \in DisputeId : /\ dispute[i].status = "NONE"
                              /\ \A j \in DisputeId : j < i => dispute[j].status # "NONE"
<1> DEFINE Unopened == {i \in DisputeId : dispute[i].status = "NONE"}
<1>1. Cardinality(DisputeId) = MaxDisputes
  <2>1. MaxDisputes \in Nat /\ 1 \in Int
    BY LimitsAssumption
  <2>2. Cardinality(1 .. MaxDisputes) = IF 1 > MaxDisputes THEN 0 ELSE MaxDisputes - 1 + 1
    BY <2>1, FS_Interval
  <2> QED BY <2>1, <2>2 DEF DisputeId
<1>2. Unopened # {}
  <2>1. SUFFICES ASSUME Unopened = {} PROVE FALSE
    OBVIOUS
  <2>2. Opened = DisputeId
    BY <2>1 DEF Opened
  <2> QED BY <1>1, <2>2, LimitsAssumption
<1>3. Unopened \in SUBSET Nat
  BY LimitsAssumption DEF DisputeId
<1>4. PICK i \in Unopened : \A j \in Unopened : i <= j
  BY <1>2, <1>3, Smallest
<1>5. ASSUME NEW j \in DisputeId, j < i PROVE dispute[j].status # "NONE"
  BY <1>3, <1>4, <1>5
<1> QED BY <1>4, <1>5

\* The dispute that is active is the one opened last.
LEMMA ActiveIsLatest ==
  ASSUME DisputesInOrder
  PROVE  /\ \A i \in DisputeId : IsActive(i) => Opened # {} /\ i = Max(Opened)
         /\ Opened # {} => Max(Opened) \in DisputeId
         /\ Disputed <=> ActiveDispute
<1>1. MaxDisputes \in Nat /\ Opened \in SUBSET (1 .. MaxDisputes)
  BY LimitsAssumption DEF Opened, DisputeId
<1>2. Opened # {} => Max(Opened) \in Opened /\ \A i \in Opened : i <= Max(Opened)
  BY <1>1, Largest
<1>3. ASSUME NEW i \in DisputeId, IsActive(i) PROVE i = Max(Opened) /\ Opened # {}
  <2>1. i \in Opened
    BY <1>3 DEF Opened, IsActive, ActiveStatuses, Waiting
  <2>2. Max(Opened) \in DisputeId /\ dispute[Max(Opened)].status # "NONE" /\ i <= Max(Opened)
    BY <1>2, <2>1 DEF Opened
  <2>3. ~(i < Max(Opened))
    BY <1>3, <2>2 DEF DisputesInOrder
  <2>4. i \in Nat /\ Max(Opened) \in Nat
    BY <1>1, <1>3, <2>2 DEF DisputeId
  <2> QED BY <2>1, <2>2, <2>3, <2>4
<1>4. Opened # {} => Max(Opened) \in DisputeId
  BY <1>2 DEF Opened
<1> QED BY <1>3, <1>4 DEF Disputed, ActiveDispute

\* A step of a dispute that is already open, or of the clock, or a payment.
SameOrder(i) ==
  /\ dispute'[i].status = "NONE" <=> dispute[i].status = "NONE"
  /\ IsActive(i)' => IsActive(i)

LEMMA DisputesStay ==
  DisputesInOrder /\ (\A i \in DisputeId : SameOrder(i)) => DisputesInOrder'
BY DEF DisputesInOrder, SameOrder, IsActive

LEMMA DisputesInOrderKept == IInv /\ DisputesInOrder /\ [Next]_vars => DisputesInOrder'
<1> SUFFICES ASSUME IInv, DisputesInOrder, [Next]_vars PROVE DisputesInOrder'
  OBVIOUS
<1>t. TypeOK
  BY DEF IInv
<1>1. CASE UNCHANGED dispute
  BY <1>1 DEF DisputesInOrder, IsActive
<1>2. CASE OrdersNext
  <2>1. UNCHANGED dispute
    BY <1>2 DEF OrdersNext, Accept, Reject, Cancel, Start, Deliver, DeliverFirst, DeliverRevision,
                RequestRevision, RequestProviderCorrection, DecideProviderCorrection,
                AcceptProviderCorrection, DeclineProviderCorrection, Complete,
                ReconcileExpiredReview, CompleteReviewedOrder
  <2> QED BY <1>1, <2>1
<1>3. CASE LedgerNext
  <2>1. CASE MarkPaid
    <3>1. ASSUME NEW i \in DisputeId PROVE SameOrder(i)
      <4>1. dispute'[i].status = dispute[i].status
        BY <1>t, <2>1 DEF MarkPaid, FrozenRow, TypeOK, DisputeRow
      <4> QED BY <4>1 DEF SameOrder, IsActive
    <3> QED BY <3>1, DisputesStay
  <2> QED BY <1>1, <1>3, <2>1 DEF LedgerNext, CreateCheckout, CreateExtraRevisionCheckout,
       MarkRevisionPaid, PaymentFailed
<1>4. CASE Tick
  <2>1. ASSUME NEW i \in DisputeId PROVE SameOrder(i)
    <3>1. dispute'[i].status = dispute[i].status
      BY <1>t, <1>4 DEF Tick, TypeOK, DisputeRow
    <3> QED BY <3>1 DEF SameOrder, IsActive
  <2> QED BY <2>1, DisputesStay
<1>5. ASSUME NEW i \in DisputeId, NEW by \in Parties, NEW escalation \in BOOLEAN,
             OpenDispute(i, by, escalation)
      PROVE  DisputesInOrder'
  <2>1. /\ dispute[i].status = "NONE" /\ ~ActiveDispute
        /\ \A j \in DisputeId : j < i => dispute[j].status # "NONE"
    BY <1>5 DEF OpenDispute, Disputable
  <2>2. \A j \in DisputeId : j # i => dispute'[j] = dispute[j]
    BY <1>5, <1>t DEF OpenDispute, TypeOK
  <2>3. \A j \in DisputeId : i < j => dispute[j].status = "NONE"
    BY <2>1 DEF DisputesInOrder
  <2>4. \A j, h \in DisputeId : j < h => j # h
    BY LimitsAssumption DEF DisputeId
  <2>5. ASSUME NEW h \in DisputeId, NEW j \in DisputeId, j < h, dispute'[h].status # "NONE"
        PROVE  dispute'[j].status # "NONE" /\ ~IsActive(j)'
    <3>1. j # i
      BY <2>2, <2>3, <2>4, <2>5
    <3>2. dispute[j].status # "NONE"
      BY <2>1, <2>2, <2>5 DEF DisputesInOrder
    <3> QED BY <2>1, <2>2, <3>1, <3>2 DEF ActiveDispute, IsActive
  <2> QED BY <2>5 DEF DisputesInOrder
<1>6. ASSUME NEW i \in DisputeId,
             \/ SubmitResponse(i) \/ ReconcileExpiredResponse(i) \/ MarkReady(i) \/ BeginReview(i)
             \/ \E party \in Parties : RequestResponse(i, party)
             \/ \E decision \in FinalStatuses : Resolve(i, decision)
      PROVE  DisputesInOrder'
  <2>1. IsActive(i)
    BY <1>6 DEF SubmitResponse, Answerable, ReconcileExpiredResponse, MarkReady, BeginReview,
                RequestResponse, Resolve, IsActive, ActiveStatuses
  <2>2. \A j \in DisputeId : j # i => dispute'[j] = dispute[j]
    BY <1>6, <1>t DEF SubmitResponse, ReconcileExpiredResponse, MarkReady, BeginReview,
                      RequestResponse, Resolve, SetStatus, TypeOK
  <2>4. dispute'[i].status # "NONE"
    <3>1. dispute \in [DisputeId -> DisputeRow]
      BY <1>t DEF TypeOK
    <3>2. CASE \/ SubmitResponse(i) \/ ReconcileExpiredResponse(i) \/ MarkReady(i) \/ BeginReview(i)
      BY <3>1, <3>2 DEF SubmitResponse, ReconcileExpiredResponse, MarkReady, BeginReview, SetStatus,
                        DisputeRow
    <3>3. ASSUME NEW party \in Parties, RequestResponse(i, party) PROVE dispute'[i].status # "NONE"
      BY <3>1, <3>3 DEF RequestResponse, WaitingFor, DisputeRow
    <3>4. ASSUME NEW decision \in FinalStatuses, Resolve(i, decision) PROVE dispute'[i].status # "NONE"
      BY <3>1, <3>4 DEF Resolve, SetStatus, DisputeRow, FinalStatuses, Restoring
    <3> QED BY <1>6, <3>2, <3>3, <3>4
  <2>3. \A j \in DisputeId : SameOrder(j)
    BY <2>1, <2>2, <2>4 DEF SameOrder, IsActive, ActiveStatuses, Waiting
  <2> QED BY <2>3, DisputesStay
<1>7. CASE UNCHANGED vars
  BY <1>1, <1>7 DEF vars, rowVars
<1> QED
  BY <1>2, <1>3, <1>4, <1>5, <1>6, <1>7 DEF Next, DisputesNext

LEMMA PurchasesFrame ==
  PurchasesInOrder /\ UNCHANGED <<charge, activation, revision, answers, delivered>> => PurchasesInOrder'
BY DEF PurchasesInOrder, Extra

LEMMA PurchasesInOrderKept == IInv /\ PurchasesInOrder /\ [Next]_vars => PurchasesInOrder'
<1> SUFFICES ASSUME IInv, PurchasesInOrder, [Next]_vars PROVE PurchasesInOrder'
  OBVIOUS
<1>t. /\ charge \in [EarningKey -> ChargeStatus] /\ activation \in [Delivery -> ActivationStatus]
      /\ revision \in [Delivery \X RevisionType -> RevisionStatus]
      /\ answers \in [Delivery -> EarningKey] /\ delivered \in EarningKey /\ reviewDelivery \in EarningKey
      /\ Delivery \subseteq Nat /\ EarningKey = Delivery \cup {0} /\ Original = 0
  BY LimitsAssumption DEF IInv, TypeOK, Delivery, EarningKey, Original
<1>s. \A d \in Delivery : d <= delivered => d <= delivered + 1
  BY <1>t
<1>1. CASE Accept \/ Reject \/ Cancel \/ Start \/ DeliverFirst \/ Complete \/ ReconcileExpiredReview
  <2>1. /\ UNCHANGED <<charge, activation, revision, answers>>
        /\ delivered' \in {delivered, delivered + 1}
    BY <1>1 DEF Accept, Reject, Cancel, Start, DeliverFirst, SubmitVersion, Complete,
                ReconcileExpiredReview, CompleteReviewedOrder, workVars, moneyVars
  <2> QED BY <1>s, <2>1 DEF PurchasesInOrder, Extra
<1>2. ASSUME NEW r \in OpenRevisions, DeliverRevision(r) PROVE PurchasesInOrder'
  <2>1. r \in Delivery \X RevisionType /\ r[1] \in Delivery /\ revision[r] = "OPEN"
    BY <1>t DEF OpenRevisions, Revisions
  <2>2. /\ UNCHANGED <<charge, activation>> /\ delivered' = delivered + 1
        /\ revision' = [revision EXCEPT ![r] = "RESOLVED"]
        /\ answers' = [answers EXCEPT ![delivered + 1] = IF r[2] = "PAID_EXTRA" THEN r[1] ELSE 0]
        /\ r[2] = "PAID_EXTRA" => activation[r[1]] = "ACTIVATED"
    BY <1>2 DEF DeliverRevision, RevisionDue, PurchaseStands, SubmitVersion, moneyVars
  <2>3. ASSUME NEW d \in Delivery
        PROVE  /\ revision'[Extra(d)] \in {revision[Extra(d)], "RESOLVED"}
               /\ answers'[d] # 0 => activation[answers'[d]] = "ACTIVATED"
    <3>1. Extra(d) \in Delivery \X RevisionType
      BY DEF Extra, RevisionType
    <3>2. revision'[Extra(d)] \in {revision[Extra(d)], "RESOLVED"}
      BY <1>t, <2>2, <3>1
    <3>3. answers'[d] = answers[d] \/ answers'[d] = 0 \/ (r[2] = "PAID_EXTRA" /\ answers'[d] = r[1])
      BY <1>t, <2>2
    <3> QED BY <2>2, <3>2, <3>3 DEF PurchasesInOrder
  <2> QED BY <1>s, <2>2, <2>3 DEF PurchasesInOrder, Extra
<1>3. ASSUME NEW d \in Delivery, NEW t \in {"INCLUDED", "PROVIDER_CORRECTION"}, NEW s \in RevisionStatus,
             revision' = [revision EXCEPT ![<<d, t>>] = s],
             UNCHANGED <<charge, activation, answers, delivered>>
      PROVE  PurchasesInOrder'
  <2>1. \A x \in Delivery : revision'[Extra(x)] = revision[Extra(x)]
    BY <1>t, <1>3 DEF Extra, RevisionType
  <2> QED BY <1>3, <2>1 DEF PurchasesInOrder, Extra
<1>4. CASE RequestRevision \/ RequestProviderCorrection
  <2>1. reviewDelivery \in Delivery
    BY <1>t, <1>4 DEF RequestRevision, RequestProviderCorrection, Claimable, ActionableReview,
                      ReviewIsCurrent
  <2> QED BY <1>3, <1>4, <2>1 DEF RequestRevision, RequestProviderCorrection, Included, Claim,
       RevisionStatus, moneyVars
<1>5. CASE DecideProviderCorrection
  BY <1>3, <1>5 DEF DecideProviderCorrection, AcceptProviderCorrection, DeclineProviderCorrection,
                    Claim, RevisionStatus, moneyVars
<1>6. ASSUME NEW k \in EarningKey, NEW c, charge' = [charge EXCEPT ![k] = c],
             charge[k] # "NONE" \/ k <= delivered,
             UNCHANGED <<activation, revision, answers, delivered>>
      PROVE  PurchasesInOrder'
  BY <1>t, <1>6 DEF PurchasesInOrder, Extra
<1>7. CASE CreateCheckout
  <2>1. charge' = [charge EXCEPT ![Original] = "REQUIRES_ACTION"] /\ Original \in EarningKey /\ Original <= delivered
    BY <1>t, <1>7 DEF CreateCheckout
  <2> QED BY <1>6, <1>7, <2>1 DEF CreateCheckout, workVars
<1>8. CASE CreateExtraRevisionCheckout
  <2>1. reviewDelivery \in EarningKey /\ reviewDelivery <= delivered
    BY <1>t, <1>8 DEF CreateExtraRevisionCheckout, ExtraPayable, ExtraRevisionAvailable, ReviewIsCurrent
  <2> QED BY <1>6, <1>8, <2>1 DEF CreateExtraRevisionCheckout, workVars
<1>9. CASE MarkPaid \/ \E k \in EarningKey : PaymentFailed(k)
  BY <1>6, <1>9, <1>t DEF MarkPaid, PaymentFailed, workVars
<1>10. ASSUME NEW d \in Delivery, NEW paidInTime \in BOOLEAN, MarkRevisionPaid(d, paidInTime)
       PROVE  PurchasesInOrder'
  <2>1. /\ charge[d] = "REQUIRES_ACTION" /\ charge' = [charge EXCEPT ![d] = "PAID"]
        /\ UNCHANGED <<answers, delivered>>
        /\ \E a \in {"ACTIVATED", "RECONCILIATION_REQUIRED"} : activation' = [activation EXCEPT ![d] = a]
        /\ revision' = revision \/ revision' = [revision EXCEPT ![Extra(d)] = "OPEN"]
    BY <1>10 DEF MarkRevisionPaid
  <2>2. activation[d] = "PENDING"
    BY <2>1 DEF IInv, MoneyInv, EarningsFollowPayments
  <2>3. ASSUME NEW x \in Delivery PROVE revision'[Extra(x)] \in {"NONE", "OPEN", "RESOLVED"}
    <3>1. Extra(x) \in Delivery \X RevisionType
      BY DEF Extra, RevisionType
    <3> QED BY <1>t, <2>1, <3>1 DEF PurchasesInOrder
  <2>4. ASSUME NEW x \in Delivery, answers[x] # 0 PROVE activation'[answers[x]] = "ACTIVATED"
    <3>1. activation[answers[x]] = "ACTIVATED" /\ answers[x] \in Delivery
      BY <1>t, <2>4 DEF PurchasesInOrder
    <3> QED BY <1>t, <2>1, <2>2, <3>1
  <2>5. ASSUME NEW x \in Delivery PROVE activation'[x] # "REFUNDED" /\ (charge'[x] # "NONE" => x <= delivered)
    BY <1>t, <2>1 DEF PurchasesInOrder
  <2> QED BY <2>1, <2>3, <2>4, <2>5 DEF PurchasesInOrder, Extra
<1>11. CASE DisputesNext \/ Tick \/ UNCHANGED vars
  <2>1. UNCHANGED <<charge, activation, revision, answers, delivered>>
    BY <1>11 DEF DisputesNext, OpenDispute, SubmitResponse, ReconcileExpiredResponse, RequestResponse,
                 MarkReady, BeginReview, Resolve, Tick, vars, rowVars, workVars, moneyVars
  <2> QED BY <2>1, PurchasesFrame
<1> QED
  BY <1>1, <1>2, <1>4, <1>5, <1>7, <1>8, <1>9, <1>10, <1>11
  DEF Next, OrdersNext, LedgerNext, Deliver

LEMMA InitOffersInv == ClockInit => OffersInv
<1> SUFFICES ASSUME ClockInit PROVE OffersInv
  OBVIOUS
<1>1. IInv
  BY InitIInv DEF ClockInit
<1>2. DisputesInOrder
  BY DEF ClockInit, Init, RowsInit, DisputesInOrder, NoDispute
<1>3. PurchasesInOrder
  BY DEF ClockInit, Init, RowsInit, PurchasesInOrder, EarningKey, Extra, RevisionType
<1> QED BY <1>1, <1>2, <1>3 DEF OffersInv

LEMMA OffersInvKept == OffersInv /\ [ClockNext]_clockVars => OffersInv'
<1> SUFFICES ASSUME OffersInv, [ClockNext]_clockVars PROVE OffersInv'
  OBVIOUS
<1>1. [Next]_vars
  BY DEF ClockNext, ReviewTick, Next, OrdersNext, clockVars
<1> QED
  BY <1>1, IInvKept, DisputesInOrderKept, PurchasesInOrderKept DEF OffersInv

\* Disputes and purchases come in their order.
THEOREM OffersInvariance == ClockSpec => []OffersInv
BY InitOffersInv, OffersInvKept, PTL DEF ClockSpec

LEMMA WithheldFromNobody == OffersInv => NothingWithheld
<1> SUFFICES ASSUME OffersInv, NEW op \in Op, Done(op)
             PROVE  Web(op) \/ (op = "extra" /\ LastBuyStale)
  BY DEF NothingWithheld
<1>t. TypeOK /\ AgreedFirst /\ DisputesInOrder
  BY DEF OffersInv, IInv
<1>1. CASE op \in {"accept", "reject", "decide"}
  BY <1>1 DEF Done, Web, OffersDecision, ClaimPending
<1>2. CASE op = "start"
  BY <1>2 DEF Done, Web, Startable, OffersStart, PaymentConfirmed, PaidInFull
<1>3. CASE op = "deliver"
  BY <1>3 DEF Done, Web, FirstDue, RevisionDue, CanDeliver, PaymentConfirmed, PaidInFull
<1>4. CASE op = "complete"
  BY <1>4 DEF Done, Web, Completable, Reviewing, PaymentConfirmed, PaidInFull
<1>5. CASE op = "revise"
  BY <1>5 DEF Done, Web, IncludedRevisionLeft, ActionableReview, OffersRevision, Reviewing,
              PaymentConfirmed, PaidInFull
<1>6. CASE op = "extra"
  <2>1. ExtraRevisionAvailable /\ status = "SUBMITTED" /\ revisionsUsed >= RevisionLimit
        /\ ~ActiveDispute /\ PaidInFull
    BY <1>6 DEF Done, ExtraPayable, ExtraRevisionAvailable
  <2>2. ~Disputed
    BY <1>t, <2>1, ActiveIsLatest
  <2> QED
    BY <1>6, <2>1, <2>2 DEF Web, OffersExtra, Reviewing, Quoted, ReviewActionable, PaymentConfirmed,
         PaidInFull
<1>7. CASE op = "claim"
  <2>1. ActionableReview(PendingRevisions)
    BY <1>7 DEF Done, Claimable
  <2>2. ~ClaimPending
    <3>1. \A d \in Delivery : Claim(d) \in DOMAIN revision
      BY <1>t DEF TypeOK, Claim, RevisionType
    <3> QED BY <2>1, <3>1 DEF ActionableReview, PendingRevisions, Revisions, ClaimPending
  <2> QED BY <1>7, <2>1, <2>2 DEF ActionableReview, Web, OffersClaim, Reviewing, PaymentConfirmed,
       PaidInFull
<1>8. CASE op = "pay"
  BY <1>8 DEF Done, OrderPayable, Web, OffersPayment, PaymentConfirmed
<1>9. CASE op = "report"
  <2>1. status \in DisputableStatuses /\ ~ActiveDispute
    BY <1>9 DEF Done, Disputable
  <2>2. ~Disputed
    BY <1>t, <2>1, ActiveIsLatest
  <2> QED BY <1>9, <2>1, <2>2 DEF Web, OffersReport
<1>10. CASE op = "respond"
  <2>1. PICK i \in DisputeId : Answerable(i)
    BY <1>10 DEF Done
  <2>2. IsActive(i) /\ dispute[i].status \in Waiting
    BY <2>1 DEF Answerable, IsActive, ActiveStatuses
  <2>3. Opened # {} /\ i = Max(Opened)
    BY <1>t, <2>2, ActiveIsLatest
  <2>4. status \in DisputableStatuses
    BY <1>t, <2>2 DEF AgreedFirst, IsActive, ActiveStatuses, Waiting
  <2>5. Answerer \in Parties
    BY <2>2, <2>3 DEF Answerer, Waiting, Parties
  <2> QED BY <1>10, <2>4, <2>5 DEF Web, OffersResponse
<1> QED BY <1>1, <1>2, <1>3, <1>4, <1>5, <1>6, <1>7, <1>8, <1>9, <1>10 DEF Op

\* Whoever may do something with the order finds it on the web: no state the services
\* reach waits for a button that is not shown.
THEOREM NothingIsWithheld == ClockSpec => []NothingWithheld
BY OffersInvariance, WithheldFromNobody, PTL

\* Without a dispute, and none won by the client, nothing is frozen.
LEMMA NothingFrozen ==
  ASSUME OffersInv, ~ActiveDispute, ~ClientWon
  PROVE  \A k \in EarningKey : earning[k] \in {"NONE", "PENDING", "AVAILABLE"}
<1>1. \A i \in DisputeId, k \in EarningKey : ~Holds(i, k)
  BY DEF Holds, ActiveDispute, IsActive, ClientWon
<1> QED BY <1>1 DEF OffersInv, IInv, HoldInv, FrozenWhileHeld, MoneyInv, NoMoneyLeaves

\* The work and the earnings are then in the state completion asks for.
LEMMA ReviewedIsCompletable ==
  ASSUME OffersInv, status = "SUBMITTED", ~ActiveDispute, ~ClientWon
  PROVE  Completable
<1>t. TypeOK /\ PurchasesInOrder /\ WorkInv /\ MoneyInv /\ HoldInv
  BY DEF OffersInv, IInv
<1>1. ReviewIsCurrent /\ OpenRevisions = {} /\ PaidInFull
  BY <1>t DEF WorkInv, ReviewFollowsWork, OneRevisionInHand, MoneyInv, WorkIsPaid
<1>2. \A k \in EarningKey : earning[k] \in {"NONE", "PENDING"}
  <2>1. \A k \in EarningKey : earning[k] # "AVAILABLE"
    BY <1>t DEF HoldInv, ReleasedByCompletion, Released
  <2> QED BY <2>1, NothingFrozen
<1>3. ASSUME NEW d \in ExtraEarnings
      PROVE  PurchaseStands(d) /\ revision[Extra(d)] = "RESOLVED" /\ earning[d] = "PENDING"
  <2>1. d \in Delivery /\ earning[d] # "NONE" /\ d \in EarningKey
    BY DEF ExtraEarnings, EarningKey
  <2>2. activation[d] = "ACTIVATED" /\ charge[d] = "PAID" /\ revision[Extra(d)] # "NONE"
    BY <1>t, <2>1 DEF MoneyInv, EarningsFollowPayments
  <2>3. revision[Extra(d)] # "OPEN"
    <3>1. Extra(d) \in DOMAIN revision
      BY <1>t, <2>1 DEF TypeOK, Extra, RevisionType
    <3> QED BY <1>1, <3>1 DEF OpenRevisions, Revisions
  <2> QED BY <1>t, <1>2, <2>1, <2>2, <2>3 DEF PurchasesInOrder, PurchaseStands
<1>4. earning[Original] = "PENDING"
  BY <1>t, <1>1, <1>2 DEF MoneyInv, EarningsFollowPayments, PaidInFull, EarningKey
<1> QED BY <1>1, <1>3, <1>4 DEF Completable, ExtraWorkDelivered, ReleasableEarnings

\* Whatever a new dispute is about can be frozen.
LEMMA TargetFreezable ==
  ASSUME OffersInv, ~ActiveDispute, ~ClientWon
  PROVE  Freezable(TargetPurchase)
<1>t. TypeOK /\ PurchasesInOrder /\ MoneyInv
  BY DEF OffersInv, IInv
<1>1. TargetPurchase \in EarningKey
  BY <1>t, DisputeTargetTyped
<1>2. TargetPurchase = Original \/ activation[TargetPurchase] = "ACTIVATED"
  <2>1. CASE status = "REVISION_REQUESTED" /\ PendingRevisions # {}
    <3> DEFINE r == CHOOSE x \in PendingRevisions : TRUE
    <3>1. r \in PendingRevisions
      BY <2>1
    <3>2. r \in Delivery \X RevisionType /\ revision[r] # "NONE"
      BY <1>t, <3>1 DEF PendingRevisions, Revisions, TypeOK
    <3>3. TargetPurchase = IF r[2] = "PAID_EXTRA" THEN r[1] ELSE Original
      BY <2>1 DEF TargetPurchase
    <3>4. r[2] = "PAID_EXTRA" => r = Extra(r[1]) /\ r[1] \in Delivery
      BY <3>2 DEF Extra
    <3> HIDE DEF r
    <3> QED BY <1>t, <3>2, <3>3, <3>4 DEF MoneyInv, EarningsFollowPayments
  <2>2. CASE ~(status = "REVISION_REQUESTED" /\ PendingRevisions # {})
    <3> DEFINE d == IF reviewDelivery # 0 THEN reviewDelivery ELSE delivered
    <3>1. TargetPurchase = IF d = 0 THEN Original ELSE answers[d]
      BY <2>2 DEF TargetPurchase
    <3>2. d # 0 => d \in Delivery
      BY <1>t DEF TypeOK, EarningKey, Original
    <3> HIDE DEF d
    <3> QED BY <1>t, <3>1, <3>2 DEF PurchasesInOrder, Original
  <2> QED BY <2>1, <2>2
<1>3. earning[TargetPurchase] = "NONE" => TargetPurchase = Original
  BY <1>t, <1>1, <1>2 DEF MoneyInv, EarningsFollowPayments, EarningKey
<1>4. earning[TargetPurchase] \in {"NONE", "PENDING", "AVAILABLE"}
  BY <1>1, NothingFrozen
<1> QED BY <1>3, <1>4 DEF Freezable

LEMMA OffersAreGood == OffersInv => OffersStand
<1> SUFFICES ASSUME OffersInv, NEW op \in Op, Web(op) \/ Phone(op), Free(op) PROVE Done(op)
  BY DEF OffersStand
<1>t. TypeOK /\ AgreedFirst /\ WorkInv /\ MoneyInv /\ DisputesInOrder /\ PurchasesInOrder
  BY DEF OffersInv, IInv
<1>1. CASE op \in {"accept", "reject", "decide", "start"}
  BY <1>1 DEF Done, Web, Phone, OffersDecision, ClaimPending, OffersStart, Startable, PaymentConfirmed, PaidInFull
<1>2. CASE op = "deliver"
  <2>1. CanDeliver /\ ~ActiveDispute /\ delivered < MaxDeliveries /\ PaidInFull
    BY <1>2 DEF Web, Phone, Free, CanDeliver, PaymentConfirmed, PaidInFull
  <2>2. CASE status = "REVISION_REQUESTED"
    <3>1. PICK t \in RevisionType : delivered # 0 /\ OpenRevisions = {<<delivered, t>>}
      BY <1>t, <2>2 DEF WorkInv, OneRevisionInHand
    <3>2. delivered \in Delivery /\ revision[<<delivered, t>>] = "OPEN"
      <4>1. delivered \in Delivery
        BY <1>t, <3>1 DEF TypeOK, EarningKey, Original
      <4> QED BY <3>1, <4>1 DEF OpenRevisions, Revisions
    <3>3. t = "PAID_EXTRA" => PurchaseStands(delivered)
      BY <1>t, <3>2 DEF MoneyInv, EarningsFollowPayments, PurchaseStands, Extra
    <3>4. RevisionDue(<<delivered, t>>)
      BY <2>1, <2>2, <3>1, <3>3 DEF RevisionDue, TheOpenRevision
    <3> QED BY <1>2, <2>1, <3>1, <3>4 DEF Done
  <2> QED BY <1>2, <2>1, <2>2 DEF CanDeliver, Done, FirstDue
<1>3. CASE op = "complete"
  <2>1. status = "SUBMITTED" /\ ~ActiveDispute /\ ~ClientWon
    BY <1>3 DEF Web, Phone, Free, Reviewing, PhoneReviewing
  <2> QED BY <1>3, <2>1, ReviewedIsCompletable DEF Done
<1>4. ASSUME status = "SUBMITTED", ReviewOpen PROVE ActionableReview(PendingRevisions)
  BY <1>4, <1>t DEF ReviewOpen, ActionableReview, WorkInv, ReviewFollowsWork, MoneyInv, WorkIsPaid
<1>5. CASE op = "revise"
  BY <1>4, <1>5 DEF Web, Phone, Free, OffersRevision, Reviewing, PhoneReviewing, Done,
                    IncludedRevisionLeft
<1>6. CASE op = "claim"
  BY <1>4, <1>6 DEF Web, Phone, Free, OffersClaim, Reviewing, Done, Claimable
<1>7. CASE op = "extra"
  <2>1. ExtraRevisionAvailable /\ ~LastBuyStale /\ charge[reviewDelivery] # "REQUIRES_ACTION"
    BY <1>7 DEF Web, Phone, Free, OffersExtra, Quoted
  <2>2. reviewDelivery = delivered /\ delivered \in Delivery /\ status = "SUBMITTED"
    BY <1>t, <2>1 DEF ExtraRevisionAvailable, ReviewIsCurrent, TypeOK, EarningKey, Original
  <2>3. charge[delivered] # "PAID"
    <3>1. SUFFICES ASSUME charge[delivered] = "PAID" PROVE FALSE
      OBVIOUS
    <3>2. delivered \in Bought /\ \A d \in Bought : d <= delivered
      BY <1>t, <2>2, <3>1 DEF Bought, PurchasesInOrder
    <3>3. Max(Bought) = delivered
      <4>1. Bought \in SUBSET (1 .. MaxDeliveries) /\ Bought # {} /\ MaxDeliveries \in Nat
        BY <3>2, LimitsAssumption DEF Bought, Delivery
      <4>2. Max(Bought) \in Bought /\ \A d \in Bought : d <= Max(Bought)
        BY <4>1, Largest
      <4>3. \A n \in Bought : n \in Nat
        BY <4>1
      <4>4. delivered <= Max(Bought) /\ Max(Bought) <= delivered
        BY <3>2, <4>2, Zenon
      <4>5. delivered \in Nat /\ Max(Bought) \in Nat
        BY <3>2, <4>2, <4>3, Zenon
      <4> QED BY <4>4, <4>5
    <3>4. activation[delivered] # "RECONCILIATION_REQUIRED"
      BY <2>1, <3>2, <3>3 DEF LastBuyStale
    <3>5. activation[delivered] \notin {"PENDING", "REFUNDED"}
      BY <1>t, <2>2, <3>1 DEF MoneyInv, EarningsFollowPayments, PurchasesInOrder
    <3>6. activation[delivered] = "ACTIVATED"
      BY <1>t, <2>2, <3>4, <3>5 DEF TypeOK, ActivationStatus
    <3> QED BY <1>t, <2>2, <3>6 DEF MoneyInv, EarningsFollowPayments, WorkInv, FreshDeliveries
  <2>4. charge[delivered] \in {"NONE", "FAILED"}
    BY <1>t, <2>1, <2>2, <2>3 DEF MoneyInv, NoMoneyLeaves, EarningKey
  <2> QED BY <1>7, <2>1, <2>2, <2>4 DEF Done, ExtraPayable
<1>8. CASE op = "pay"
  <2>1. status \in PayableStatuses /\ charge[Original] \notin {"PAID", "REQUIRES_ACTION"}
    BY <1>8 DEF Web, Phone, Free, OffersPayment, PhonePayment, PaymentConfirmed, PayableStatuses
  <2>2. charge[Original] \in {"NONE", "FAILED"}
    BY <1>t, <2>1 DEF MoneyInv, NoMoneyLeaves, EarningKey
  <2> QED BY <1>8, <2>1, <2>2 DEF Done, OrderPayable
<1>9. CASE op = "report"
  <2>1. status \in DisputableStatuses /\ ~Disputed /\ ~ClientWon /\ Cardinality(Opened) < MaxDisputes
    BY <1>9 DEF Web, Phone, Free, OffersReport, PhoneReport, Disputed
  <2>2. ~ActiveDispute
    BY <1>t, <2>1, ActiveIsLatest
  <2>3. Freezable(TargetPurchase)
    BY <2>1, <2>2, TargetFreezable
  <2>4. PICK i \in DisputeId : /\ dispute[i].status = "NONE"
                               /\ \A j \in DisputeId : j < i => dispute[j].status # "NONE"
    BY <2>1, NextDispute
  <2>5. Disputable(i, TRUE)
    BY <2>1, <2>2, <2>3, <2>4 DEF Disputable
  <2> QED BY <1>9, <2>5 DEF Done
<1>10. CASE op = "respond"
  <2>1. Answerer \in Parties /\ dispute[Max(Opened)].left > 0
    BY <1>10 DEF Web, Phone, Free, OffersResponse
  <2>2. Opened # {} /\ dispute[Max(Opened)].status \in Waiting
    BY <2>1 DEF Answerer, Parties, Waiting
  <2>3. Max(Opened) \in DisputeId
    BY <1>t, <2>2, ActiveIsLatest
  <2> QED BY <1>10, <2>1, <2>2, <2>3 DEF Done, Answerable
<1> QED BY <1>1, <1>2, <1>3, <1>5, <1>6, <1>7, <1>8, <1>9, <1>10 DEF Op

\* No button of the web client or of the phone can only fail: in every state the
\* services reach they do what is offered, unless what the screens do not look at
\* stands in the way.
THEOREM OffersCanBeTaken == ClockSpec => []OffersStand
BY OffersInvariance, OffersAreGood, PTL
=============================================================================
