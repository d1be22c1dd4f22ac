--------------------------- MODULE LaravelDisputes ---------------------------
(***************************************************************************)
(* DisputeService of the Laravel backend.                                  *)
(***************************************************************************)
EXTENDS LaravelOrders

DisputableStatuses == {"ACCEPTED", "IN_PROGRESS", "SUBMITTED", "REVISION_REQUESTED", "COMPLETED"}
Parties            == {"CLIENT", "PROVIDER"}

WaitingFor(party) == IF party = "CLIENT" THEN "WAITING_FOR_CLIENT" ELSE "WAITING_FOR_PROVIDER"

\* The delivery a dispute is about: the one a revision sends back, the one under
\* review, or the latest.
TargetDelivery ==
  IF status = "REVISION_REQUESTED" /\ PendingRevisions # {}
  THEN (CHOOSE r \in PendingRevisions : TRUE)[1]
  ELSE IF reviewDelivery # 0 THEN reviewDelivery ELSE delivered

\* The purchase of the latest revision of that delivery: not of the revision that
\* the delivery answers.
TargetPurchase ==
  LET d == TargetDelivery IN IF d # 0 /\ revision[Extra(d)] # "NONE" THEN d ELSE Original

Freezable(k) == earning[k] \in {"PENDING", "AVAILABLE"} \/ (k = Original /\ earning[k] = "NONE")

OpenDispute(i, by, escalation) ==
  LET k == TargetPurchase
      reviewing == status = "SUBMITTED" /\ reviewDelivery # 0 IN
  /\ dispute[i].status = "NONE" /\ \A j \in DisputeId : j < i => dispute[j].status # "NONE"
  /\ status \in DisputableStatuses /\ ~ActiveDispute
  /\ status = "COMPLETED" /\ completionSource = "CLIENT_ACCEPTED" => escalation
  /\ Freezable(k)
  /\ dispute' = [dispute EXCEPT ![i] =
       [status |-> WaitingFor(CHOOSE p \in Parties : p # by), left |-> ResponseWindow,
        target |-> k, targetDelivery |-> TargetDelivery, preFreeze |-> earning[k],
        paused |-> reviewing, remaining |-> IF reviewing THEN reviewLeft ELSE 0]]
  /\ earning' = [earning EXCEPT ![k] = IF @ = "NONE" THEN @ ELSE "FROZEN"]
  /\ UNCHANGED <<orderVars, reviewVars, workVars, charge, activation, refundVars, starting>>

-----------------------------------------------------------------------------
SetDispute(i, row) ==
  /\ dispute' = [dispute EXCEPT ![i] = row]
  /\ UNCHANGED <<orderVars, reviewVars, workVars, moneyVars, refundVars, starting>>

Ready(i) == [dispute[i] EXCEPT !.status = "READY_FOR_REVIEW"]

SubmitResponse(i) ==
  dispute[i].status \in Waiting /\ dispute[i].left > 0 /\ SetDispute(i, Ready(i))

\* By the schedule, and before most reads of a dispute.
ReconcileExpiredResponse(i) ==
  dispute[i].status \in Waiting /\ dispute[i].left = 0 /\ SetDispute(i, Ready(i))

RequestResponse(i, party) ==
  /\ IsActive(i)
  /\ SetDispute(i, [dispute[i] EXCEPT !.status = WaitingFor(party), !.left = ResponseWindow])

MarkReady(i) == IsActive(i) /\ dispute[i].status # "UNDER_REVIEW" /\ SetDispute(i, Ready(i))

\* beginReview first moves an expired response window on.
BeginReview(i) ==
  /\ \/ dispute[i].status = "READY_FOR_REVIEW"
     \/ dispute[i].status \in Waiting /\ dispute[i].left = 0
  /\ SetDispute(i, [dispute[i] EXCEPT !.status = "UNDER_REVIEW"])

-----------------------------------------------------------------------------
\* Slip: what the dispute froze is given back whatever has become of it.
GiveBack(i) ==
  earning' = IF dispute[i].preFreeze = "NONE" THEN earning
             ELSE [earning EXCEPT ![dispute[i].target] = dispute[i].preFreeze]

\* The earning is given back as it was, and only while it is still frozen.
RestoreEarning(i) ==
  \/ dispute[i].preFreeze = "NONE" /\ UNCHANGED earning
  \/ /\ dispute[i].preFreeze # "NONE" /\ earning[dispute[i].target] = "FROZEN"
     /\ earning' = [earning EXCEPT ![dispute[i].target] = dispute[i].preFreeze]

ResumeReview(i) ==
  reviewLeft' = IF /\ dispute[i].paused /\ status = "SUBMITTED"
                   /\ reviewDelivery = dispute[i].targetDelivery
                THEN dispute[i].remaining ELSE reviewLeft

Resolve(i, decision) ==
  /\ IsActive(i)
  /\ decision # "CLOSED" => dispute[i].status = "UNDER_REVIEW"
  /\ IF decision \in Restoring THEN RestoreEarning(i) /\ ResumeReview(i)
     ELSE UNCHANGED <<earning, reviewLeft>>
  /\ dispute' = [dispute EXCEPT ![i].status = decision]
  /\ UNCHANGED <<orderVars, reviewDelivery, workVars, charge, activation, refundVars, starting>>

LaravelDisputesNext ==
  \E i \in DisputeId :
    \/ \E by \in Parties, escalation \in BOOLEAN : OpenDispute(i, by, escalation)
    \/ SubmitResponse(i) \/ ReconcileExpiredResponse(i) \/ MarkReady(i) \/ BeginReview(i)
    \/ \E party \in Parties : RequestResponse(i, party)
    \/ \E decision \in FinalStatuses : Resolve(i, decision)
=============================================================================
