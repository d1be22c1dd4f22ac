------------------------------ MODULE Disputes ------------------------------
(***************************************************************************)
(* DisputesService: a dispute freezes the earning it is about and pauses   *)
(* the review, a response window runs beside it, and its resolution        *)
(* restores or keeps the freeze.                                           *)
(***************************************************************************)
EXTENDS OrderRecords

DisputableStatuses == {"ACCEPTED", "IN_PROGRESS", "SUBMITTED", "REVISION_REQUESTED", "COMPLETED"}

Parties == {"CLIENT", "PROVIDER"}
WaitingFor(party) == IF party = "CLIENT" THEN "WAITING_FOR_CLIENT" ELSE "WAITING_FOR_PROVIDER"

\* The delivery a dispute is about: the one an open revision came from, else the
\* one under review, else the latest.
TargetDelivery ==
  IF status = "REVISION_REQUESTED" /\ PendingRevisions # {}
  THEN (CHOOSE r \in PendingRevisions : TRUE)[1]
  ELSE IF reviewDelivery # 0 THEN reviewDelivery ELSE delivered

\* The purchase a dispute is about: the open paid revision, or the paid revision
\* that the delivery under review answered.
TargetPurchase ==
  IF status = "REVISION_REQUESTED" /\ PendingRevisions # {}
  THEN LET r == CHOOSE r \in PendingRevisions : TRUE
       IN  IF r[2] = "PAID_EXTRA" THEN r[1] ELSE Original
  ELSE LET d == IF reviewDelivery # 0 THEN reviewDelivery ELSE delivered
       IN  IF d = 0 THEN Original ELSE answers[d]

\* An earning that exists must be free to freeze, and a purchase must have one.
Freezable(k) ==
  \/ earning[k] \in {"PENDING", "AVAILABLE"}
  \/ k = Original /\ earning[k] = "NONE"

\* escalation: the reason is PAYMENT_ISSUE or CONDUCT.
Disputable(i, escalation) ==
  /\ dispute[i].status = "NONE"
  /\ \A j \in DisputeId : j < i => dispute[j].status # "NONE"
  /\ status \in DisputableStatuses
  /\ ~ActiveDispute
  /\ status = "COMPLETED" /\ completionSource = "CLIENT_ACCEPTED" => escalation
  /\ Freezable(TargetPurchase)

OpenDispute(i, by, escalation) ==
  LET k == TargetPurchase
      reviewing == status = "SUBMITTED" /\ reviewDelivery # 0
  IN
  /\ Disputable(i, escalation)
  /\ dispute' = [dispute EXCEPT ![i] =
       [status |-> WaitingFor(CHOOSE p \in Parties : p # by),
        left |-> ResponseWindow,
        target |-> k,
        targetDelivery |-> TargetDelivery,
        preFreeze |-> earning[k],
        paused |-> reviewing,
        remaining |-> IF reviewing THEN reviewLeft ELSE 0]]
  /\ earning' = [earning EXCEPT ![k] = IF @ = "NONE" THEN @ ELSE "FROZEN"]
  /\ UNCHANGED <<orderVars, reviewVars, workVars, charge, activation>>

-----------------------------------------------------------------------------
SetStatus(i, s) == dispute' = [dispute EXCEPT ![i].status = s]

\* submitResponse: refused once the deadline has passed.
Answerable(i) == dispute[i].status \in Waiting /\ dispute[i].left > 0

SubmitResponse(i) ==
  /\ Answerable(i)
  /\ SetStatus(i, "READY_FOR_REVIEW")
  /\ UNCHANGED <<orderVars, reviewVars, workVars, moneyVars>>

ReconcileExpiredResponse(i) ==
  /\ dispute[i].status \in Waiting
  /\ dispute[i].left = 0
  /\ SetStatus(i, "READY_FOR_REVIEW")
  /\ UNCHANGED <<orderVars, reviewVars, workVars, moneyVars>>

\* An administrator may ask again at any time, even during the review.
RequestResponse(i, party) ==
  /\ IsActive(i)
  /\ dispute' = [dispute EXCEPT ![i].status = WaitingFor(party), ![i].left = ResponseWindow]
  /\ UNCHANGED <<orderVars, reviewVars, workVars, moneyVars>>

MarkReady(i) ==
  /\ IsActive(i) /\ dispute[i].status # "UNDER_REVIEW"
  /\ SetStatus(i, "READY_FOR_REVIEW")
  /\ UNCHANGED <<orderVars, reviewVars, workVars, moneyVars>>

\* beginReview first lets an expired response window close.
BeginReview(i) ==
  /\ \/ dispute[i].status = "READY_FOR_REVIEW"
     \/ dispute[i].status \in Waiting /\ dispute[i].left = 0
  /\ SetStatus(i, "UNDER_REVIEW")
  /\ UNCHANGED <<orderVars, reviewVars, workVars, moneyVars>>

-----------------------------------------------------------------------------
\* Give the earning back the status it was frozen in.
RestoreEarning(i) ==
  LET k == dispute[i].target IN
  IF dispute[i].preFreeze = "NONE"
  THEN UNCHANGED earning
  ELSE /\ earning[k] = "FROZEN"
       /\ earning' = [earning EXCEPT ![k] = dispute[i].preFreeze]

\* Slip: the review time is never given back.
LeaveReview(i) == UNCHANGED reviewLeft

\* The client gets back the review time the dispute took.
ResumeReview(i) ==
  IF /\ dispute[i].paused
     /\ status = "SUBMITTED"
     /\ reviewDelivery = dispute[i].targetDelivery
  THEN reviewLeft' = dispute[i].remaining
  ELSE UNCHANGED reviewLeft

Resolve(i, decision) ==
  /\ IsActive(i)
  /\ decision # "CLOSED" => dispute[i].status = "UNDER_REVIEW"
  /\ IF decision \in Restoring
     THEN RestoreEarning(i) /\ ResumeReview(i)
     ELSE UNCHANGED <<earning, reviewLeft>>
  /\ SetStatus(i, decision)
  /\ UNCHANGED <<orderVars, reviewDelivery, workVars, charge, activation>>

DisputesNext ==
  \E i \in DisputeId :
    \/ \E by \in Parties, escalation \in BOOLEAN : OpenDispute(i, by, escalation)
    \/ SubmitResponse(i) \/ ReconcileExpiredResponse(i)
    \/ \E party \in Parties : RequestResponse(i, party)
    \/ MarkReady(i) \/ BeginReview(i)
    \/ \E decision \in FinalStatuses : Resolve(i, decision)
=============================================================================
