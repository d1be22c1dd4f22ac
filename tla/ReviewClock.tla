---------------------------- MODULE ReviewClock ----------------------------
(***************************************************************************)
(* The order life cycle with a history variable: how long the client has   *)
(* had the latest delivery in hand without a dispute standing in the way.  *)
(***************************************************************************)
EXTENDS OrderLifecycle

VARIABLE reviewed

clockVars == <<vars, reviewed>>

\* A tick the client can use to review the work.
ReviewTick == status = "SUBMITTED" /\ ~ActiveDispute /\ Tick

ClockInit == Init /\ reviewed = 0

ClockNext ==
  \/ ReviewTick /\ reviewed' = IF reviewed < ReviewWindow THEN reviewed + 1 ELSE reviewed
  \/ Deliver /\ reviewed' = 0
  \/ Next /\ ~ReviewTick /\ ~Deliver /\ UNCHANGED reviewed

\* Time and the poll go on as in OrderLifecycle.
ClockSpec ==
  /\ ClockInit /\ [][ClockNext]_clockVars
  /\ WF_vars(Tick) /\ WF_vars(ReconcileExpiredReview)

ClockTypeOK == TypeOK /\ reviewed \in 0 .. ReviewWindow

\* An order completed by the timeout left its client the whole review window,
\* however often and however late a dispute interrupted it.
TimeoutAfterFullReview ==
  completionSource = "AUTO_REVIEW_TIMEOUT" => reviewed = ReviewWindow

\* The same while it runs: what has been used and what is left make up the
\* window, unless the client has won the dispute about this delivery.
WindowAccountedFor ==
  status = "SUBMITTED" =>
    \/ reviewed + reviewLeft >= ReviewWindow
    \/ \E i \in DisputeId : IsActive(i) /\ reviewed + dispute[i].remaining >= ReviewWindow
    \/ \E i \in DisputeId : dispute[i].status = "RESOLVED_CLIENT"

-----------------------------------------------------------------------------
\* What makes the two inductive.

\* A dispute that is active during a review was opened during that review, about the
\* delivery under review, and froze what was paid for it.
DisputeInterruptsReview ==
  status = "SUBMITTED" =>
    \A i \in DisputeId : IsActive(i) =>
      /\ dispute[i].paused /\ dispute[i].targetDelivery = reviewDelivery
      /\ dispute[i].preFreeze # "NONE"

\* The client has won a dispute and an earning stays frozen: nothing completes the
\* order any more.
ClientHolds ==
  \E i \in DisputeId : dispute[i].status = "RESOLVED_CLIENT" /\ dispute[i].preFreeze # "NONE"

\* Until then the window is accounted for by the clock of the review, or by what the
\* one active dispute will give back.
NothingLost ==
  status = "SUBMITTED" /\ ~ClientHolds =>
    /\ ~ActiveDispute => reviewed + reviewLeft >= ReviewWindow
    /\ \A i \in DisputeId : IsActive(i) => reviewed + dispute[i].remaining >= ReviewWindow

SourceOfCompletion == completionSource # "NONE" => status = "COMPLETED"

ReviewInv == DisputeInterruptsReview /\ NothingLost /\ SourceOfCompletion /\ TimeoutAfterFullReview

ClockInv == ClockTypeOK /\ IInv /\ ReviewInv
=============================================================================
