-------------------------- MODULE RefundSubmission --------------------------
(***************************************************************************)
(* One full refund, step by step: concurrent requests of RefundsService,   *)
(* the refund PayMongo keeps (external), its webhooks, which come late,    *)
(* repeated and out of order, an administrator who asks PayMongo himself,  *)
(* and a dispute that freezes the same earning.  Each database transaction *)
(* and each HTTP call is a step of its own, and the server may stop        *)
(* between any two.                                                        *)
(*                                                                         *)
(* The module follows the refund of one payment for one reason: such a     *)
(* refund has one row for good (its sourceKey is unique).  What PayMongo   *)
(* reports agrees with the row in payment, amount and currency.  At most   *)
(* one dispute freezes the earning; payouts are left out.                  *)
(***************************************************************************)

CONSTANTS
  Calls,      \* requests for the refund that can be in progress together
  Handlers,   \* webhook requests that can be in progress together
  MayDispute, \* bound: whether a dispute freezes the earning
  Decided     \* whether a dispute that froze nothing was decided for the client

VARIABLES
  status,     \* PaymentRefund.status, "NONE" before the row exists
  origin,     \* PaymentRefund.requestOrigin
  known,      \* providerRefundId is stored
  charge,     \* Payment.status or OrderRevisionPurchase.paymentStatus
  earning,    \* ProviderEarning.status
  before,     \* PaymentRefund.preRefundEarningStatus
  unfrozen,   \* the ledger has the entry failed-unfreeze of this refund
  dispute,    \* the dispute that freezes this earning
  held,       \* its preFreezeStatus of the earning
  step,       \* where each request stands
  answer,     \* what PayMongo answered it
  refund,     \* PayMongo's side of the refund
  said,       \* every status it has had there
  handling,   \* the report each webhook request works on, and how far it is
  processed,  \* reports whose PaymentWebhookEvent has processedAt
  asked       \* what PayMongo told the administrator who reconciles

rowVars   == <<status, known>>
moneyVars == <<charge, earning, unfrozen>>
fixVars   == <<origin, before>>
callVars  == <<step, answer>>
proVars   == <<refund, said>>
hookVars  == <<handling, processed>>
caseVars  == <<dispute, held>>
vars == <<rowVars, moneyVars, fixVars, callVars, proVars, hookVars, asked, caseVars>>

ProviderStatus == {"pending", "processing", "succeeded", "failed"}
RefundStatus   == {"NONE", "REQUESTED", "PENDING", "PROCESSING", "SUCCEEDED",
                   "FAILED", "RECONCILIATION_REQUIRED"}
Origin == {"CLIENT", "ADMIN"}
Report == ProviderStatus \cup {"none"}
Idle   == <<"none", "idle">>

TypeOK ==
  /\ status \in RefundStatus /\ known \in BOOLEAN
  /\ origin \in Origin \cup {"NONE"}
  /\ charge \in {"PAID", "REFUND_PENDING", "REFUNDED"}
  /\ earning \in {"PENDING", "AVAILABLE", "FROZEN", "REFUNDED"}
  /\ before \in {"NONE", "PENDING", "AVAILABLE", "FROZEN"}
  /\ unfrozen \in BOOLEAN
  /\ step \in [Calls -> {"idle", "prepared", "calling", "answered", "rejected", "unsure"}]
  /\ answer \in [Calls -> Report]
  /\ refund \in Report /\ said \subseteq ProviderStatus
  /\ handling \in [Handlers -> Report \X {"idle", "received", "matched", "applied"}]
  /\ processed \subseteq ProviderStatus
  /\ asked \in Report
  /\ dispute \in {"none", "active", "client", "provider"}
  /\ held \in {"NONE", "PENDING", "AVAILABLE"}

\* A paid order or extra revision, before or after its completion, or an extra
\* revision paid too late, whose earning is created frozen.
Init ==
  /\ status = "NONE" /\ origin = "NONE" /\ known = FALSE
  /\ charge = "PAID" /\ earning \in {"PENDING", "AVAILABLE", "FROZEN"}
  /\ before = "NONE" /\ unfrozen = FALSE
  /\ step = [c \in Calls |-> "idle"] /\ answer = [c \in Calls |-> "none"]
  /\ refund = "none" /\ said = {}
  /\ handling = [h \in Handlers |-> Idle] /\ processed = {}
  /\ asked = "none"
  /\ dispute = "none" /\ held = "NONE"

-----------------------------------------------------------------------------
Goto(c, s) == step' = [step EXCEPT ![c] = s]
Return(c)  == Goto(c, "idle") /\ answer' = [answer EXCEPT ![c] = "none"]

\* The order is completed, and a refund needs a dispute decided for the client.
Completed == "AVAILABLE" \in {earning, held}

\* prepareRefund takes the money out of reach and, for a client, cancels the order.
Prepare(c, by) ==
  /\ step[c] = "idle" /\ status = "NONE"
  /\ Completed => by = "ADMIN" /\ (Decided \/ dispute = "client")
  /\ charge = "PAID"
  /\ status' = "REQUESTED" /\ origin' = by
  /\ charge' = "REFUND_PENDING" /\ earning' = "FROZEN" /\ before' = earning
  /\ Goto(c, "prepared")
  /\ UNCHANGED <<known, unfrozen, answer, proVars, hookVars, asked, caseVars>>

\* The same request again finds the row; a client's does not get so far, because
\* the order it looks at is cancelled.
RequestAgain(c) ==
  /\ step[c] = "idle" /\ status # "NONE"
  /\ origin = "ADMIN"
  /\ Goto(c, "prepared")
  /\ UNCHANGED <<answer, rowVars, moneyVars, fixVars, proVars, hookVars, asked, caseVars>>

\* submitPreparedRefund: one request gets to submit.
Claim(c) ==
  /\ step[c] = "prepared"
  /\ IF status = "REQUESTED"
     THEN status' = "PROCESSING" /\ Goto(c, "calling")
     ELSE Goto(c, "idle") /\ UNCHANGED status
  /\ UNCHANGED <<known, answer, moneyVars, fixVars, proVars, hookVars, asked, caseVars>>

Answered(c, s) == Goto(c, "answered") /\ answer' = [answer EXCEPT ![c] = s]
Opened(s)      == refund' = s /\ said' = said \cup {s}

\* createRefund: answered, refused, or not heard of, with or without a refund.
CallPaymongo(c) ==
  /\ step[c] = "calling"
  /\ \/ \E s \in ProviderStatus : Opened(s) /\ Answered(c, s)
     \/ Goto(c, "rejected") /\ UNCHANGED <<answer, proVars>>
     \/ Goto(c, "unsure") /\ UNCHANGED <<answer, proVars>>
     \/ \E s \in ProviderStatus : Opened(s) /\ Goto(c, "unsure") /\ UNCHANGED answer
  /\ UNCHANGED <<rowVars, moneyVars, fixVars, hookVars, asked, caseVars>>

-----------------------------------------------------------------------------
LocalStatus(s) ==
  IF s = "succeeded" THEN "SUCCEEDED"
  ELSE IF s = "failed" THEN "FAILED"
  ELSE IF s = "processing" THEN "PROCESSING" ELSE "PENDING"

\* Slip: a refund that failed thaws its earning even when a dispute froze it.
ThawAlways ==
  /\ charge' = "PAID" /\ unfrozen' = TRUE
  /\ earning' = IF before = "FROZEN" THEN "PENDING" ELSE before

\* What a failed refund gives back: the charge and, unless a dispute holds it, the
\* earning, with a ledger entry that can be made once.
GiveBack ==
  /\ charge' = "PAID"
  /\ IF before = "FROZEN"
     THEN UNCHANGED <<earning, unfrozen>>
     ELSE ~unfrozen /\ earning' = before /\ unfrozen' = TRUE

\* The transaction of applyProviderRefund, when it commits.
Commit(s) ==
  IF status \in {"SUCCEEDED", "FAILED"}
  THEN LocalStatus(s) = status /\ UNCHANGED <<rowVars, moneyVars>>
  ELSE /\ status' = LocalStatus(s) /\ known' = TRUE
       /\ \/ s = "succeeded" /\ charge' = "REFUNDED" /\ earning' = "REFUNDED" /\ UNCHANGED unfrozen
          \/ s = "failed" /\ GiveBack
          \/ s \in {"pending", "processing"} /\ UNCHANGED moneyVars

\* Whether it can: a final status may only be repeated, and the ledger entry must
\* not exist.
Throws(s) ==
  IF status \in {"SUCCEEDED", "FAILED"}
  THEN LocalStatus(s) # status
  ELSE s = "failed" /\ before # "FROZEN" /\ unfrozen

\* The answer is applied, or the attempt throws and counts as unsure.
ApplyAnswer(c) ==
  /\ step[c] = "answered"
  /\ \/ ~Throws(answer[c]) /\ Commit(answer[c]) /\ Return(c)
     \/ Goto(c, "unsure") /\ UNCHANGED <<answer, rowVars, moneyVars>>
  /\ UNCHANGED <<fixVars, proVars, hookVars, asked, caseVars>>

\* The database refuses to take a succeeded refund back
\* (PaymentRefund_phase_i_shape): its reversal evidence is filled in.
StatusAdmits(s) == status # "SUCCEEDED"

MarkRejected(c) ==
  /\ step[c] = "rejected"
  /\ IF StatusAdmits("FAILED") /\ (before = "FROZEN" \/ ~unfrozen)
     THEN status' = "FAILED" /\ GiveBack
     ELSE UNCHANGED <<status, moneyVars>>
  /\ Return(c)
  /\ UNCHANGED <<known, fixVars, proVars, hookVars, asked, caseVars>>

\* Slip: no answer is taken for a refusal.
GiveUp(c) ==
  /\ step[c] = "unsure"
  /\ IF StatusAdmits("FAILED") /\ (before = "FROZEN" \/ ~unfrozen)
     THEN status' = "FAILED" /\ GiveBack
     ELSE UNCHANGED <<status, moneyVars>>
  /\ Return(c)
  /\ UNCHANGED <<known, fixVars, proVars, hookVars, asked, caseVars>>

MarkUnsure(c) ==
  /\ step[c] = "unsure"
  /\ status' = IF StatusAdmits("RECONCILIATION_REQUIRED") THEN "RECONCILIATION_REQUIRED" ELSE status
  /\ Return(c)
  /\ UNCHANGED <<known, moneyVars, fixVars, proVars, hookVars, asked, caseVars>>

CrashCall(c) ==
  /\ step[c] # "idle"
  /\ Return(c)
  /\ UNCHANGED <<rowVars, moneyVars, fixVars, proVars, hookVars, asked, caseVars>>

-----------------------------------------------------------------------------
\* The refund moves on at PayMongo.
Progress ==
  /\ refund \in {"pending", "processing"}
  /\ \E s \in {"processing", "succeeded", "failed"} : s # refund /\ Opened(s)
  /\ UNCHANGED <<rowVars, moneyVars, fixVars, callVars, hookVars, asked, caseVars>>

\* An order whose charge stands and that is not cancelled may be completed and
\* release its earning.
Release ==
  /\ charge = "PAID" /\ earning = "PENDING" /\ origin # "CLIENT"
  /\ earning' = "AVAILABLE"
  /\ UNCHANGED <<rowVars, charge, unfrozen, fixVars, callVars, proVars, hookVars, asked, caseVars>>

\* create: a dispute freezes an earning that has not moved on.
OpenDispute ==
  /\ MayDispute /\ dispute = "none" /\ origin # "CLIENT"
  /\ earning \in {"PENDING", "AVAILABLE"}
  /\ dispute' = "active" /\ held' = earning /\ earning' = "FROZEN"
  /\ UNCHANGED <<charge, unfrozen, rowVars, fixVars, callVars, proVars, hookVars, asked>>

\* resolve: only a decision for the provider, or closing, gives the earning back.
ResolveDispute(for) ==
  /\ dispute = "active"
  /\ dispute' = for
  /\ \/ for = "client" /\ UNCHANGED earning
     \/ for = "provider" /\ earning = "FROZEN" /\ earning' = held
  /\ UNCHANGED <<held, charge, unfrozen, rowVars, fixVars, callVars, proVars, hookVars, asked>>

-----------------------------------------------------------------------------
To(h, s, stage) == handling' = [handling EXCEPT ![h] = <<s, stage>>]
HookFrame == UNCHANGED <<fixVars, callVars, proVars, asked, caseVars>>

\* Anything PayMongo has said may arrive, until it is processed.
Receive(h, s) ==
  /\ handling[h] = Idle /\ s \in said \ processed
  /\ To(h, s, "received")
  /\ UNCHANGED <<processed, rowVars, moneyVars>> /\ HookFrame

\* Slip: a report is matched by the refund's id alone.
MatchById == known
\* applyWebhookRefund finds the row by PayMongo's id, or else by the payment
\* among the rows that may lack one.
Matches == known \/ status \in {"PROCESSING", "RECONCILIATION_REQUIRED"}

Match(h) ==
  /\ handling[h][2] = "received"
  /\ IF Matches THEN To(h, handling[h][1], "matched") ELSE To(h, "none", "idle")
  /\ UNCHANGED <<processed, rowVars, moneyVars>> /\ HookFrame

ApplyReport(h) ==
  LET s == handling[h][1] IN
  /\ handling[h][2] = "matched"
  /\ IF Throws(s)
     THEN To(h, "none", "idle") /\ UNCHANGED <<rowVars, moneyVars>>
     ELSE To(h, s, "applied") /\ Commit(s)
  /\ UNCHANGED processed /\ HookFrame

MarkProcessed(h) ==
  /\ handling[h][2] = "applied"
  /\ processed' = processed \cup {handling[h][1]}
  /\ To(h, "none", "idle")
  /\ UNCHANGED <<rowVars, moneyVars>> /\ HookFrame

CrashHandler(h) ==
  /\ handling[h] # Idle
  /\ To(h, "none", "idle")
  /\ UNCHANGED <<processed, rowVars, moneyVars>> /\ HookFrame

-----------------------------------------------------------------------------
\* reconcile: only an unfinished refund whose id is known can be asked about.
AskPaymongo ==
  /\ asked = "none"
  /\ status \notin {"NONE", "SUCCEEDED", "FAILED"} /\ known
  /\ asked' = refund
  /\ UNCHANGED <<rowVars, moneyVars, fixVars, callVars, proVars, hookVars, caseVars>>

Reconcile ==
  /\ asked # "none"
  /\ asked' = "none"
  /\ IF Throws(asked) THEN UNCHANGED <<rowVars, moneyVars>> ELSE Commit(asked)
  /\ UNCHANGED <<fixVars, callVars, proVars, hookVars, caseVars>>

-----------------------------------------------------------------------------
CallStep(c) ==
  \/ Claim(c) \/ CallPaymongo(c) \/ ApplyAnswer(c) \/ MarkRejected(c) \/ MarkUnsure(c)

HandlerStep(h) == Match(h) \/ ApplyReport(h) \/ MarkProcessed(h)
ReceiveAny(s)  == \E h \in Handlers : Receive(h, s)

Next ==
  \/ \E c \in Calls :
       \/ \E by \in Origin : Prepare(c, by)
       \/ RequestAgain(c) \/ CallStep(c) \/ CrashCall(c)
  \/ \E h \in Handlers : HandlerStep(h) \/ CrashHandler(h)
  \/ \E s \in ProviderStatus : ReceiveAny(s)
  \/ Progress \/ Release
  \/ AskPaymongo \/ Reconcile
  \/ OpenDispute \/ \E for \in {"client", "provider"} : ResolveDispute(for)

Spec == Init /\ [][Next]_vars

\* PayMongo repeats that money was returned until the report is processed, and
\* not every attempt to process it is cut short.
Success(h) == handling[h][1] = "succeeded"

RefundFairness ==
  /\ SF_vars(ReceiveAny("succeeded"))
  /\ \A h \in Handlers : WF_vars(HandlerStep(h))
  /\ \A h \in Handlers : SF_vars(Success(h) /\ Match(h)) /\ SF_vars(Success(h) /\ ApplyReport(h))

FairSpec == Spec /\ RefundFairness

\* The same for everything it reports, with people who ask again and requests that
\* run to their end.
EagerSpec ==
  /\ FairSpec
  /\ \A s \in ProviderStatus : SF_vars(ReceiveAny(s))
  /\ \A c \in Calls : WF_vars(RequestAgain(c)) /\ SF_vars(CallStep(c))
  /\ WF_vars(AskPaymongo) /\ WF_vars(Reconcile)

-----------------------------------------------------------------------------
Acting == {"calling", "answered", "rejected", "unsure"}

\* The refund is asked for once: one request at a time acts for it, and none asks
\* for a refund that exists.
SubmittedOnce ==
  /\ \A c, d \in Calls : step[c] \in Acting /\ step[d] \in Acting => c = d
  /\ \A c \in Calls : step[c] = "calling" => refund = "none"

\* Charge, earning and refund agree that the money went back, and it did.
RefundAccounted ==
  /\ status = "SUCCEEDED" <=> charge = "REFUNDED"
  /\ status = "SUCCEEDED" <=> earning = "REFUNDED"
  /\ status = "SUCCEEDED" => refund = "succeeded"

\* While a refund may still pay, only the closing of a dispute opened before it
\* gives the earning back.
Thawed == before = "FROZEN" /\ dispute = "provider"
Held   == charge = "REFUND_PENDING" /\ (earning = "FROZEN" \/ Thawed)

\* As long as PayMongo may still pay the money back, or has and the books do not
\* know it, the charge cannot be used again and the provider cannot have the
\* earning too, unless a dispute gave it back: whatever was reported, lost or
\* guessed.
NeverBoth ==
  refund \in {"pending", "processing", "succeeded"} /\ status # "SUCCEEDED" => Held

\* The freeze of a dispute that is open, or decided for the client, outlives a
\* refund that fails.
DisputeFreezeKept ==
  dispute \in {"active", "client"} => earning \in {"FROZEN", "REFUNDED"}

\* A succeeded refund is never taken back, by no late answer and no stale report.
SucceededStands == [][status = "SUCCEEDED" => UNCHANGED <<status, moneyVars>>]_vars

\* Money that PayMongo has returned is accounted for in the end.
RefundConcludes == refund = "succeeded" ~> status = "SUCCEEDED"

-----------------------------------------------------------------------------
\* What makes these inductive.
CallInv ==
  \A c \in Calls :
    /\ step[c] \in {"calling", "rejected"} => refund = "none"
    /\ step[c] \in Acting /\ refund = "none" => status = "PROCESSING"
    /\ step[c] = "answered" => answer[c] \in said
    /\ step[c] \in Acting => status \notin {"NONE", "REQUESTED"}

ReportInv ==
  /\ refund = "none" <=> said = {}
  /\ refund # "none" => refund \in said
  /\ \A s \in {"succeeded", "failed"} : s \in said => refund = s
  /\ asked # "none" => asked \in said
  /\ \A h \in Handlers : IF handling[h][1] = "none" THEN handling[h][2] = "idle"
                         ELSE handling[h][1] \in said
  /\ \A h \in Handlers : handling[h][2] \in {"matched", "applied"} => status \notin {"NONE", "REQUESTED"}
  /\ known => status \notin {"NONE", "REQUESTED"}

MoneyInv ==
  /\ status \in {"NONE", "REQUESTED"} => refund = "none"
  /\ status = "REQUESTED" => Held
  /\ status \in {"PENDING", "PROCESSING", "RECONCILIATION_REQUIRED"} /\ refund # "failed" => Held
  /\ status = "FAILED" => refund \in {"none", "failed"}
  /\ refund = "none" => status \in {"NONE", "REQUESTED", "PROCESSING", "FAILED", "RECONCILIATION_REQUIRED"}
  /\ unfrozen => refund = "failed" \/ status = "FAILED"
  /\ status # "NONE" <=> before # "NONE"
  /\ dispute # "none" <=> held # "NONE"
  /\ before \in {"PENDING", "AVAILABLE"} /\ ~unfrozen =>
       earning \in {"FROZEN", "REFUNDED"} /\ dispute \notin {"active", "client"}

RefundInv ==
  /\ TypeOK /\ SubmittedOnce /\ RefundAccounted /\ NeverBoth /\ DisputeFreezeKept
  /\ CallInv /\ ReportInv /\ MoneyInv

-----------------------------------------------------------------------------
\* What the code says when it refuses: a failed refund cannot change without a new
\* request.
FailedIsFinal == [][status = "FAILED" => status' = "FAILED"]_vars

\* What the provider is told: the earning is frozen while the refund is processed.
FrozenWhileRefunded ==
  status \in {"REQUESTED", "PENDING", "PROCESSING", "RECONCILIATION_REQUIRED"} /\ refund # "failed"
    => earning = "FROZEN"

\* What the client is told when the request is accepted: it is being processed.
RequestProcessed == status = "REQUESTED" ~> status # "REQUESTED"
=============================================================================
