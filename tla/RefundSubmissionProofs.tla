----------------------- MODULE RefundSubmissionProofs -----------------------
(***************************************************************************)
(* RefundInv is inductive, for any number of requests for the refund and   *)
(* of webhook requests: one lemma for each step.  The properties of the    *)
(* refund are among its conjuncts or follow from it.                       *)
(***************************************************************************)
EXTENDS RefundSubmission, TLAPS

\* The lemmas of this part look into the state and into the invariant.
USE DEF vars, rowVars, moneyVars, fixVars, callVars, proVars, hookVars, caseVars
USE DEF ProviderStatus, RefundStatus, Report, Origin, Idle, Acting
USE DEF RefundInv, SubmittedOnce, RefundAccounted, NeverBoth, DisputeFreezeKept
USE DEF Held, Thawed, CallInv, ReportInv, MoneyInv

\* What GiveBack and Commit leave in the row and in the books has its type.
LEMMA GiveBackType ==
  ASSUME TypeOK, before # "NONE", GiveBack
  PROVE  /\ charge' \in {"PAID", "REFUND_PENDING", "REFUNDED"}
         /\ earning' \in {"PENDING", "AVAILABLE", "FROZEN", "REFUNDED"}
         /\ unfrozen' \in BOOLEAN
BY DEF TypeOK, GiveBack

LEMMA CommitType ==
  ASSUME TypeOK, before # "NONE", NEW s \in ProviderStatus, Commit(s)
  PROVE  /\ status' \in RefundStatus /\ known' \in BOOLEAN
         /\ charge' \in {"PAID", "REFUND_PENDING", "REFUNDED"}
         /\ earning' \in {"PENDING", "AVAILABLE", "FROZEN", "REFUNDED"}
         /\ unfrozen' \in BOOLEAN
<1>1. CASE status \in {"SUCCEEDED", "FAILED"}
  BY <1>1 DEF TypeOK, Commit
<1>2. CASE status \notin {"SUCCEEDED", "FAILED"}
  <2>1. status' \in RefundStatus /\ known' \in BOOLEAN
    BY <1>2 DEF Commit, LocalStatus
  <2>2. CASE s = "failed" /\ GiveBack
    BY <2>1, <2>2, GiveBackType
  <2>3. CASE ~(s = "failed" /\ GiveBack)
    BY <1>2, <2>1, <2>3 DEF Commit, TypeOK
  <2> QED BY <2>2, <2>3
<1> QED BY <1>1, <1>2

-----------------------------------------------------------------------------
LEMMA PrepareStep ==
  ASSUME RefundInv, NEW c \in Calls, NEW by \in Origin, Prepare(c, by)
  PROVE  RefundInv'
<1>1. TypeOK'
  BY DEF TypeOK, Prepare, Goto, Completed
<1>2. SubmittedOnce'
  BY DEF TypeOK, Prepare, Goto, Completed
<1>3. RefundAccounted'
  BY DEF TypeOK, Prepare, Goto, Completed
<1>4. NeverBoth'
  BY DEF TypeOK, Prepare, Goto, Completed
<1>5. DisputeFreezeKept'
  BY DEF TypeOK, Prepare, Goto, Completed
<1>6. CallInv'
  BY DEF TypeOK, Prepare, Goto, Completed
<1>7. ReportInv'
  BY DEF TypeOK, Prepare, Goto, Completed
<1>8. MoneyInv'
  BY DEF TypeOK, Prepare, Goto, Completed
<1> QED BY <1>1, <1>2, <1>3, <1>4, <1>5, <1>6, <1>7, <1>8

LEMMA RequestAgainStep ==
  ASSUME RefundInv, NEW c \in Calls, RequestAgain(c)
  PROVE  RefundInv'
<1>1. TypeOK'
  BY DEF TypeOK, RequestAgain, Goto
<1>2. SubmittedOnce'
  BY DEF TypeOK, RequestAgain, Goto
<1>3. RefundAccounted'
  BY DEF TypeOK, RequestAgain, Goto
<1>4. NeverBoth'
  BY DEF TypeOK, RequestAgain, Goto
<1>5. DisputeFreezeKept'
  BY DEF TypeOK, RequestAgain, Goto
<1>6. CallInv'
  BY DEF TypeOK, RequestAgain, Goto
<1>7. ReportInv'
  BY DEF TypeOK, RequestAgain, Goto
<1>8. MoneyInv'
  BY DEF TypeOK, RequestAgain, Goto
<1> QED BY <1>1, <1>2, <1>3, <1>4, <1>5, <1>6, <1>7, <1>8

LEMMA ClaimStep ==
  ASSUME RefundInv, NEW c \in Calls, Claim(c)
  PROVE  RefundInv'
<1>1. TypeOK'
  BY DEF TypeOK, Claim, Goto
<1>2. SubmittedOnce'
  BY DEF TypeOK, Claim, Goto
<1>3. RefundAccounted'
  BY DEF TypeOK, Claim, Goto
<1>4. NeverBoth'
  BY DEF TypeOK, Claim, Goto
<1>5. DisputeFreezeKept'
  BY DEF TypeOK, Claim, Goto
<1>6. CallInv'
  BY DEF TypeOK, Claim, Goto
<1>7. ReportInv'
  BY DEF TypeOK, Claim, Goto
<1>8. MoneyInv'
  BY DEF TypeOK, Claim, Goto
<1> QED BY <1>1, <1>2, <1>3, <1>4, <1>5, <1>6, <1>7, <1>8

LEMMA CallPaymongoStep ==
  ASSUME RefundInv, NEW c \in Calls, CallPaymongo(c)
  PROVE  RefundInv'
<1>1. TypeOK'
  <2>1. refund' \in Report /\ said' \subseteq ProviderStatus
    BY DEF TypeOK, CallPaymongo, Opened
  <2>2. /\ step' \in [Calls -> {"idle", "prepared", "calling", "answered", "rejected", "unsure"}]
        /\ answer' \in [Calls -> Report]
    BY DEF TypeOK, CallPaymongo, Answered, Goto
  <2> QED BY <2>1, <2>2 DEF TypeOK, CallPaymongo
<1>2. SubmittedOnce'
  BY DEF TypeOK, CallPaymongo, Goto, Opened, Answered
<1>3. RefundAccounted'
  BY DEF TypeOK, CallPaymongo, Goto, Opened, Answered
<1>4. NeverBoth'
  BY DEF TypeOK, CallPaymongo, Goto, Opened, Answered
<1>5. DisputeFreezeKept'
  BY DEF TypeOK, CallPaymongo, Goto, Opened, Answered
<1>6. CallInv'
  BY DEF TypeOK, CallPaymongo, Goto, Opened, Answered
<1>7. ReportInv'
  <2>1. refund = "none" /\ said = {}
    BY DEF CallPaymongo
  <2>2. CASE UNCHANGED proVars
    BY <2>2 DEF CallPaymongo
  <2>3. CASE \E s \in ProviderStatus : Opened(s)
    <3>1. PICK s \in ProviderStatus : Opened(s)
      BY <2>3
    <3>2. refund' = s /\ said' = {s}
      BY <2>1, <3>1 DEF Opened
    <3>3. asked = "none" /\ \A h \in Handlers : handling[h][1] = "none"
      BY <2>1
    <3> QED BY <3>2, <3>3 DEF CallPaymongo
  <2> QED BY <2>2, <2>3 DEF CallPaymongo
<1>8. MoneyInv'
  BY DEF TypeOK, CallPaymongo, Goto, Opened, Answered
<1> QED BY <1>1, <1>2, <1>3, <1>4, <1>5, <1>6, <1>7, <1>8

LEMMA ApplyAnswerStep ==
  ASSUME RefundInv, NEW c \in Calls, ApplyAnswer(c)
  PROVE  RefundInv'
<1>1. TypeOK'
  <2>1. step' \in [Calls -> {"idle", "prepared", "calling", "answered", "rejected", "unsure"}] /\ answer' \in [Calls -> Report]
    BY DEF TypeOK, ApplyAnswer, Goto, Return
  <2>2. answer[c] \in ProviderStatus /\ before # "NONE"
    BY DEF TypeOK, ApplyAnswer
  <2>3. CASE Commit(answer[c])
    BY <2>1, <2>2, <2>3, CommitType DEF TypeOK, ApplyAnswer
  <2>4. CASE UNCHANGED <<rowVars, moneyVars>>
    BY <2>1, <2>4 DEF TypeOK, ApplyAnswer
  <2> QED BY <2>3, <2>4 DEF ApplyAnswer
<1>2. SubmittedOnce'
  BY DEF TypeOK, ApplyAnswer, Goto, Return, Throws, Commit, GiveBack, LocalStatus
<1>3. RefundAccounted'
  BY DEF TypeOK, ApplyAnswer, Goto, Return, Throws, Commit, GiveBack, LocalStatus
<1>4. NeverBoth'
  BY DEF TypeOK, ApplyAnswer, Goto, Return, Throws, Commit, GiveBack, LocalStatus
<1>5. DisputeFreezeKept'
  BY DEF TypeOK, ApplyAnswer, Goto, Return, Throws, Commit, GiveBack, LocalStatus
<1>6. CallInv'
  BY DEF TypeOK, ApplyAnswer, Goto, Return, Throws, Commit, GiveBack, LocalStatus
<1>7. ReportInv'
  BY DEF TypeOK, ApplyAnswer, Goto, Return, Throws, Commit, GiveBack, LocalStatus
<1>8. MoneyInv'
  BY DEF TypeOK, ApplyAnswer, Goto, Return, Throws, Commit, GiveBack, LocalStatus
<1> QED BY <1>1, <1>2, <1>3, <1>4, <1>5, <1>6, <1>7, <1>8

LEMMA MarkRejectedStep ==
  ASSUME RefundInv, NEW c \in Calls, MarkRejected(c)
  PROVE  RefundInv'
<1>1. TypeOK'
  <2>1. step' \in [Calls -> {"idle", "prepared", "calling", "answered", "rejected", "unsure"}] /\ answer' \in [Calls -> Report]
    BY DEF TypeOK, MarkRejected, Goto, Return
  <2>2. before # "NONE"
    BY DEF MarkRejected
  <2>3. CASE status' = "FAILED" /\ GiveBack
    BY <2>1, <2>2, <2>3, GiveBackType DEF TypeOK, MarkRejected
  <2>4. CASE UNCHANGED <<status, moneyVars>>
    BY <2>1, <2>4 DEF TypeOK, MarkRejected
  <2> QED BY <2>3, <2>4 DEF MarkRejected
<1>2. SubmittedOnce'
  BY DEF TypeOK, MarkRejected, Goto, Return, StatusAdmits, GiveBack
<1>3. RefundAccounted'
  BY DEF TypeOK, MarkRejected, Goto, Return, StatusAdmits, GiveBack
<1>4. NeverBoth'
  BY DEF TypeOK, MarkRejected, Goto, Return, StatusAdmits, GiveBack
<1>5. DisputeFreezeKept'
  BY DEF TypeOK, MarkRejected, Goto, Return, StatusAdmits, GiveBack
<1>6. CallInv'
  BY DEF TypeOK, MarkRejected, Goto, Return, StatusAdmits, GiveBack
<1>7. ReportInv'
  BY DEF TypeOK, MarkRejected, Goto, Return, StatusAdmits, GiveBack
<1>8. MoneyInv'
  BY DEF TypeOK, MarkRejected, Goto, Return, StatusAdmits, GiveBack
<1> QED BY <1>1, <1>2, <1>3, <1>4, <1>5, <1>6, <1>7, <1>8

LEMMA MarkUnsureStep ==
  ASSUME RefundInv, NEW c \in Calls, MarkUnsure(c)
  PROVE  RefundInv'
<1>1. TypeOK'
  BY DEF TypeOK, MarkUnsure, Goto, Return, StatusAdmits
<1>2. SubmittedOnce'
  BY DEF TypeOK, MarkUnsure, Goto, Return, StatusAdmits
<1>3. RefundAccounted'
  BY DEF TypeOK, MarkUnsure, Goto, Return, StatusAdmits
<1>4. NeverBoth'
  BY DEF TypeOK, MarkUnsure, Goto, Return, StatusAdmits
<1>5. DisputeFreezeKept'
  BY DEF TypeOK, MarkUnsure, Goto, Return, StatusAdmits
<1>6. CallInv'
  BY DEF TypeOK, MarkUnsure, Goto, Return, StatusAdmits
<1>7. ReportInv'
  BY DEF TypeOK, MarkUnsure, Goto, Return, StatusAdmits
<1>8. MoneyInv'
  BY DEF TypeOK, MarkUnsure, Goto, Return, StatusAdmits
<1> QED BY <1>1, <1>2, <1>3, <1>4, <1>5, <1>6, <1>7, <1>8

LEMMA CrashCallStep ==
  ASSUME RefundInv, NEW c \in Calls, CrashCall(c)
  PROVE  RefundInv'
<1>1. TypeOK'
  BY DEF TypeOK, CrashCall, Goto, Return
<1>2. SubmittedOnce'
  BY DEF TypeOK, CrashCall, Goto, Return
<1>3. RefundAccounted'
  BY DEF TypeOK, CrashCall, Goto, Return
<1>4. NeverBoth'
  BY DEF TypeOK, CrashCall, Goto, Return
<1>5. DisputeFreezeKept'
  BY DEF TypeOK, CrashCall, Goto, Return
<1>6. CallInv'
  BY DEF TypeOK, CrashCall, Goto, Return
<1>7. ReportInv'
  BY DEF TypeOK, CrashCall, Goto, Return
<1>8. MoneyInv'
  BY DEF TypeOK, CrashCall, Goto, Return
<1> QED BY <1>1, <1>2, <1>3, <1>4, <1>5, <1>6, <1>7, <1>8

LEMMA ProgressStep ==
  ASSUME RefundInv, Progress
  PROVE  RefundInv'
<1>1. TypeOK'
  BY DEF TypeOK, Progress, Opened
<1>2. SubmittedOnce'
  BY DEF TypeOK, Progress, Opened
<1>3. RefundAccounted'
  BY DEF TypeOK, Progress, Opened
<1>4. NeverBoth'
  BY DEF TypeOK, Progress, Opened
<1>5. DisputeFreezeKept'
  BY DEF TypeOK, Progress, Opened
<1>6. CallInv'
  BY DEF TypeOK, Progress, Opened
<1>7. ReportInv'
  BY DEF TypeOK, Progress, Opened
<1>8. MoneyInv'
  BY DEF TypeOK, Progress, Opened
<1> QED BY <1>1, <1>2, <1>3, <1>4, <1>5, <1>6, <1>7, <1>8

LEMMA ReleaseStep ==
  ASSUME RefundInv, Release
  PROVE  RefundInv'
<1>1. TypeOK'
  BY DEF TypeOK, Release
<1>2. SubmittedOnce'
  BY DEF TypeOK, Release
<1>3. RefundAccounted'
  BY DEF TypeOK, Release
<1>4. NeverBoth'
  BY DEF TypeOK, Release
<1>5. DisputeFreezeKept'
  BY DEF TypeOK, Release
<1>6. CallInv'
  BY DEF TypeOK, Release
<1>7. ReportInv'
  BY DEF TypeOK, Release
<1>8. MoneyInv'
  BY DEF TypeOK, Release
<1> QED BY <1>1, <1>2, <1>3, <1>4, <1>5, <1>6, <1>7, <1>8

LEMMA OpenDisputeStep ==
  ASSUME RefundInv, OpenDispute
  PROVE  RefundInv'
<1>1. TypeOK'
  BY DEF TypeOK, OpenDispute
<1>2. SubmittedOnce'
  BY DEF TypeOK, OpenDispute
<1>3. RefundAccounted'
  BY DEF TypeOK, OpenDispute
<1>4. NeverBoth'
  BY DEF TypeOK, OpenDispute
<1>5. DisputeFreezeKept'
  BY DEF TypeOK, OpenDispute
<1>6. CallInv'
  BY DEF TypeOK, OpenDispute
<1>7. ReportInv'
  BY DEF TypeOK, OpenDispute
<1>8. MoneyInv'
  BY DEF TypeOK, OpenDispute
<1> QED BY <1>1, <1>2, <1>3, <1>4, <1>5, <1>6, <1>7, <1>8

LEMMA ResolveDisputeStep ==
  ASSUME RefundInv, NEW for \in {"client", "provider"}, ResolveDispute(for)
  PROVE  RefundInv'
<1>1. TypeOK'
  <2>1. held \in {"PENDING", "AVAILABLE"}
    BY DEF TypeOK, ResolveDispute
  <2> QED BY <2>1 DEF TypeOK, ResolveDispute
<1>2. SubmittedOnce'
  BY DEF TypeOK, ResolveDispute
<1>3. RefundAccounted'
  BY DEF TypeOK, ResolveDispute
<1>4. NeverBoth'
  BY DEF TypeOK, ResolveDispute
<1>5. DisputeFreezeKept'
  BY DEF TypeOK, ResolveDispute
<1>6. CallInv'
  BY DEF TypeOK, ResolveDispute
<1>7. ReportInv'
  BY DEF TypeOK, ResolveDispute
<1>8. MoneyInv'
  BY DEF TypeOK, ResolveDispute
<1> QED BY <1>1, <1>2, <1>3, <1>4, <1>5, <1>6, <1>7, <1>8

LEMMA ReceiveStep ==
  ASSUME RefundInv, NEW h \in Handlers, NEW s \in ProviderStatus, Receive(h, s)
  PROVE  RefundInv'
<1>1. TypeOK'
  BY DEF TypeOK, Receive, To, HookFrame, Idle
<1>2. SubmittedOnce'
  BY DEF TypeOK, Receive, To, HookFrame, Idle
<1>3. RefundAccounted'
  BY DEF TypeOK, Receive, To, HookFrame, Idle
<1>4. NeverBoth'
  BY DEF TypeOK, Receive, To, HookFrame, Idle
<1>5. DisputeFreezeKept'
  BY DEF TypeOK, Receive, To, HookFrame, Idle
<1>6. CallInv'
  BY DEF TypeOK, Receive, To, HookFrame, Idle
<1>7. ReportInv'
  BY DEF TypeOK, Receive, To, HookFrame, Idle
<1>8. MoneyInv'
  BY DEF TypeOK, Receive, To, HookFrame, Idle
<1> QED BY <1>1, <1>2, <1>3, <1>4, <1>5, <1>6, <1>7, <1>8

LEMMA MatchStep ==
  ASSUME RefundInv, NEW h \in Handlers, Match(h)
  PROVE  RefundInv'
<1>1. TypeOK'
  BY DEF TypeOK, Match, Matches, To, HookFrame, Idle
<1>2. SubmittedOnce'
  BY DEF TypeOK, Match, Matches, To, HookFrame, Idle
<1>3. RefundAccounted'
  BY DEF TypeOK, Match, Matches, To, HookFrame, Idle
<1>4. NeverBoth'
  BY DEF TypeOK, Match, Matches, To, HookFrame, Idle
<1>5. DisputeFreezeKept'
  BY DEF TypeOK, Match, Matches, To, HookFrame, Idle
<1>6. CallInv'
  BY DEF TypeOK, Match, Matches, To, HookFrame, Idle
<1>7. ReportInv'
  BY DEF TypeOK, Match, Matches, To, HookFrame, Idle
<1>8. MoneyInv'
  BY DEF TypeOK, Match, Matches, To, HookFrame, Idle
<1> QED BY <1>1, <1>2, <1>3, <1>4, <1>5, <1>6, <1>7, <1>8

LEMMA ApplyReportStep ==
  ASSUME RefundInv, NEW h \in Handlers, ApplyReport(h)
  PROVE  RefundInv'
<1>1. TypeOK'
  <2>1. handling[h][1] \in ProviderStatus /\ before # "NONE"
    BY DEF TypeOK, ApplyReport
  <2>2. handling' \in [Handlers -> Report \X {"idle", "received", "matched", "applied"}]
    BY <2>1 DEF TypeOK, ApplyReport, To
  <2>3. CASE Commit(handling[h][1])
    BY <2>1, <2>2, <2>3, CommitType DEF TypeOK, ApplyReport, HookFrame
  <2>4. CASE UNCHANGED <<rowVars, moneyVars>>
    BY <2>2, <2>4 DEF TypeOK, ApplyReport, HookFrame
  <2> QED BY <2>3, <2>4 DEF ApplyReport
<1>2. SubmittedOnce'
  BY DEF TypeOK, ApplyReport, To, HookFrame, Idle, Throws, Commit, GiveBack, LocalStatus
<1>3. RefundAccounted'
  BY DEF TypeOK, ApplyReport, To, HookFrame, Idle, Throws, Commit, GiveBack, LocalStatus
<1>4. NeverBoth'
  BY DEF TypeOK, ApplyReport, To, HookFrame, Idle, Throws, Commit, GiveBack, LocalStatus
<1>5. DisputeFreezeKept'
  BY DEF TypeOK, ApplyReport, To, HookFrame, Idle, Throws, Commit, GiveBack, LocalStatus
<1>6. CallInv'
  BY DEF TypeOK, ApplyReport, To, HookFrame, Idle, Throws, Commit, GiveBack, LocalStatus
<1>7. ReportInv'
  BY DEF TypeOK, ApplyReport, To, HookFrame, Idle, Throws, Commit, GiveBack, LocalStatus
<1>8. MoneyInv'
  BY DEF TypeOK, ApplyReport, To, HookFrame, Idle, Throws, Commit, GiveBack, LocalStatus
<1> QED BY <1>1, <1>2, <1>3, <1>4, <1>5, <1>6, <1>7, <1>8

LEMMA MarkProcessedStep ==
  ASSUME RefundInv, NEW h \in Handlers, MarkProcessed(h)
  PROVE  RefundInv'
<1>1. TypeOK'
  <2>1. handling[h][1] \in ProviderStatus
    BY DEF TypeOK, MarkProcessed
  <2>2. handling' \in [Handlers -> Report \X {"idle", "received", "matched", "applied"}]
    BY DEF TypeOK, MarkProcessed, To
  <2>3. processed' \subseteq ProviderStatus
    BY <2>1 DEF TypeOK, MarkProcessed
  <2> QED BY <2>2, <2>3 DEF TypeOK, MarkProcessed, HookFrame
<1>2. SubmittedOnce'
  BY DEF TypeOK, MarkProcessed, To, HookFrame, Idle
<1>3. RefundAccounted'
  BY DEF TypeOK, MarkProcessed, To, HookFrame, Idle
<1>4. NeverBoth'
  BY DEF TypeOK, MarkProcessed, To, HookFrame, Idle
<1>5. DisputeFreezeKept'
  BY DEF TypeOK, MarkProcessed, To, HookFrame, Idle
<1>6. CallInv'
  BY DEF TypeOK, MarkProcessed, To, HookFrame, Idle
<1>7. ReportInv'
  BY DEF TypeOK, MarkProcessed, To, HookFrame, Idle
<1>8. MoneyInv'
  BY DEF TypeOK, MarkProcessed, To, HookFrame, Idle
<1> QED BY <1>1, <1>2, <1>3, <1>4, <1>5, <1>6, <1>7, <1>8

LEMMA CrashHandlerStep ==
  ASSUME RefundInv, NEW h \in Handlers, CrashHandler(h)
  PROVE  RefundInv'
<1>1. TypeOK'
  BY DEF TypeOK, CrashHandler, To, HookFrame, Idle
<1>2. SubmittedOnce'
  BY DEF TypeOK, CrashHandler, To, HookFrame, Idle
<1>3. RefundAccounted'
  BY DEF TypeOK, CrashHandler, To, HookFrame, Idle
<1>4. NeverBoth'
  BY DEF TypeOK, CrashHandler, To, HookFrame, Idle
<1>5. DisputeFreezeKept'
  BY DEF TypeOK, CrashHandler, To, HookFrame, Idle
<1>6. CallInv'
  BY DEF TypeOK, CrashHandler, To, HookFrame, Idle
<1>7. ReportInv'
  BY DEF TypeOK, CrashHandler, To, HookFrame, Idle
<1>8. MoneyInv'
  BY DEF TypeOK, CrashHandler, To, HookFrame, Idle
<1> QED BY <1>1, <1>2, <1>3, <1>4, <1>5, <1>6, <1>7, <1>8

LEMMA AskPaymongoStep ==
  ASSUME RefundInv, AskPaymongo
  PROVE  RefundInv'
<1>1. TypeOK'
  BY DEF TypeOK, AskPaymongo
<1>2. SubmittedOnce'
  BY DEF TypeOK, AskPaymongo
<1>3. RefundAccounted'
  BY DEF TypeOK, AskPaymongo
<1>4. NeverBoth'
  BY DEF TypeOK, AskPaymongo
<1>5. DisputeFreezeKept'
  BY DEF TypeOK, AskPaymongo
<1>6. CallInv'
  BY DEF TypeOK, AskPaymongo
<1>7. ReportInv'
  BY DEF TypeOK, AskPaymongo
<1>8. MoneyInv'
  BY DEF TypeOK, AskPaymongo
<1> QED BY <1>1, <1>2, <1>3, <1>4, <1>5, <1>6, <1>7, <1>8

LEMMA ReconcileStep ==
  ASSUME RefundInv, Reconcile
  PROVE  RefundInv'
<1>1. TypeOK'
  <2>1. asked \in ProviderStatus /\ before # "NONE"
    BY DEF TypeOK, Reconcile
  <2>2. CASE Commit(asked)
    BY <2>1, <2>2, CommitType DEF TypeOK, Reconcile
  <2>3. CASE UNCHANGED <<rowVars, moneyVars>>
    BY <2>3 DEF TypeOK, Reconcile
  <2> QED BY <2>2, <2>3 DEF Reconcile
<1>2. SubmittedOnce'
  BY DEF TypeOK, Reconcile, Throws, Commit, GiveBack, LocalStatus
<1>3. RefundAccounted'
  BY DEF TypeOK, Reconcile, Throws, Commit, GiveBack, LocalStatus
<1>4. NeverBoth'
  BY DEF TypeOK, Reconcile, Throws, Commit, GiveBack, LocalStatus
<1>5. DisputeFreezeKept'
  BY DEF TypeOK, Reconcile, Throws, Commit, GiveBack, LocalStatus
<1>6. CallInv'
  BY DEF TypeOK, Reconcile, Throws, Commit, GiveBack, LocalStatus
<1>7. ReportInv'
  BY DEF TypeOK, Reconcile, Throws, Commit, GiveBack, LocalStatus
<1>8. MoneyInv'
  BY DEF TypeOK, Reconcile, Throws, Commit, GiveBack, LocalStatus
<1> QED BY <1>1, <1>2, <1>3, <1>4, <1>5, <1>6, <1>7, <1>8

-----------------------------------------------------------------------------
HIDE DEF RefundInv, SubmittedOnce, RefundAccounted, NeverBoth, DisputeFreezeKept

LEMMA InitInv == Init => RefundInv
<1> SUFFICES ASSUME Init PROVE RefundInv
  OBVIOUS
<1>1. TypeOK
  BY DEF Init, TypeOK
<1>2. SubmittedOnce /\ RefundAccounted /\ NeverBoth /\ DisputeFreezeKept
  BY DEF Init, SubmittedOnce, RefundAccounted, NeverBoth, DisputeFreezeKept
<1>3. CallInv
  BY DEF Init
<1>4. ReportInv
  BY DEF Init
<1>5. MoneyInv
  BY DEF Init
<1> QED BY <1>1, <1>2, <1>3, <1>4, <1>5 DEF RefundInv

LEMMA StutterInv == RefundInv /\ UNCHANGED vars => RefundInv'
BY DEF RefundInv, TypeOK, SubmittedOnce, RefundAccounted, NeverBoth, DisputeFreezeKept

LEMMA NextInv == RefundInv /\ [Next]_vars => RefundInv'
<1> SUFFICES ASSUME RefundInv, [Next]_vars PROVE RefundInv'
  OBVIOUS
<1>1. ASSUME NEW c \in Calls, NEW by \in Origin, Prepare(c, by) PROVE RefundInv'
  BY <1>1, PrepareStep
<1>2. ASSUME NEW c \in Calls, RequestAgain(c) PROVE RefundInv'
  BY <1>2, RequestAgainStep
<1>3. ASSUME NEW c \in Calls, CallStep(c) PROVE RefundInv'
  BY <1>3, ClaimStep, CallPaymongoStep, ApplyAnswerStep, MarkRejectedStep, MarkUnsureStep DEF CallStep
<1>4. ASSUME NEW c \in Calls, CrashCall(c) PROVE RefundInv'
  BY <1>4, CrashCallStep
<1>5. ASSUME NEW h \in Handlers, HandlerStep(h) \/ CrashHandler(h) PROVE RefundInv'
  BY <1>5, MatchStep, ApplyReportStep, MarkProcessedStep, CrashHandlerStep DEF HandlerStep
<1>6. ASSUME NEW s \in ProviderStatus, ReceiveAny(s) PROVE RefundInv'
  BY <1>6, ReceiveStep DEF ReceiveAny
<1>7. ASSUME Progress \/ Release \/ AskPaymongo \/ Reconcile \/ OpenDispute PROVE RefundInv'
  BY <1>7, ProgressStep, ReleaseStep, AskPaymongoStep, ReconcileStep, OpenDisputeStep
<1>8. ASSUME NEW for \in {"client", "provider"}, ResolveDispute(for) PROVE RefundInv'
  BY <1>8, ResolveDisputeStep
<1>9. CASE UNCHANGED vars
  BY <1>9, StutterInv
<1> QED BY <1>1, <1>2, <1>3, <1>4, <1>5, <1>6, <1>7, <1>8, <1>9 DEF Next

\* However many requests, webhooks, losses and stops there are: the invariant holds.
THEOREM RefundInvariance == Spec => []RefundInv
BY InitInv, NextInv, PTL DEF Spec

\* PayMongo is asked for this refund once, and never for one that exists.
THEOREM OneSubmission == Spec => []SubmittedOnce
<1>1. RefundInv => SubmittedOnce
  BY DEF RefundInv
<1> QED BY <1>1, RefundInvariance, PTL

\* Charge, earning and refund agree on whether the money went back.
THEOREM BooksAgree == Spec => []RefundAccounted
<1>1. RefundInv => RefundAccounted
  BY DEF RefundInv
<1> QED BY <1>1, RefundInvariance, PTL

\* What PayMongo may still return, or has returned unheard of, is out of reach.
THEOREM OutOfReach == Spec => []NeverBoth
<1>1. RefundInv => NeverBoth
  BY DEF RefundInv
<1> QED BY <1>1, RefundInvariance, PTL

\* A refund that fails does not thaw what a dispute froze.
THEOREM FreezeOutlivesRefund == Spec => []DisputeFreezeKept
<1>1. RefundInv => DisputeFreezeKept
  BY DEF RefundInv
<1> QED BY <1>1, RefundInvariance, PTL

LEMMA SucceededStep ==
  ASSUME RefundInv, [Next]_vars, status = "SUCCEEDED"
  PROVE  UNCHANGED <<status, moneyVars>>
<1>1. /\ charge = "REFUNDED" /\ earning = "REFUNDED"
      /\ \A c \in Calls : step[c] \notin {"calling", "rejected"}
  BY DEF RefundInv, RefundAccounted
<1>2. ASSUME NEW c \in Calls, NEW by \in Origin, Prepare(c, by) \/ RequestAgain(c)
      PROVE  UNCHANGED <<status, moneyVars>>
  BY <1>2 DEF Prepare, RequestAgain
<1>3. ASSUME NEW c \in Calls, CallStep(c) \/ CrashCall(c) PROVE UNCHANGED <<status, moneyVars>>
  <2>1. CASE Claim(c) \/ CallPaymongo(c) \/ CrashCall(c)
    BY <2>1 DEF Claim, CallPaymongo, CrashCall
  <2>2. CASE ApplyAnswer(c)
    BY <2>2 DEF ApplyAnswer, Commit
  <2>3. CASE MarkRejected(c)
    BY <1>1, <2>3 DEF MarkRejected
  <2>4. CASE MarkUnsure(c)
    BY <2>4 DEF MarkUnsure, StatusAdmits
  <2> QED BY <1>3, <2>1, <2>2, <2>3, <2>4 DEF CallStep
<1>4. ASSUME NEW h \in Handlers, HandlerStep(h) \/ CrashHandler(h) PROVE UNCHANGED <<status, moneyVars>>
  BY <1>4 DEF HandlerStep, CrashHandler, Match, ApplyReport, MarkProcessed, Commit
<1>5. ASSUME NEW s \in ProviderStatus, ReceiveAny(s) PROVE UNCHANGED <<status, moneyVars>>
  BY <1>5 DEF ReceiveAny, Receive
<1>6. ASSUME Progress \/ Release \/ AskPaymongo \/ Reconcile \/ OpenDispute
      PROVE  UNCHANGED <<status, moneyVars>>
  BY <1>1, <1>6 DEF Progress, Release, AskPaymongo, Reconcile, OpenDispute, Commit
<1>7. ASSUME NEW for \in {"client", "provider"}, ResolveDispute(for) PROVE UNCHANGED <<status, moneyVars>>
  BY <1>1, <1>7 DEF ResolveDispute
<1> QED BY <1>2, <1>3, <1>4, <1>5, <1>6, <1>7 DEF Next

\* No late answer and no stale report takes a succeeded refund back.
THEOREM SucceededIsFinal == Spec => SucceededStands
<1>1. RefundInv /\ [Next]_vars => [status = "SUCCEEDED" => UNCHANGED <<status, moneyVars>>]_vars
  BY SucceededStep
<1> QED BY <1>1, RefundInvariance, PTL DEF Spec, SucceededStands

=============================================================================
