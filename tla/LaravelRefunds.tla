--------------------------- MODULE LaravelRefunds ---------------------------
(***************************************************************************)
(* RefundService of the Laravel backend, one refund from its request on:   *)
(* the request submits it to PayMongo (external), webhooks and an          *)
(* administrator's reconciliation report how it went, in any order, twice  *)
(* or never, and a worker may stop anywhere.                               *)
(*                                                                         *)
(* apply reads the refund before it locks the order, and with the          *)
(* database's repeatable reads keeps to what it read: it is two actions.   *)
(* The earning had not been frozen before the refund was requested.        *)
(***************************************************************************)
EXTENDS Naturals, FiniteSets

CONSTANT Worker       \* PHP workers

VARIABLES
  row,        \* PaymentRefund: its status, and whether providerRefundId is set
  money,      \* the payment and the earning, which change together
  reversals,  \* EARNING_REFUND_REVERSAL entries, unique by their sourceKey
  provider,   \* the refund at PayMongo
  announced,  \* what PayMongo has sent about it
  worker      \* what each worker is doing, with what it was told and has read

refundsVars == <<row, money, reversals, provider, announced, worker>>

Terminal  == {"SUCCEEDED", "FAILED"}
Row       == [status: {"REQUESTED", "PENDING", "PROCESSING", "RECONCILIATION_REQUIRED"} \cup Terminal,
              known: BOOLEAN]
Report    == {"pending", "processing", "succeeded", "failed"}
StatusOf  == [pending |-> "PENDING", processing |-> "PROCESSING",
              succeeded |-> "SUCCEEDED", failed |-> "FAILED"]
At        == {"IDLE", "CLAIMED", "REJECTED", "UNKNOWN", "TOLD", "READ"}
Idle      == [at |-> "IDLE", told |-> "pending", seen |-> [status |-> "REQUESTED", known |-> FALSE]]

RefundsTypeOK ==
  /\ row \in Row
  /\ money \in {"HELD", "RETURNED", "GIVEN_BACK"}
  /\ reversals \in Nat
  /\ provider \in Report \cup {"NONE"}
  /\ announced \subseteq Report
  /\ worker \in [Worker -> [at: At, told: Report, seen: Row]]

RefundsInit ==
  /\ row = [status |-> "REQUESTED", known |-> FALSE] /\ money = "HELD" /\ reversals = 0
  /\ provider = "NONE" /\ announced = {}
  /\ worker = [w \in Worker |-> Idle]

Goes(w, at)  == worker' = [worker EXCEPT ![w].at = at]
Told(w, s)   == worker' = [worker EXCEPT ![w] = [Idle EXCEPT !.at = "TOLD", !.told = s]]
Rests(w)     == worker' = [worker EXCEPT ![w] = Idle]

-----------------------------------------------------------------------------
\* submit: one worker wins the row.
Claim(w) ==
  /\ worker[w].at = "IDLE" /\ row.status = "REQUESTED"
  /\ row' = [row EXCEPT !.status = "PROCESSING"] /\ Goes(w, "CLAIMED")
  /\ UNCHANGED <<money, reversals, provider, announced>>

\* PayMongo makes the refund, and its answer arrives or does not; or it makes none.
Created(w, s) ==
  /\ worker[w].at = "CLAIMED" /\ provider = "NONE"
  /\ provider' = s /\ announced' = announced \cup {s}
  /\ Told(w, s) \/ Goes(w, "UNKNOWN")
  /\ UNCHANGED <<row, money, reversals>>

NotCreated(w, at) ==
  /\ worker[w].at = "CLAIMED" /\ at \in {"REJECTED", "UNKNOWN"} /\ Goes(w, at)
  /\ UNCHANGED <<row, money, reversals, provider, announced>>

ProviderMoves(s) ==
  /\ provider \in {"pending", "processing"} /\ s \notin {provider, "pending"}
  /\ provider' = s /\ announced' = announced \cup {s}
  /\ UNCHANGED <<row, money, reversals, worker>>

-----------------------------------------------------------------------------
\* applyWebhookRefund: by the id, or by the payment while the id is unknown.
Webhook(w, s) ==
  /\ worker[w].at = "IDLE" /\ s \in announced
  /\ row.known \/ row.status \in {"PROCESSING", "RECONCILIATION_REQUIRED"}
  /\ Told(w, s)
  /\ UNCHANGED <<row, money, reversals, provider, announced>>

Reconcile(w) ==
  /\ worker[w].at = "IDLE" /\ row.known /\ row.status \notin Terminal
  /\ Told(w, provider)
  /\ UNCHANGED <<row, money, reversals, provider, announced>>

\* apply's first statement, before the lock.
ReadRefund(w) ==
  /\ worker[w].at = "TOLD"
  /\ worker' = [worker EXCEPT ![w].at = "READ", ![w].seen = row]
  /\ UNCHANGED <<row, money, reversals, provider, announced>>

\* The rest of apply.  A second reversal breaks the unique key, and with it the
\* whole transaction.
Apply(w) ==
  LET s == worker[w].told
      ignored == worker[w].seen.status \in Terminal \/ (s = "succeeded" /\ reversals > 0) IN
  /\ worker[w].at = "READ" /\ Rests(w)
  /\ IF ignored THEN UNCHANGED <<row, money, reversals>>
     ELSE /\ row' = [status |-> StatusOf[s], known |-> TRUE]
          /\ money' = CASE s = "succeeded" -> "RETURNED" [] s = "failed" -> "GIVEN_BACK"
                        [] OTHER -> money
          /\ reversals' = reversals + IF s = "succeeded" THEN 1 ELSE 0
  /\ UNCHANGED <<provider, announced>>

\* Slip: an outcome that is not known is taken for a failure.
FailureEither(w) ==
  /\ worker[w].at \in {"REJECTED", "UNKNOWN"} /\ Rests(w)
  /\ row' = [row EXCEPT !.status = "FAILED"] /\ money' = "GIVEN_BACK"
  /\ UNCHANGED <<reversals, provider, announced>>

\* submissionFailure, which looks at nothing.
SubmissionFailure(w) ==
  /\ worker[w].at \in {"REJECTED", "UNKNOWN"} /\ Rests(w)
  /\ IF worker[w].at = "REJECTED"
     THEN row' = [row EXCEPT !.status = "FAILED"] /\ money' = "GIVEN_BACK"
     ELSE row' = [row EXCEPT !.status = "RECONCILIATION_REQUIRED"] /\ UNCHANGED money
  /\ UNCHANGED <<reversals, provider, announced>>

Stop(w) ==
  /\ worker[w].at # "IDLE" /\ Rests(w)
  /\ UNCHANGED <<row, money, reversals, provider, announced>>

RefundsNext ==
  \/ \E s \in Report : ProviderMoves(s)
  \/ \E w \in Worker :
       \/ Claim(w) \/ Reconcile(w) \/ ReadRefund(w) \/ Apply(w) \/ SubmissionFailure(w) \/ Stop(w)
       \/ \E s \in Report : Created(w, s) \/ Webhook(w, s)
       \/ \E at \in At : NotCreated(w, at)

-----------------------------------------------------------------------------
\* The client has the money only if PayMongo returned it, and the provider has it
\* back only if PayMongo did not and will not: never both, and once each, however
\* the answer, the webhooks and the reconciliation overtake each other.
RefundHonoured ==
  /\ money = "RETURNED"   => provider = "succeeded" /\ reversals = 1
  /\ money = "GIVEN_BACK" => provider \in {"NONE", "failed"} /\ reversals = 0
  /\ row.status \in Terminal => money # "HELD"

\* What docs/laravel-migration.md says of an unknown outcome: it remains frozen
\* until it is reconciled.
UnknownStaysFrozen == row.status = "RECONCILIATION_REQUIRED" => money = "HELD"

-----------------------------------------------------------------------------
\* What makes the first inductive.

Submitting(w) == worker[w].at \in {"CLAIMED", "REJECTED", "UNKNOWN"}

\* One worker submits the refund, and until it knows more nothing has happened.
OneSubmitter ==
  /\ row.status = "REQUESTED" => provider = "NONE" /\ money = "HELD" /\ \A w \in Worker : worker[w] = Idle
  /\ \A w, v \in Worker : Submitting(w) /\ Submitting(v) => w = v
  /\ \A w \in Worker : worker[w].at \in {"CLAIMED", "REJECTED"} =>
       provider = "NONE" /\ money = "HELD" /\ row.status = "PROCESSING"

\* What PayMongo has sent, and so what a worker was told, is true of the refund, and
\* final if it is an end.
ReportsTrue ==
  /\ provider = "NONE" => announced = {} /\ ~row.known
  /\ provider # "NONE" => provider \in announced
  /\ \A s \in {"succeeded", "failed"} : s \in announced => provider = s
  /\ \A w \in Worker : worker[w].at \in {"TOLD", "READ"} => worker[w].told \in announced

RefundsInv ==
  /\ RefundsTypeOK /\ OneSubmitter /\ ReportsTrue
  /\ RefundHonoured /\ (money = "HELD" => reversals = 0)
=============================================================================
