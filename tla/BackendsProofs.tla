---------------------------- MODULE BackendsProofs ----------------------------
(***************************************************************************)
(* Proofs about the two backends.                                          *)
(*                                                                         *)
(* One order.  Every step of NestJS or of Laravel is one of a dozen moves  *)
(* of its rows (Quiet, Completes, Charges, PaidFreely, PaidUnder, Bought,  *)
(* Opens, GivesBack, Prepares, Succeeds, Fails, Begins, Pays): that it is  *)
(* one is shown step by step; that a move keeps LifeInv, and does to the   *)
(* money what Escrow lets happen to it, once for both backends.            *)
(*                                                                         *)
(* One refund and the checkouts of one payment in the Laravel backend      *)
(* have invariants of their own, RefundInv and OpenInv.                    *)
(***************************************************************************)
EXTENDS Backends, FiniteSetTheorems, WellFoundedInduction, TLAPS

(* One refund in the Laravel backend *)

\* At the request of the refund nothing has happened.
LEMMA RefundStarts == Refunds!RefundsInit => Refunds!RefundsInv
BY DEF Refunds!RefundsInit, Refunds!RefundsInv, Refunds!RefundsTypeOK, Refunds!OneSubmitter, Refunds!ReportsTrue,
       Refunds!RefundHonoured, Refunds!Idle, Refunds!Row, Refunds!Report, Refunds!Terminal, Refunds!At, Refunds!Submitting

WorkerRow == [at : Refunds!At, told : Refunds!Report, seen : Refunds!Row]

\* Worker w goes to at, knowing told; the others stay.
Moves(w, at, told) ==
  /\ worker' \in [Worker -> WorkerRow]
  /\ worker'[w].at = at /\ worker'[w].told = told
  /\ \A v \in Worker \ {w} : worker'[v] = worker[v]

LEMMA RowsOfWorkers == Refunds!Idle \in WorkerRow /\ Refunds!Idle.at = "IDLE"
BY DEF WorkerRow, Refunds!Idle, Refunds!At, Refunds!Report, Refunds!Row

\* What a write to the row of a worker leaves.
LEMMA Written ==
  ASSUME Refunds!RefundsTypeOK, NEW w \in Worker, NEW new \in WorkerRow, worker' = [worker EXCEPT ![w] = new]
  PROVE  Moves(w, new.at, new.told) /\ worker'[w] = new
BY DEF Moves, Refunds!RefundsTypeOK, WorkerRow

LEMMA GoesMoves ==
  ASSUME Refunds!RefundsTypeOK, NEW w \in Worker, NEW at \in Refunds!At, Refunds!Goes(w, at)
  PROVE  Moves(w, at, worker[w].told)
BY DEF Refunds!Goes, Moves, Refunds!RefundsTypeOK, WorkerRow

LEMMA ToldMoves ==
  ASSUME Refunds!RefundsTypeOK, NEW w \in Worker, NEW s \in Refunds!Report, Refunds!Told(w, s)
  PROVE  Moves(w, "TOLD", s)
<1> DEFINE new == [Refunds!Idle EXCEPT !.at = "TOLD", !.told = s]
<1>1. new \in WorkerRow /\ new.at = "TOLD" /\ new.told = s
  BY RowsOfWorkers DEF WorkerRow, Refunds!At
<1>2. worker' = [worker EXCEPT ![w] = new]
  BY DEF Refunds!Told
<1> HIDE DEF new
<1> QED BY <1>1, <1>2, Written

LEMMA RestsMoves ==
  ASSUME Refunds!RefundsTypeOK, NEW w \in Worker, Refunds!Rests(w)
  PROVE  Moves(w, "IDLE", Refunds!Idle.told) /\ worker'[w] = Refunds!Idle
BY RowsOfWorkers, Written DEF Refunds!Rests

LEMMA ReadMoves ==
  ASSUME Refunds!RefundsTypeOK, NEW w \in Worker, Refunds!ReadRefund(w)
  PROVE  Moves(w, "READ", worker[w].told)
<1> DEFINE new == [worker[w] EXCEPT !.at = "READ", !.seen = row]
<1>1. worker[w] \in WorkerRow /\ row \in Refunds!Row /\ "READ" \in Refunds!At
  BY DEF Refunds!RefundsTypeOK, WorkerRow, Refunds!At
<1>2. new \in WorkerRow /\ new.at = "READ" /\ new.told = worker[w].told
  BY <1>1 DEF WorkerRow
<1>3. worker' = [worker EXCEPT ![w] = new]
  BY DEF Refunds!ReadRefund, Refunds!RefundsTypeOK
<1> HIDE DEF new
<1> QED BY <1>2, <1>3, Written

\* The invariant, with the rows of the workers.
RefundInv ==
  /\ row \in Refunds!Row /\ money \in {"HELD", "RETURNED", "GIVEN_BACK"} /\ reversals \in Nat
  /\ provider \in Refunds!Report \cup {"NONE"} /\ announced \subseteq Refunds!Report
  /\ worker \in [Worker -> WorkerRow]
  /\ Refunds!OneSubmitter /\ Refunds!ReportsTrue
  /\ Refunds!RefundHonoured /\ (money = "HELD" => reversals = 0)

\* It is the refund's own invariant.
LEMMA RefundInvIsInv == Refunds!RefundsInv <=> RefundInv
BY DEF Refunds!RefundsInv, RefundInv, Refunds!RefundsTypeOK, WorkerRow

\* submit and submissionFailure, with the answer of PayMongo.
LEMMA SubmissionKeeps ==
  ASSUME RefundInv, NEW w \in Worker,
         \/ Refunds!Claim(w) \/ \E s \in Refunds!Report : Refunds!Created(w, s)
         \/ \E at \in Refunds!At : Refunds!NotCreated(w, at)
         \/ Refunds!SubmissionFailure(w) \/ Refunds!Stop(w)
  PROVE  RefundInv'
<1>0. Refunds!RefundsTypeOK
  BY RefundInvIsInv DEF Refunds!RefundsInv
<1> USE DEF RefundInv, Refunds!OneSubmitter, Refunds!ReportsTrue, Refunds!RefundHonoured,
            Refunds!Row, Refunds!Report, Refunds!Terminal, Refunds!At, Refunds!Submitting, Moves
<1>1. CASE Refunds!Claim(w)
  <2>1. Moves(w, "CLAIMED", worker[w].told)
    BY <1>0, <1>1, GoesMoves DEF Refunds!Claim
  <2>2. Refunds!OneSubmitter'
    BY <1>1, <2>1, RowsOfWorkers DEF Refunds!Claim
  <2>3. Refunds!ReportsTrue'
    BY <1>1, <2>1, RowsOfWorkers DEF Refunds!Claim
  <2> QED BY <1>1, <2>1, RowsOfWorkers, <2>2, <2>3 DEF Refunds!Claim
<1>2. ASSUME NEW s \in Refunds!Report, Refunds!Created(w, s) PROVE RefundInv'
  <2>1. Moves(w, "TOLD", s) \/ Moves(w, "UNKNOWN", worker[w].told)
    BY <1>0, <1>2, GoesMoves, ToldMoves DEF Refunds!Created
  <2>2. Refunds!OneSubmitter'
    BY <1>2, <2>1, RowsOfWorkers DEF Refunds!Created
  <2>3. Refunds!ReportsTrue'
    BY <1>2, <2>1, RowsOfWorkers DEF Refunds!Created
  <2> QED BY <1>2, <2>1, RowsOfWorkers, <2>2, <2>3 DEF Refunds!Created
<1>3. ASSUME NEW at \in Refunds!At, Refunds!NotCreated(w, at) PROVE RefundInv'
  <2>1. Moves(w, at, worker[w].told)
    BY <1>0, <1>3, GoesMoves DEF Refunds!NotCreated
  <2> QED BY <1>3, <2>1 DEF Refunds!NotCreated
<1>4. CASE Refunds!SubmissionFailure(w)
  <2>1. Moves(w, "IDLE", Refunds!Idle.told)
    BY <1>0, <1>4, RestsMoves DEF Refunds!SubmissionFailure
  <2>2. Refunds!OneSubmitter'
    BY <1>4, <2>1, RowsOfWorkers DEF Refunds!SubmissionFailure
  <2>3. Refunds!ReportsTrue'
    BY <1>4, <2>1, RowsOfWorkers DEF Refunds!SubmissionFailure
  <2> QED BY <1>4, <2>1, RowsOfWorkers, <2>2, <2>3 DEF Refunds!SubmissionFailure
<1>5. CASE Refunds!Stop(w)
  <2>1. Moves(w, "IDLE", Refunds!Idle.told)
    BY <1>0, <1>5, RestsMoves DEF Refunds!Stop
  <2>2. Refunds!OneSubmitter'
    BY <1>5, <2>1, RowsOfWorkers DEF Refunds!Stop
  <2> QED BY <1>5, <2>1, <2>2, RowsOfWorkers DEF Refunds!Stop
<1> QED BY <1>1, <1>2, <1>3, <1>4, <1>5

\* Webhooks, the reconciliation and apply.
LEMMA ReportKeeps ==
  ASSUME RefundInv,
         \/ \E s \in Refunds!Report : Refunds!ProviderMoves(s)
         \/ \E w \in Worker : \/ Refunds!Reconcile(w) \/ Refunds!ReadRefund(w) \/ Refunds!Apply(w)
                              \/ \E s \in Refunds!Report : Refunds!Webhook(w, s)
  PROVE  RefundInv'
<1>0. Refunds!RefundsTypeOK
  BY RefundInvIsInv DEF Refunds!RefundsInv
<1> USE DEF RefundInv, Refunds!OneSubmitter, Refunds!ReportsTrue, Refunds!RefundHonoured,
            Refunds!Row, Refunds!Report, Refunds!Terminal, Refunds!At, Refunds!Submitting, Moves
<1>1. ASSUME NEW s \in Refunds!Report, Refunds!ProviderMoves(s) PROVE RefundInv'
  BY <1>1 DEF Refunds!ProviderMoves
<1>2. ASSUME NEW w \in Worker, Refunds!Reconcile(w) PROVE RefundInv'
  <2>1. Moves(w, "TOLD", provider)
    BY <1>0, <1>2, ToldMoves DEF Refunds!Reconcile
  <2>2. Refunds!OneSubmitter'
    BY <1>2, <2>1, RowsOfWorkers DEF Refunds!Reconcile
  <2>3. Refunds!ReportsTrue'
    BY <1>2, <2>1, RowsOfWorkers DEF Refunds!Reconcile
  <2> QED BY <1>2, <2>1, RowsOfWorkers, <2>2, <2>3 DEF Refunds!Reconcile
<1>3. ASSUME NEW w \in Worker, Refunds!ReadRefund(w) PROVE RefundInv'
  <2>1. Moves(w, "READ", worker[w].told)
    BY <1>0, <1>3, ReadMoves
  <2> QED BY <1>3, <2>1, RowsOfWorkers DEF Refunds!ReadRefund
<1>4. ASSUME NEW w \in Worker, NEW s \in Refunds!Report, Refunds!Webhook(w, s) PROVE RefundInv'
  <2>1. Moves(w, "TOLD", s)
    BY <1>0, <1>4, ToldMoves DEF Refunds!Webhook
  <2>2. Refunds!OneSubmitter'
    BY <1>4, <2>1, RowsOfWorkers DEF Refunds!Webhook
  <2>3. Refunds!ReportsTrue'
    BY <1>4, <2>1, RowsOfWorkers DEF Refunds!Webhook
  <2> QED BY <1>4, <2>1, RowsOfWorkers, <2>2, <2>3 DEF Refunds!Webhook
<1>5. ASSUME NEW w \in Worker, Refunds!Apply(w) PROVE RefundInv'
  <2>1. Moves(w, "IDLE", Refunds!Idle.told) /\ worker'[w] = Refunds!Idle /\ worker[w].at = "READ"
    BY <1>0, <1>5, RestsMoves DEF Refunds!Apply
  <2> DEFINE s == worker[w].told
  <2>2. s \in announced /\ provider # "NONE" /\ row.status # "REQUESTED"
    BY <2>1, RowsOfWorkers
  <2>3. CASE UNCHANGED <<row, money, reversals>>
    BY <1>5, <2>1, <2>2, <2>3 DEF Refunds!Apply
  <2>4. CASE ~UNCHANGED <<row, money, reversals>>
    <3>1. row' = [status |-> Refunds!StatusOf[s], known |-> TRUE]
          /\ ~(s = "succeeded" /\ reversals > 0) /\ UNCHANGED <<provider, announced>>
      BY <1>5, <2>4 DEF Refunds!Apply
    <3>2. /\ money' = CASE s = "succeeded" -> "RETURNED" [] s = "failed" -> "GIVEN_BACK" [] OTHER -> money
          /\ reversals' = reversals + IF s = "succeeded" THEN 1 ELSE 0
      BY <1>5, <2>4, Zenon DEF Refunds!Apply
    <3>3. /\ s = "succeeded" => money' = "RETURNED"
          /\ s = "failed" => money' = "GIVEN_BACK"
          /\ s # "succeeded" /\ s # "failed" => money' = money
      <4> HIDE DEF s
      <4> QED BY <3>2, Zenon
    <3>4. IF s = "succeeded" THEN reversals' = reversals + 1 ELSE reversals' = reversals
      <4> HIDE DEF s
      <4> QED BY <3>2
    <3>5. s \in {"pending", "processing", "succeeded", "failed"}
      BY <2>2
    <3>6. row'.status \in {"PENDING", "PROCESSING", "SUCCEEDED", "FAILED"} /\ row'.known = TRUE
          /\ (row'.status \in Refunds!Terminal => s \in {"succeeded", "failed"})
      <4> HIDE DEF s
      <4> QED BY <3>1, <3>5 DEF Refunds!StatusOf
    <3>7. row' \in Refunds!Row
      BY <3>1, <3>5 DEF Refunds!StatusOf
    <3> HIDE DEF s
    <3>8. Refunds!OneSubmitter'
      BY <2>1, <2>2, <3>1, <3>6, <3>5
    <3>9. Refunds!ReportsTrue'
      BY <2>1, <2>2, <3>1, <3>6, <3>5
    <3>10. Refunds!RefundHonoured' /\ (money' = "HELD" => reversals' = 0)
      BY <2>2, <3>1, <3>6, <3>5, <3>3, <3>4
    <3> QED BY <2>1, <3>1, <3>5, <3>7, <3>8, <3>9, <3>10, <3>3, <3>4
  <2> QED BY <2>3, <2>4
<1> QED BY <1>1, <1>2, <1>3, <1>4, <1>5

-----------------------------------------------------------------------------
(* The checkouts of one order in the Laravel backend *)

Stage == {"IDLE", "LOOKED", "HAS", "CLAIMED", "ANSWERED", "REJECTED", "UNKNOWN"}

\* The invariant, with its types opened and the counting last.
CheckoutTypes ==
  /\ payment \in [Checkout!PaymentId -> Checkout!Payment]
  /\ sessions \in [Checkout!PaymentId -> Nat] /\ earned \in [Checkout!PaymentId -> Nat]
  /\ paid \subseteq Checkout!PaymentId /\ failed \subseteq Checkout!PaymentId
  /\ call \in [Call -> [at : Stage, of : 0 .. MaxPayments]]

SessionsCounted ==
  \A p \in Checkout!PaymentId :
    sessions[p] <= 1 /\ earned[p] = IF payment[p].status = "PAID" THEN 1 ELSE 0

OpenInv ==
  CheckoutTypes /\ Checkout!OneClaimer /\ Checkout!NoSessionYet /\ Checkout!OneOpen /\ SessionsCounted

\* A set whose members are all the same has one at most.
LEMMA AtMostOne == ASSUME NEW S, \A p, q \in S : p = q PROVE Cardinality(S) <= 1
<1>1. CASE S = {}
  BY <1>1, FS_EmptySet
<1>2. ASSUME NEW p \in S PROVE Cardinality(S) <= 1
  <2>1. S = {p}
    BY <1>2
  <2>2. Cardinality({p}) = 1
    BY FS_Singleton
  <2> QED BY <2>1, <2>2
<1> QED BY <1>1, <1>2

LEMMA OneIsCounted == Checkout!OneOpen => Cardinality(Checkout!OpenPayments) <= 1
BY AtMostOne DEF Checkout!OneOpen

\* Cardinality as the instance has it.
LEMMA SameCount == \A S : Checkout!Cardinality(S) = Cardinality(S)
BY Zenon DEF Checkout!Cardinality, Cardinality, Checkout!IsFiniteSet, IsFiniteSet

\* It implies the checkout's own invariant.
LEMMA OpenInvGives == OpenInv => Checkout!CheckoutInv
<1> SUFFICES ASSUME OpenInv PROVE Checkout!CheckoutInv
  OBVIOUS
<1>1. Checkout!CheckoutTypeOK
  BY DEF OpenInv, CheckoutTypes, Stage, Checkout!CheckoutTypeOK
<1>2. Checkout!OneSessionEach
  <2>1. Checkout!Cardinality(Checkout!OpenPayments) <= 1
    BY OneIsCounted, SameCount, Zenon DEF OpenInv
  <2> QED BY <2>1, Zenon DEF OpenInv, SessionsCounted, Checkout!OneSessionEach
<1> QED BY <1>1, <1>2 DEF OpenInv, Checkout!CheckoutInv

LEMMA CheckoutStarts == Checkout!CheckoutInit => OpenInv
<1> SUFFICES ASSUME Checkout!CheckoutInit PROVE OpenInv
  OBVIOUS
<1>1. Checkout!NoPayment \in Checkout!Payment /\ Checkout!NoPayment.status = "NONE" /\ ~Checkout!NoPayment.url
  BY DEF Checkout!NoPayment, Checkout!Payment
<1>2. Checkout!NoCall \in [at : Stage, of : 0 .. MaxPayments] /\ Checkout!NoCall.at = "IDLE"
  BY MaxPaymentsAssumption DEF Checkout!NoCall, Stage
<1>3. CheckoutTypes
  BY <1>1, <1>2 DEF Checkout!CheckoutInit, CheckoutTypes
<1>4. /\ \A p \in Checkout!PaymentId : payment[p].status = "NONE" /\ ~payment[p].url /\ sessions[p] = 0 /\ earned[p] = 0
      /\ \A c \in Call : call[c].at = "IDLE"
  BY <1>1, <1>2 DEF Checkout!CheckoutInit
<1> QED BY <1>3, <1>4 DEF OpenInv, SessionsCounted, Checkout!OneClaimer, Checkout!NoSessionYet,
       Checkout!OneOpen, Checkout!OpenPayments, Checkout!Open, Checkout!Claimed

\* A set of numbers that is not empty has a smallest one.
LEMMA Smallest ==
  ASSUME NEW S \in SUBSET Nat, S # {}
  PROVE  \E m \in S : \A n \in S : m <= n
<1> DEFINE Less == {ss \in Nat \X Nat : ss[1] < ss[2]}
<1>1. IsWellFoundedOn(Less, Nat)
  BY NatLessThanWellFounded DEF OpToRel
<1>2. \A m, n \in Nat : n < m => <<n, m>> \in Less
  OBVIOUS
<1> HIDE DEF Less
<1>3. PICK m \in S : \A n \in S : ~(<<n, m>> \in Less)
  BY <1>1, WFMin
<1>4. ASSUME NEW n \in S PROVE m <= n
  <2>1. n \in Nat /\ m \in Nat /\ ~(n < m)
    BY <1>2, <1>3
  <2> QED BY <2>1
<1> QED BY <1>3, <1>4

\* What the writes of a call leave.
CallIs(c, at, of) ==
  /\ call' \in [Call -> [at : Stage, of : 0 .. MaxPayments]]
  /\ call'[c].at = at /\ call'[c].of = of
  /\ \A d \in Call \ {c} : call'[d] = call[d]

LEMMA StepMoves ==
  ASSUME CheckoutTypes, NEW c \in Call, NEW from, NEW to \in Stage, Checkout!Step(c, from, to)
  PROVE  call[c].at = from /\ CallIs(c, to, call[c].of)
BY DEF CheckoutTypes, Checkout!Step, CallIs

LEMMA ReturnMoves ==
  ASSUME CheckoutTypes, NEW c \in Call, Checkout!Return(c)
  PROVE  CallIs(c, "IDLE", 0)
<1>1. Checkout!NoCall \in [at : Stage, of : 0 .. MaxPayments] /\ Checkout!NoCall.at = "IDLE" /\ Checkout!NoCall.of = 0
  BY MaxPaymentsAssumption DEF Checkout!NoCall, Stage
<1> QED BY <1>1 DEF CheckoutTypes, Checkout!Return, CallIs

LEMMA HasMoves ==
  ASSUME CheckoutTypes, NEW c \in Call, NEW p \in Checkout!PaymentId,
         call' = [call EXCEPT ![c] = [at |-> "HAS", of |-> p]]
  PROVE  CallIs(c, "HAS", p)
BY DEF CheckoutTypes, CallIs, Stage, Checkout!PaymentId

\* A call that does not claim anything and changes no payment.
LEMMA CallFrame ==
  ASSUME OpenInv, NEW c \in Call, NEW at \in Stage, NEW of \in 0 .. MaxPayments, CallIs(c, at, of),
         UNCHANGED <<payment, sessions, paid, failed, earned>>,
         at = "HAS" => of \in Checkout!PaymentId,
         at \in Checkout!Claimed => call[c].at \in Checkout!Claimed /\ of = call[c].of,
         at # "CLAIMED"
  PROVE  OpenInv'
<1>1. CheckoutTypes' /\ SessionsCounted' /\ Checkout!OneOpen'
  BY DEF OpenInv, CheckoutTypes, CallIs, Checkout!OneOpen, Checkout!OpenPayments, SessionsCounted
<1>2. Checkout!NoSessionYet'
  BY DEF OpenInv, CallIs, Checkout!NoSessionYet
<1>3. Checkout!OneClaimer'
  BY DEF OpenInv, CallIs, Checkout!OneClaimer, Checkout!Claimed
<1> QED BY <1>1, <1>2, <1>3 DEF OpenInv

\* Payments change, and no call does.
LEMMA PaymentFrame ==
  ASSUME CheckoutTypes, NEW p \in Checkout!PaymentId, NEW new \in Checkout!Payment, Checkout!Set(p, new)
  PROVE  /\ payment' \in [Checkout!PaymentId -> Checkout!Payment] /\ payment'[p] = new
         /\ \A q \in Checkout!PaymentId \ {p} : payment'[q] = payment[q]
BY DEF CheckoutTypes, Checkout!Set

\* FindOrOpen opens a payment only when none is open.
LEMMA OpenKeeps ==
  ASSUME OpenInv, NEW c \in Call, Checkout!FindOrOpen(c)
  PROVE  OpenInv'
<1>1. CheckoutTypes /\ call[c].at = "LOOKED" /\ UNCHANGED <<sessions, paid, failed, earned>>
  BY DEF OpenInv, Checkout!FindOrOpen, Checkout!Outside
<1>2. ASSUME NEW p \in Checkout!OpenPayments, call' = [call EXCEPT ![c] = [at |-> "HAS", of |-> p]], UNCHANGED payment
      PROVE  OpenInv'
  <2>1. p \in Checkout!PaymentId /\ p \in 0 .. MaxPayments
    BY DEF Checkout!OpenPayments, Checkout!PaymentId
  <2>2. CallIs(c, "HAS", p)
    BY <1>1, <1>2, <2>1, HasMoves
  <2> QED BY <1>1, <1>2, <2>1, <2>2, CallFrame DEF Stage, Checkout!Claimed
<1>3. ASSUME Checkout!OpenPayments = {}, Checkout!Unused # {}, NEW p,
             p = CHOOSE q \in Checkout!Unused : \A other \in Checkout!Unused : q <= other,
             Checkout!Set(p, [Checkout!NoPayment EXCEPT !.status = "PENDING"]),
             call' = [call EXCEPT ![c] = [at |-> "HAS", of |-> p]]
      PROVE  OpenInv'
  <2>1. Checkout!Unused \in SUBSET Nat
    BY DEF Checkout!Unused, Checkout!PaymentId
  <2>2. p \in Checkout!Unused
    BY <1>3, <2>1, Smallest
  <2>3. p \in Checkout!PaymentId /\ payment[p].status = "NONE"
    BY <2>2 DEF Checkout!Unused
  <2>4. CallIs(c, "HAS", p)
    BY <1>1, <1>3, <2>3, HasMoves
  <2> DEFINE new == [Checkout!NoPayment EXCEPT !.status = "PENDING"]
  <2>5. new \in Checkout!Payment /\ new.status = "PENDING" /\ ~new.url
    BY DEF Checkout!Payment, Checkout!NoPayment, Checkout!Open
  <2>6. Checkout!Set(p, new)
    BY <1>3
  <2> HIDE DEF new
  <2>7. /\ payment' \in [Checkout!PaymentId -> Checkout!Payment] /\ payment'[p] = new
        /\ \A q \in Checkout!PaymentId \ {p} : payment'[q] = payment[q]
    BY <1>1, <2>3, <2>5, <2>6, PaymentFrame
  <2>8. CheckoutTypes' /\ SessionsCounted'
    BY <1>1, <2>3, <2>4, <2>5, <2>7 DEF OpenInv, CheckoutTypes, SessionsCounted, CallIs
  <2>11. Checkout!NoSessionYet'
    BY <1>1, <2>3, <2>4, <2>5, <2>7 DEF OpenInv, Checkout!NoSessionYet, CallIs
  <2>9. Checkout!OneOpen'
    BY <1>3, <2>3, <2>7 DEF Checkout!OneOpen, Checkout!OpenPayments
  <2>10. Checkout!OneClaimer'
    BY <1>1, <2>3, <2>4, <2>5, <2>7 DEF OpenInv, Checkout!OneClaimer, Checkout!Claimed, CallIs
  <2> QED BY <2>8, <2>9, <2>10, <2>11 DEF OpenInv
<1> QED BY <1>1, <1>2, <1>3 DEF Checkout!FindOrOpen

\* Claim turns a payment from PENDING, and so leaves no other claimer.
LEMMA ClaimKeeps ==
  ASSUME OpenInv, NEW c \in Call, Checkout!Claim(c)
  PROVE  OpenInv'
<1> DEFINE p == call[c].of
           new == [payment[p] EXCEPT !.status = "REQUIRES_ACTION", !.unknown = FALSE]
<1>1. /\ CheckoutTypes /\ call[c].at = "HAS" /\ p \in Checkout!PaymentId
      /\ payment[p] \in Checkout!Payment /\ payment[p].status = "PENDING" /\ ~payment[p].url
      /\ UNCHANGED <<sessions, paid, failed, earned>>
  BY DEF OpenInv, CheckoutTypes, Checkout!OneClaimer, Checkout!Claim, Checkout!Outside
<1>2. CallIs(c, "CLAIMED", p)
  BY <1>1, StepMoves DEF Checkout!Claim, Stage
<1>3. new \in Checkout!Payment /\ new.status = "REQUIRES_ACTION" /\ ~new.url
  BY <1>1 DEF Checkout!Payment, Checkout!Open
<1>4. Checkout!Set(p, new)
  BY DEF Checkout!Claim
<1> HIDE DEF new, p
<1>5. /\ payment' \in [Checkout!PaymentId -> Checkout!Payment] /\ payment'[p] = new
      /\ \A q \in Checkout!PaymentId \ {p} : payment'[q] = payment[q]
  BY <1>1, <1>3, <1>4, PaymentFrame
<1>6. \A d \in Call : call[d].at \in Checkout!Claimed => call[d].of # p
  BY <1>1 DEF OpenInv, Checkout!OneClaimer
<1>7. sessions[p] = 0
  BY <1>1 DEF OpenInv, Checkout!NoSessionYet
<1>8. CheckoutTypes' /\ SessionsCounted'
  BY <1>1, <1>2, <1>3, <1>5 DEF OpenInv, CheckoutTypes, SessionsCounted, CallIs
<1>9. Checkout!NoSessionYet'
  BY <1>1, <1>2, <1>3, <1>5, <1>7 DEF OpenInv, Checkout!NoSessionYet, CallIs
<1>10. Checkout!OneOpen'
  BY <1>1, <1>5 DEF OpenInv, Checkout!OneOpen, Checkout!OpenPayments, Checkout!Open
<1>11. Checkout!OneClaimer'
  BY <1>1, <1>2, <1>3, <1>5, <1>6 DEF OpenInv, Checkout!OneClaimer, Checkout!Claimed, CallIs
<1> QED BY <1>8, <1>9, <1>10, <1>11 DEF OpenInv

\* The claimer opens the one session.
LEMMA CreateSessionKeeps ==
  ASSUME OpenInv, NEW c \in Call, NEW answered \in BOOLEAN, Checkout!CreateSession(c, answered)
  PROVE  OpenInv'
<1> DEFINE p == call[c].of
<1>1. /\ CheckoutTypes /\ call[c].at = "CLAIMED" /\ p \in Checkout!PaymentId /\ sessions[p] = 0
      /\ payment[p].status = "REQUIRES_ACTION" /\ UNCHANGED <<payment, paid, failed, earned>>
      /\ sessions' = [sessions EXCEPT ![p] = 1]
  <2>1. /\ CheckoutTypes /\ call[c].at = "CLAIMED" /\ UNCHANGED <<payment, paid, failed, earned>>
        /\ sessions' = [sessions EXCEPT ![p] = @ + 1]
    BY DEF OpenInv, Checkout!CreateSession, Checkout!Step
  <2>2. p \in Checkout!PaymentId /\ sessions[p] = 0 /\ payment[p].status = "REQUIRES_ACTION"
    BY <2>1 DEF OpenInv, Checkout!OneClaimer, Checkout!NoSessionYet, Checkout!Claimed
  <2> QED BY <2>1, <2>2
<1>2. CallIs(c, "ANSWERED", p) \/ CallIs(c, "UNKNOWN", p)
  BY <1>1, StepMoves DEF Checkout!CreateSession, Stage
<1> HIDE DEF p
<1>3. \A d \in Call \ {c} : call[d].at \in Checkout!Claimed => call[d].of # p
  BY <1>1 DEF OpenInv, Checkout!OneClaimer, Checkout!Claimed, p
<1>4. CheckoutTypes' /\ SessionsCounted'
  BY <1>1, <1>2 DEF OpenInv, CheckoutTypes, SessionsCounted, CallIs
<1>5. Checkout!NoSessionYet'
  BY <1>1, <1>2, <1>3 DEF OpenInv, CheckoutTypes, Checkout!NoSessionYet, CallIs, Checkout!Claimed
<1>6. Checkout!OneOpen'
  BY <1>1 DEF OpenInv, Checkout!OneOpen, Checkout!OpenPayments
<1>7. Checkout!OneClaimer'
  BY <1>1, <1>2, <1>3 DEF OpenInv, Checkout!OneClaimer, Checkout!Claimed, CallIs, p
<1> QED BY <1>4, <1>5, <1>6, <1>7 DEF OpenInv

\* What a call that returns does to the payment it has claimed.
LEMMA ReturnKeeps ==
  ASSUME OpenInv, NEW c \in Call, NEW new \in Checkout!Payment, CallIs(c, "IDLE", 0),
         call[c].at \in Checkout!Claimed, Checkout!Set(call[c].of, new),
         UNCHANGED <<sessions, paid, failed, earned>>,
         new.status \in {"REQUIRES_ACTION", "FAILED"}
  PROVE  OpenInv'
<1> DEFINE p == call[c].of
<1>1. CheckoutTypes /\ p \in Checkout!PaymentId /\ payment[p].status = "REQUIRES_ACTION"
  BY DEF OpenInv, Checkout!OneClaimer
<1>2. /\ payment' \in [Checkout!PaymentId -> Checkout!Payment] /\ payment'[p] = new
      /\ \A q \in Checkout!PaymentId \ {p} : payment'[q] = payment[q]
  BY <1>1, PaymentFrame
<1>3. \A d \in Call \ {c} : call[d].at \in Checkout!Claimed => call[d].of # p
  BY DEF OpenInv, Checkout!OneClaimer
<1> HIDE DEF p
<1>4. CheckoutTypes' /\ SessionsCounted'
  BY <1>1, <1>2 DEF OpenInv, CheckoutTypes, SessionsCounted, CallIs
<1>5. Checkout!NoSessionYet'
  BY <1>1, <1>2 DEF OpenInv, Checkout!NoSessionYet, CallIs
<1>6. Checkout!OneOpen'
  BY <1>1, <1>2 DEF OpenInv, Checkout!OneOpen, Checkout!OpenPayments, Checkout!Open
<1>7. Checkout!OneClaimer'
  BY <1>1, <1>2, <1>3 DEF OpenInv, Checkout!OneClaimer, Checkout!Claimed, CallIs
<1> QED BY <1>4, <1>5, <1>6, <1>7 DEF OpenInv

\* The claimer stores its session, if the payment is still waiting for it.
LEMMA StoreSessionKeeps ==
  ASSUME OpenInv, NEW c \in Call, Checkout!StoreSession(c)
  PROVE  OpenInv'
<1> DEFINE p == call[c].of
           new == [payment[p] EXCEPT !.url = (@ \/ payment[p].status = "REQUIRES_ACTION")]
<1>1. /\ CheckoutTypes /\ call[c].at \in Checkout!Claimed /\ UNCHANGED <<sessions, paid, failed, earned>>
      /\ Checkout!Return(c) /\ Checkout!Set(p, new)
  BY DEF OpenInv, Checkout!StoreSession, Checkout!Outside, Checkout!Claimed
<1>2. p \in Checkout!PaymentId /\ payment[p] \in Checkout!Payment /\ payment[p].status = "REQUIRES_ACTION"
  BY <1>1 DEF OpenInv, Checkout!OneClaimer, CheckoutTypes
<1>3. new \in Checkout!Payment /\ new.status = "REQUIRES_ACTION"
  BY <1>2 DEF Checkout!Payment
<1> HIDE DEF new
<1> QED BY <1>1, <1>3, ReturnMoves, ReturnKeeps

\* The claimer writes that it failed.
LEMMA CheckoutFailedKeeps ==
  ASSUME OpenInv, NEW c \in Call, Checkout!CheckoutFailed(c)
  PROVE  OpenInv'
<1> DEFINE p == call[c].of
           mine == payment[p].status = "REQUIRES_ACTION" /\ ~payment[p].url
           new == [payment[p] EXCEPT
                     !.status = IF mine /\ call[c].at = "REJECTED" THEN "FAILED" ELSE @,
                     !.unknown = (@ \/ (mine /\ call[c].at = "UNKNOWN"))]
<1>1. /\ CheckoutTypes /\ call[c].at \in Checkout!Claimed /\ UNCHANGED <<sessions, paid, failed, earned>>
      /\ Checkout!Return(c) /\ Checkout!Set(p, new)
  BY DEF OpenInv, Checkout!CheckoutFailed, Checkout!Outside, Checkout!Claimed
<1>2. p \in Checkout!PaymentId /\ payment[p] \in Checkout!Payment /\ payment[p].status = "REQUIRES_ACTION"
  BY <1>1 DEF OpenInv, Checkout!OneClaimer, CheckoutTypes
<1>3. new \in Checkout!Payment /\ new.status \in {"REQUIRES_ACTION", "FAILED"}
  BY <1>2 DEF Checkout!Payment
<1> HIDE DEF new
<1> QED BY <1>1, <1>3, ReturnMoves, ReturnKeeps

\* The steps that only move the call.
LEMMA CallsKeep ==
  ASSUME OpenInv, NEW c \in Call, Checkout!LookForSettled(c) \/ Checkout!Leave(c) \/ Checkout!NoSession(c)
  PROVE  OpenInv'
<1>0. CheckoutTypes /\ UNCHANGED <<payment, sessions, paid, failed, earned>>
  BY DEF OpenInv, Checkout!LookForSettled, Checkout!Leave, Checkout!NoSession, Checkout!Outside
<1>1. CASE Checkout!LookForSettled(c)
  <2>1. CallIs(c, "LOOKED", call[c].of) /\ call[c].of \in 0 .. MaxPayments
    BY <1>0, <1>1, StepMoves DEF Checkout!LookForSettled, Stage, CheckoutTypes
  <2> QED BY <1>0, <2>1, CallFrame DEF Stage, Checkout!Claimed
<1>2. CASE Checkout!Leave(c)
  <2>1. CallIs(c, "IDLE", 0) /\ 0 \in 0 .. MaxPayments
    BY <1>0, <1>2, ReturnMoves, MaxPaymentsAssumption DEF Checkout!Leave
  <2> QED BY <1>0, <2>1, CallFrame DEF Stage, Checkout!Claimed
<1>3. CASE Checkout!NoSession(c)
  <2>1. /\ CallIs(c, "REJECTED", call[c].of) \/ CallIs(c, "UNKNOWN", call[c].of)
        /\ call[c].at = "CLAIMED" /\ call[c].of \in 0 .. MaxPayments
    BY <1>0, <1>3, StepMoves DEF Checkout!NoSession, Stage, CheckoutTypes
  <2> QED BY <1>0, <2>1, CallFrame DEF Stage, Checkout!Claimed
<1> QED BY <1>1, <1>2, <1>3

\* The client pays or fails to, and PayMongo reports it.
LEMMA ReportsKeep ==
  ASSUME OpenInv, NEW p \in Checkout!PaymentId,
         Checkout!ClientPays(p) \/ Checkout!AttemptFails(p) \/ Checkout!Confirm(p) \/ Checkout!ConfirmFailure(p)
  PROVE  OpenInv'
<1>1. CASE Checkout!ClientPays(p) \/ Checkout!AttemptFails(p)
  BY <1>1 DEF OpenInv, CheckoutTypes, SessionsCounted, Checkout!OneClaimer, Checkout!NoSessionYet, Checkout!OneOpen,
              Checkout!OpenPayments, Checkout!ClientPays, Checkout!AttemptFails
<1>2. ASSUME NEW s \in {"PAID", "FAILED"}, payment[p].url, payment[p].status \in Checkout!Open,
             Checkout!Set(p, [payment[p] EXCEPT !.status = s]), UNCHANGED <<sessions, paid, failed, call>>,
             earned' = IF s = "PAID" THEN [earned EXCEPT ![p] = @ + 1] ELSE earned
      PROVE  OpenInv'
  <2> DEFINE new == [payment[p] EXCEPT !.status = s]
  <2>1. CheckoutTypes /\ payment[p] \in Checkout!Payment
    BY DEF OpenInv, CheckoutTypes
  <2>2. new \in Checkout!Payment /\ new.status = s
    BY <2>1 DEF Checkout!Payment
  <2>3. Checkout!Set(p, new)
    BY <1>2
  <2> HIDE DEF new
  <2>4. /\ payment' \in [Checkout!PaymentId -> Checkout!Payment] /\ payment'[p] = new
        /\ \A q \in Checkout!PaymentId \ {p} : payment'[q] = payment[q]
    BY <2>1, <2>2, <2>3, PaymentFrame
  <2>5. \A c \in Call : call[c].at \in Checkout!Claimed => call[c].of # p
    BY <1>2 DEF OpenInv, Checkout!OneClaimer
  <2>6. payment[p].status # "PAID" /\ earned[p] = 0
    BY <1>2 DEF OpenInv, SessionsCounted, Checkout!Open
  <2>7. CheckoutTypes'
    BY <1>2, <2>1, <2>4 DEF CheckoutTypes
  <2>8. SessionsCounted'
    BY <1>2, <2>1, <2>2, <2>4, <2>6 DEF OpenInv, SessionsCounted, CheckoutTypes
  <2>9. Checkout!NoSessionYet'
    BY <1>2, <2>2, <2>4 DEF OpenInv, Checkout!NoSessionYet
  <2>10. Checkout!OneOpen'
    BY <1>2, <2>2, <2>4 DEF OpenInv, Checkout!OneOpen, Checkout!OpenPayments, Checkout!Open
  <2>11. Checkout!OneClaimer'
    BY <1>2, <2>4, <2>5 DEF OpenInv, Checkout!OneClaimer, Checkout!Claimed
  <2> QED BY <2>7, <2>8, <2>9, <2>10, <2>11 DEF OpenInv
<1>3. CASE Checkout!Confirm(p)
  BY <1>2, <1>3 DEF Checkout!Confirm
<1>4. CASE Checkout!ConfirmFailure(p)
  BY <1>2, <1>4 DEF Checkout!ConfirmFailure
<1> QED BY <1>1, <1>3, <1>4

LEMMA CheckoutKeeps == OpenInv /\ Checkout!CheckoutNext => OpenInv'
BY OpenKeeps, ClaimKeeps, CreateSessionKeeps, StoreSessionKeeps, CheckoutFailedKeeps, CallsKeep, ReportsKeep
   DEF Checkout!CheckoutNext

-----------------------------------------------------------------------------
(* One order in both backends: its rows keep their types. *)

\* The NestJS modules are instanced: what they read of the rows is what is read here.
LEMMA SameRows ==
  /\ Nest!Delivery = Delivery /\ Nest!EarningKey = EarningKey /\ Nest!DisputeId = DisputeId
  /\ Nest!Original = Original /\ Nest!Reason = Reason /\ Nest!RevisionType = RevisionType
  /\ (Nest!ReviewIsCurrent <=> ReviewIsCurrent) /\ (Nest!PaidInFull <=> PaidInFull)
  /\ (Nest!ActiveDispute <=> ActiveDispute) /\ (Nest!ReviewCleared <=> ReviewCleared)
  /\ Nest!OpenRevisions = OpenRevisions /\ Nest!PendingRevisions = PendingRevisions
  /\ \A d : Nest!Claim(d) = Claim(d) /\ Nest!Included(d) = Included(d) /\ Nest!Extra(d) = Extra(d)
  /\ \A i : Nest!IsActive(i) <=> IsActive(i)
  /\ Nest!ActiveStatuses = ActiveStatuses /\ Nest!Waiting = Waiting
  /\ Nest!Restoring = Restoring /\ Nest!FinalStatuses = FinalStatuses
BY DEF Nest!Delivery, Delivery, Nest!EarningKey, EarningKey, Nest!DisputeId, DisputeId, Nest!Original, Original,
       Nest!Reason, Nest!ClientReason, Reason, Nest!RevisionType, RevisionType,
       Nest!ReviewIsCurrent, ReviewIsCurrent, Nest!PaidInFull, PaidInFull, Nest!ActiveDispute, ActiveDispute,
       Nest!ReviewCleared, ReviewCleared, Nest!OpenRevisions, OpenRevisions, Nest!PendingRevisions,
       PendingRevisions, Nest!Revisions, Revisions, Nest!Claim, Claim, Nest!Included, Included, Nest!Extra, Extra,
       Nest!IsActive, IsActive, Nest!ActiveStatuses, ActiveStatuses, Nest!Waiting, Waiting,
       Nest!Restoring, Restoring, Nest!FinalStatuses, FinalStatuses

\* The order is a purchase beside its deliveries.
LEMMA Keys ==
  /\ Original \in EarningKey /\ Original \notin Delivery /\ Delivery \subseteq EarningKey
  /\ \A k \in EarningKey : k # Original => k \in Delivery
  /\ EarningKey \subseteq Nat
BY LimitsAssumption DEF EarningKey, Original, Delivery

LEMMA LifeStarts == LifeInit => LifeTypeOK
<1> SUFFICES ASSUME LifeInit PROVE LifeTypeOK
  OBVIOUS
<1>1. TypeOK
  BY LimitsAssumption
  DEF LifeInit, LaravelInit, RowsInit, TypeOK, OrderStatus, CompletionSource, EarningKey, Original,
      Delivery, RevisionType, RevisionStatus, ChargeStatus, ActivationStatus, EarningStatus, DisputeRow, NoDispute,
      DisputeStatus, ActiveStatuses, Waiting, FinalStatuses, Restoring
<1>2. NoRefund \in RefundRow /\ NoPayout \in PayoutRow /\ NoPreparation \in Preparation
  BY Keys DEF NoRefund, RefundRow, NoPayout, PayoutRow, NoPreparation, Preparation, EarningStatus
<1> QED BY <1>1, <1>2 DEF LifeInit, LaravelInit, PayoutsInit, LifeTypeOK, LaravelTypeOK, PayoutsTypeOK

\* A dispute row stays a dispute row when only its status, or its time, moves.
LEMMA DisputeRowUpdates ==
  ASSUME NEW entry \in DisputeRow
  PROVE  /\ \A s \in DisputeStatus : [entry EXCEPT !.status = s] \in DisputeRow
         /\ \A s \in DisputeStatus :
              [entry EXCEPT !.status = s, !.left = ResponseWindow] \in DisputeRow
         /\ [entry EXCEPT !.left = IF @ > 0 THEN @ - 1 ELSE 0] \in DisputeRow
<1> USE LimitsAssumption DEF DisputeRow
<1>1. ASSUME NEW s \in DisputeStatus PROVE [entry EXCEPT !.status = s] \in DisputeRow
  OBVIOUS
<1>2. ASSUME NEW s \in DisputeStatus
      PROVE  [entry EXCEPT !.status = s, !.left = ResponseWindow] \in DisputeRow
  <2> DEFINE asked == [entry EXCEPT !.status = s]
  <2>1. asked \in DisputeRow
    BY <1>1
  <2>2. \A r \in DisputeRow : [r EXCEPT !.left = ResponseWindow] \in DisputeRow
    OBVIOUS
  <2>3. [entry EXCEPT !.status = s, !.left = ResponseWindow] = [asked EXCEPT !.left = ResponseWindow]
    OBVIOUS
  <2> QED
    BY <2>1, <2>2, <2>3, Zenon
<1>3. [entry EXCEPT !.left = IF @ > 0 THEN @ - 1 ELSE 0] \in DisputeRow
  OBVIOUS
<1> QED
  BY <1>1, <1>2, <1>3

\* The earning a dispute is about is an earning of the order, in Laravel ...
LEMMA LaravelTargetTyped ==
  TypeOK => TargetDelivery \in EarningKey /\ TargetPurchase \in EarningKey
<1> SUFFICES ASSUME TypeOK
             PROVE  TargetDelivery \in EarningKey /\ TargetPurchase \in EarningKey
  OBVIOUS
<1> DEFINE r == CHOOSE r \in PendingRevisions : TRUE
<1>1. CASE status = "REVISION_REQUESTED" /\ PendingRevisions # {}
  <2>1. r \in PendingRevisions
    BY <1>1
  <2>2. r \in Delivery \X RevisionType
    BY <2>1 DEF PendingRevisions, Revisions, TypeOK
  <2>3. r[1] \in Delivery
    BY <2>2
  <2> QED
    BY <1>1, <2>3, Keys DEF TargetDelivery, TargetPurchase
<1>2. CASE ~(status = "REVISION_REQUESTED" /\ PendingRevisions # {})
  BY <1>2, LimitsAssumption DEF TargetDelivery, TargetPurchase, TypeOK, EarningKey, Original
<1> QED
  BY <1>1, <1>2

\* ... and in NestJS.
LEMMA NestTargetTyped ==
  TypeOK => Nest!TargetDelivery \in EarningKey /\ Nest!TargetPurchase \in EarningKey
<1> SUFFICES ASSUME TypeOK
             PROVE  Nest!TargetDelivery \in EarningKey /\ Nest!TargetPurchase \in EarningKey
  OBVIOUS
<1> DEFINE r == CHOOSE r \in Nest!PendingRevisions : TRUE
<1>1. CASE status = "REVISION_REQUESTED" /\ Nest!PendingRevisions # {}
  <2>1. r \in PendingRevisions
    BY <1>1, SameRows
  <2>2. r \in Delivery \X RevisionType
    BY <2>1 DEF PendingRevisions, Revisions, TypeOK
  <2>3. r[1] \in Delivery
    BY <2>2
  <2> QED
    BY <1>1, <2>3, Keys DEF Nest!TargetDelivery, Nest!TargetPurchase, Nest!Original, Original
<1>2. CASE ~(status = "REVISION_REQUESTED" /\ Nest!PendingRevisions # {})
  BY <1>2, LimitsAssumption
  DEF Nest!TargetDelivery, Nest!TargetPurchase, TypeOK, EarningKey, Delivery, Original, Nest!Original
<1> QED
  BY <1>1, <1>2

\* Opening a dispute, whatever it is about.
DisputeRowOf(i, k, d) ==
  \E s \in Waiting :
    dispute' = [dispute EXCEPT ![i] =
      [status |-> s, left |-> ResponseWindow,
       target |-> k, targetDelivery |-> d, preFreeze |-> earning[k],
       paused |-> status = "SUBMITTED" /\ reviewDelivery # 0,
       remaining |-> IF status = "SUBMITTED" /\ reviewDelivery # 0 THEN reviewLeft ELSE 0]]

Opens(i, k, d) ==
  /\ DisputeRowOf(i, k, d)
  /\ dispute[i].status = "NONE" /\ ~ActiveDispute /\ Freezable(k)
  /\ earning' = [earning EXCEPT ![k] = IF @ = "NONE" THEN @ ELSE "FROZEN"]
  /\ UNCHANGED <<orderVars, reviewVars, workVars, charge, activation, refundVars, starting>>

\* Both backends open disputes that way.
LEMMA LaravelOpens ==
  ASSUME NEW i \in DisputeId, NEW by \in Parties, NEW escalation \in BOOLEAN, OpenDispute(i, by, escalation)
  PROVE  Opens(i, TargetPurchase, TargetDelivery)
<1>1. WaitingFor(CHOOSE p \in Parties : p # by) \in Waiting
  BY DEF WaitingFor, Waiting
<1> QED BY <1>1 DEF OpenDispute, Opens, DisputeRowOf

LEMMA NestOpens ==
  ASSUME NEW i \in DisputeId, NEW by \in Nest!Parties, NEW escalation \in BOOLEAN,
         Nest!OpenDispute(i, by, escalation), UNCHANGED <<refundVars, starting>>
  PROVE  Opens(i, Nest!TargetPurchase, Nest!TargetDelivery)
<1>1. Nest!WaitingFor(CHOOSE p \in Nest!Parties : p # by) \in Waiting
  BY DEF Nest!WaitingFor, Waiting
<1>2. \A k : Nest!Freezable(k) <=> Freezable(k)
  BY SameRows DEF Nest!Freezable, Freezable
<1>3. UNCHANGED <<orderVars, reviewVars, workVars, charge, activation, refundVars, starting>>
  BY DEF Nest!OpenDispute, Nest!orderVars, orderVars, Nest!reviewVars, reviewVars, Nest!workVars, workVars
<1>4. DisputeRowOf(i, Nest!TargetPurchase, Nest!TargetDelivery)
  BY <1>1 DEF Nest!OpenDispute, DisputeRowOf
<1>5. /\ dispute[i].status = "NONE" /\ ~ActiveDispute /\ Freezable(Nest!TargetPurchase)
      /\ earning' = [earning EXCEPT ![Nest!TargetPurchase] = IF @ = "NONE" THEN @ ELSE "FROZEN"]
  BY <1>2, SameRows DEF Nest!OpenDispute, Nest!Disputable
<1> QED BY <1>3, <1>4, <1>5 DEF Opens

LEMMA OpensTyped ==
  ASSUME LaravelTypeOK, NEW i \in DisputeId, NEW k \in EarningKey, NEW d \in EarningKey, Opens(i, k, d)
  PROVE  LaravelTypeOK'
<1> USE LimitsAssumption
<1>1. PICK s \in Waiting : dispute' = [dispute EXCEPT ![i] =
        [status |-> s, left |-> ResponseWindow,
         target |-> k, targetDelivery |-> d, preFreeze |-> earning[k],
         paused |-> status = "SUBMITTED" /\ reviewDelivery # 0,
         remaining |-> IF status = "SUBMITTED" /\ reviewDelivery # 0 THEN reviewLeft ELSE 0]]
  BY DEF Opens, DisputeRowOf
<1> DEFINE entry == [status |-> s, left |-> ResponseWindow,
                   target |-> k, targetDelivery |-> d, preFreeze |-> earning[k],
                   paused |-> status = "SUBMITTED" /\ reviewDelivery # 0,
                   remaining |-> IF status = "SUBMITTED" /\ reviewDelivery # 0 THEN reviewLeft ELSE 0]
<1>2. s \in DisputeStatus
  BY DEF DisputeStatus, ActiveStatuses
<1>3. earning[k] \in {"NONE", "PENDING", "AVAILABLE"}
  BY DEF Opens, Freezable
<1>4. entry \in DisputeRow
  BY <1>2, <1>3 DEF DisputeRow, LaravelTypeOK, TypeOK
<1>5. dispute' \in [DisputeId -> DisputeRow]
  BY <1>1, <1>4 DEF LaravelTypeOK, TypeOK
<1>6. earning' \in [EarningKey -> EarningStatus]
  BY DEF Opens, LaravelTypeOK, TypeOK, EarningStatus
<1> QED BY <1>5, <1>6 DEF Opens, LaravelTypeOK, TypeOK, orderVars, reviewVars, workVars, refundVars

-----------------------------------------------------------------------------
\* OrderService, DeliveryService and RevisionService of Laravel.
LEMMA LaravelOrdersTyped == LaravelTypeOK /\ LaravelOrdersNext => LaravelTypeOK'
<1> SUFFICES ASSUME LaravelTypeOK, LaravelOrdersNext PROVE LaravelTypeOK'
  OBVIOUS
<1> USE LimitsAssumption DEF LaravelTypeOK, TypeOK, EarningKey, Original, Delivery, refundVars
<1>a. ASSUME NEW from, NEW to \in OrderStatus, ChangeStatus(from, to), starting' \in BOOLEAN PROVE LaravelTypeOK'
  BY <1>a DEF ChangeStatus, reviewVars, workVars, moneyVars
<1>1. CASE Accept \/ Reject \/ Cancel
  <2>1. {"ACCEPTED", "REJECTED", "CANCELLED"} \subseteq OrderStatus
    BY DEF OrderStatus
  <2> QED BY <1>1, <1>a, <2>1 DEF Accept, Reject, Cancel
<1>2. CASE StartChecked \/ StartWritten
  <2>1. "IN_PROGRESS" \in OrderStatus
    BY DEF OrderStatus
  <2>2. starting' \in BOOLEAN
    BY <1>2 DEF StartChecked, StartWritten
  <2>3. CASE ChangeStatus("ACCEPTED", "IN_PROGRESS")
    BY <1>a, <2>1, <2>2, <2>3
  <2>4. CASE UNCHANGED <<rowVars, refundVars>>
    BY <2>2, <2>4 DEF rowVars, orderVars, reviewVars, workVars, moneyVars
  <2> QED BY <1>2, <2>3, <2>4 DEF StartChecked, StartWritten
<1>3. CASE DeliverFirst
  BY <1>3 DEF DeliverFirst, SubmitVersion, OrderStatus, CompletionSource, moneyVars
<1>4. ASSUME NEW r \in OpenRevisions, DeliverRevision(r) PROVE LaravelTypeOK'
  BY <1>4 DEF DeliverRevision, SubmitVersion, OrderStatus, CompletionSource, moneyVars,
              OpenRevisions, Revisions, RevisionStatus
<1>5. CASE RequestRevision
  BY <1>5 DEF RequestRevision, SendBack, Included, ActionableReview, ReviewIsCurrent, ReviewCleared, OrderStatus,
              RevisionType, RevisionStatus, moneyVars
<1>6. ASSUME NEW d \in Delivery, NEW s \in RevisionStatus, SetClaim(d, s) PROVE LaravelTypeOK'
  BY <1>6 DEF SetClaim, Claim, RevisionType, orderVars, reviewVars, moneyVars
<1>7. CASE RequestProviderCorrection
  <2>1. reviewDelivery \in Delivery /\ "AWAITING" \in RevisionStatus
    BY <1>7 DEF RequestProviderCorrection, ActionableReview, ReviewIsCurrent, RevisionStatus
  <2> QED BY <1>6, <1>7, <2>1 DEF RequestProviderCorrection
<1>8. ASSUME NEW d \in Delivery, AcceptProviderCorrection(d) PROVE LaravelTypeOK'
  BY <1>8 DEF AcceptProviderCorrection, SendBack, Claim, ReviewCleared, OrderStatus,
              RevisionType, RevisionStatus, moneyVars
<1>9. CASE Complete \/ ReconcileExpiredReview
  BY <1>9 DEF Complete, ReconcileExpiredReview, CompleteReviewedOrder, OrderStatus, CompletionSource,
              EarningStatus, reviewVars, workVars
<1> QED
  <2>1. "DECLINED" \in RevisionStatus
    BY DEF RevisionStatus
  <2> QED BY <1>1, <1>2, <1>3, <1>4, <1>5, <1>6, <1>7, <1>8, <1>9, <2>1
          DEF LaravelOrdersNext, Deliver, DecideProviderCorrection

\* DisputeService of Laravel, and time.
LEMMA LaravelDisputesTyped == LaravelTypeOK /\ (LaravelDisputesNext \/ LaravelTick) => LaravelTypeOK'
<1> SUFFICES ASSUME LaravelTypeOK, LaravelDisputesNext \/ LaravelTick PROVE LaravelTypeOK'
  OBVIOUS
<1>r. dispute \in [DisputeId -> DisputeRow] /\ \A i \in DisputeId : dispute[i] \in DisputeRow
  BY DEF LaravelTypeOK, TypeOK
<1>t. /\ "READY_FOR_REVIEW" \in DisputeStatus /\ "UNDER_REVIEW" \in DisputeStatus
      /\ FinalStatuses \subseteq DisputeStatus
      /\ \A party \in Parties : WaitingFor(party) \in DisputeStatus
  BY DEF DisputeStatus, ActiveStatuses, FinalStatuses, Restoring, Waiting, Parties, WaitingFor
<1>1. ASSUME NEW i \in DisputeId, NEW by \in Parties, NEW escalation \in BOOLEAN, OpenDispute(i, by, escalation)
      PROVE  LaravelTypeOK'
  BY <1>1, LaravelOpens, LaravelTargetTyped, OpensTyped DEF LaravelTypeOK
<1>2. ASSUME NEW i \in DisputeId, NEW new \in DisputeRow, SetDispute(i, new) PROVE LaravelTypeOK'
  BY <1>2, <1>r DEF SetDispute, LaravelTypeOK, TypeOK, orderVars, reviewVars, workVars, moneyVars, refundVars
<1>3. ASSUME NEW i \in DisputeId,
             \/ SubmitResponse(i) \/ ReconcileExpiredResponse(i) \/ MarkReady(i) \/ BeginReview(i)
             \/ \E party \in Parties : RequestResponse(i, party)
      PROVE  LaravelTypeOK'
  <2>1. \A s \in DisputeStatus :
          /\ [dispute[i] EXCEPT !.status = s] \in DisputeRow
          /\ [dispute[i] EXCEPT !.status = s, !.left = ResponseWindow] \in DisputeRow
    BY <1>r, DisputeRowUpdates
  <2>2. \E new \in DisputeRow : SetDispute(i, new)
    BY <1>3, <1>t, <2>1 DEF SubmitResponse, ReconcileExpiredResponse, MarkReady, BeginReview, RequestResponse, Ready
  <2> QED BY <1>2, <2>2
<1>4. ASSUME NEW i \in DisputeId, NEW decision \in FinalStatuses, Resolve(i, decision) PROVE LaravelTypeOK'
  <2>1. dispute' \in [DisputeId -> DisputeRow]
    <3>1. [dispute[i] EXCEPT !.status = decision] \in DisputeRow
      BY <1>r, <1>t, DisputeRowUpdates
    <3>2. dispute' = [dispute EXCEPT ![i] = [dispute[i] EXCEPT !.status = decision]]
      BY <1>4 DEF Resolve
    <3> QED BY <3>1, <3>2, <1>r
  <2>2. reviewLeft' \in 0 .. ReviewWindow
    BY <1>4, <1>r DEF Resolve, ResumeReview, DisputeRow, LaravelTypeOK, TypeOK
  <2>3. earning' \in [EarningKey -> EarningStatus]
    BY <1>4, <1>r DEF Resolve, RestoreEarning, DisputeRow, LaravelTypeOK, TypeOK, EarningStatus
  <2> QED BY <1>4, <2>1, <2>2, <2>3 DEF Resolve, LaravelTypeOK, TypeOK, orderVars, workVars, refundVars
<1>5. CASE LaravelTick
  <2>1. dispute' \in [DisputeId -> DisputeRow]
    BY <1>5, <1>r, DisputeRowUpdates DEF LaravelTick
  <2>2. reviewLeft' \in 0 .. ReviewWindow
    BY <1>5, LimitsAssumption DEF LaravelTick, LaravelTypeOK, TypeOK
  <2> QED BY <1>5, <2>1, <2>2 DEF LaravelTick, LaravelTypeOK, TypeOK, orderVars, workVars, moneyVars, refundVars
<1> QED BY <1>1, <1>3, <1>4, <1>5 DEF LaravelDisputesNext

LEMMA RevisionPaidTyped ==
  ASSUME LaravelTypeOK, NEW d \in Delivery, NEW paidInTime \in BOOLEAN, MarkRevisionPaid(d, paidInTime)
  PROVE  LaravelTypeOK'
<1> USE LimitsAssumption DEF LaravelTypeOK, TypeOK, EarningKey, Original, Delivery
<1>1. CASE CanActivate(d, paidInTime)
  <2>1. /\ status' = "REVISION_REQUESTED" /\ reviewDelivery' = 0 /\ reviewLeft' = 0
        /\ revision' = [revision EXCEPT ![Extra(d)] = "OPEN"]
        /\ activation' = [activation EXCEPT ![d] = "ACTIVATED"]
        /\ earning' = [earning EXCEPT ![d] = "PENDING"]
        /\ charge' = [charge EXCEPT ![d] = "PAID"]
        /\ UNCHANGED <<revisionsUsed, completionSource, delivered, answers, dispute, refund, refused, starting>>
    BY <1>1 DEF MarkRevisionPaid, SendBack, ReviewCleared, refundVars
  <2> QED BY <2>1 DEF Extra, ChargeStatus, ActivationStatus, EarningStatus, OrderStatus, RevisionType, RevisionStatus
<1>2. CASE ~CanActivate(d, paidInTime)
  BY <1>2 DEF MarkRevisionPaid, ChargeStatus, ActivationStatus, reviewVars, refundVars
<1> QED BY <1>1, <1>2

LEMMA RefundRowTyped ==
  ASSUME NEW r \in RefundRow, NEW s \in {"NONE", "ACTIVE", "SUCCEEDED", "FAILED"}
  PROVE  [r EXCEPT !.stage = s] \in RefundRow
BY DEF RefundRow

LEMMA PrepareTyped ==
  ASSUME LaravelTypeOK, NEW k \in EarningKey, NEW reason \in Reason, NEW seen \in EarningStatus,
         Prepare(k, reason, seen), status' \in OrderStatus
  PROVE  LaravelTypeOK'
<1> DEFINE new == [stage |-> "ACTIVE", reason |-> reason, pre |-> IF seen = "NONE" THEN "FROZEN" ELSE seen]
<1>1. new \in RefundRow
  BY DEF RefundRow, EarningStatus
<1>2. refund' \in [EarningKey -> RefundRow]
  BY <1>1 DEF Prepare, LaravelTypeOK
<1> QED BY <1>2 DEF Prepare, LaravelTypeOK, TypeOK, ChargeStatus, EarningStatus, reviewVars, workVars

LEMMA RefundEndsTyped ==
  ASSUME LaravelTypeOK, NEW k \in EarningKey, RefundSucceeds(k) \/ RefundFails(k), refund[k].reason \in Reason
  PROVE  LaravelTypeOK'
<1>1. refund[k] \in RefundRow
  BY DEF LaravelTypeOK
<1>2. refund' \in [EarningKey -> RefundRow]
  <2>1. [refund[k] EXCEPT !.stage = "SUCCEEDED"] \in RefundRow /\ [refund[k] EXCEPT !.stage = "FAILED"] \in RefundRow
    BY <1>1, RefundRowTyped
  <2>2. \/ refund' = [refund EXCEPT ![k] = [refund[k] EXCEPT !.stage = "SUCCEEDED"]]
        \/ refund' = [refund EXCEPT ![k] = [refund[k] EXCEPT !.stage = "FAILED"]]
    BY DEF RefundSucceeds, RefundFails
  <2> QED BY <2>1, <2>2 DEF LaravelTypeOK
<1>3. refund[k].stage = "ACTIVE" => refund[k].pre \in EarningStatus
  BY <1>1 DEF RefundRow
<1>4. CASE RefundSucceeds(k)
  <2>1. activation' \in [Delivery -> ActivationStatus]
    BY <1>4 DEF RefundSucceeds, LaravelTypeOK, TypeOK, ActivationStatus
  <2>2. charge' \in [EarningKey -> ChargeStatus] /\ earning' \in [EarningKey -> EarningStatus]
    BY <1>4 DEF RefundSucceeds, LaravelTypeOK, TypeOK, ChargeStatus, EarningStatus
  <2> QED BY <1>2, <1>4, <2>1, <2>2 DEF RefundSucceeds, LaravelTypeOK, TypeOK, orderVars, reviewVars, workVars
<1>5. CASE RefundFails(k)
  <2>1. charge' \in [EarningKey -> ChargeStatus]
    BY <1>5 DEF RefundFails, LaravelTypeOK, TypeOK, ChargeStatus
  <2>2. earning' \in [EarningKey -> EarningStatus]
    <3>1. earning[k] \in EarningStatus
      BY DEF LaravelTypeOK, TypeOK
    <3> QED BY <1>1, <1>3, <1>5, <3>1 DEF RefundFails, LaravelTypeOK, TypeOK
  <2>3. refused' \in [EarningKey -> SUBSET Reason]
    <3>1. refused[k] \cup {refund[k].reason} \in SUBSET Reason
      BY DEF LaravelTypeOK
    <3> QED BY <1>5, <3>1 DEF RefundFails, LaravelTypeOK
  <2> QED BY <1>2, <1>5, <2>1, <2>2, <2>3 DEF RefundFails, LaravelTypeOK, TypeOK, orderVars, reviewVars, workVars
<1> QED BY <1>4, <1>5

\* PaymentService and RefundService of Laravel.
LEMMA LaravelPaymentsTyped ==
  ASSUME LaravelTypeOK, \A k \in EarningKey : refund[k].stage = "ACTIVE" => refund[k].reason \in Reason,
         LaravelPaymentsNext
  PROVE  LaravelTypeOK'
<1>1. ASSUME NEW k \in EarningKey, NEW s \in ChargeStatus, SetCharge(k, s) PROVE LaravelTypeOK'
  BY <1>1 DEF SetCharge, LaravelTypeOK, TypeOK, orderVars, reviewVars, workVars, refundVars
<1>2. CASE CreateCheckout \/ CreateExtraRevisionCheckout \/ \E k \in EarningKey : PaymentFailed(k)
  <2>1. "REQUIRES_ACTION" \in ChargeStatus /\ "FAILED" \in ChargeStatus
    BY DEF ChargeStatus
  <2>2. reviewDelivery \in EarningKey
    BY DEF LaravelTypeOK, TypeOK
  <2> QED BY <1>1, <1>2, <2>1, <2>2, Keys DEF CreateCheckout, CreateExtraRevisionCheckout, PaymentFailed
<1>3. CASE MarkPaid
  BY <1>3 DEF MarkPaid, LaravelTypeOK, TypeOK, ChargeStatus, EarningStatus, orderVars, reviewVars, workVars, refundVars
<1>4. ASSUME NEW reason \in Reason, RequestRefund(reason) PROVE LaravelTypeOK'
  <2>1. earning[Original] \in EarningStatus /\ "CANCELLED" \in OrderStatus
    BY Keys DEF LaravelTypeOK, TypeOK, OrderStatus
  <2> QED BY <1>4, <2>1, PrepareTyped, Keys DEF RequestRefund
<1> QED BY <1>2, <1>3, <1>4, RevisionPaidTyped, RefundEndsTyped
        DEF LaravelPaymentsNext, RefundSucceeds, RefundFails

LEMMA PayoutRowTyped ==
  ASSUME NEW r \in PayoutRow, NEW s \in {"REJECTED", "CANCELLED", "PAID"} \cup LivePayout
  PROVE  [r EXCEPT !.status = s] \in PayoutRow
BY DEF PayoutRow

\* ProviderPayoutService.
LEMMA PayoutsTyped ==
  ASSUME LaravelTypeOK, PayoutsTypeOK, LaravelPayoutsNext
  PROVE  LaravelTypeOK' /\ PayoutsTypeOK'
<1> SUFFICES ASSUME NEW p \in PayoutId,
                    \/ RequestPayout(p) \/ ApprovePayout(p) \/ BeginManual(p) \/ SettleManual(p)
                    \/ \E final \in {"REJECTED", "CANCELLED"} : ReleaseReservation(p, final)
             PROVE  LaravelTypeOK' /\ PayoutsTypeOK'
  BY DEF LaravelPayoutsNext
<1>1. payout[p] \in PayoutRow
  BY DEF PayoutsTypeOK
<1>2. PayoutsTypeOK'
  <2>1. \A s \in {"REJECTED", "CANCELLED", "PAID"} \cup LivePayout : [payout[p] EXCEPT !.status = s] \in PayoutRow
    BY <1>1, PayoutRowTyped
  <2>2. CASE RequestPayout(p)
    <3> DEFINE new == [status |-> "REQUESTED", items |-> {k \in EarningKey : Withdrawable(k)}]
    <3>1. new \in PayoutRow
      BY DEF PayoutRow, LivePayout
    <3>2. payout' = [payout EXCEPT ![p] = new]
      BY <2>2 DEF RequestPayout
    <3> QED BY <3>1, <3>2 DEF PayoutsTypeOK
  <2>3. CASE ~RequestPayout(p)
    <3>1. PICK s \in {"REJECTED", "CANCELLED", "PAID"} \cup LivePayout :
            payout' = [payout EXCEPT ![p] = [payout[p] EXCEPT !.status = s]]
      BY <2>3 DEF ApprovePayout, BeginManual, AdvancePayout, SettleManual, ReleaseReservation, LivePayout
    <3> QED BY <2>1, <3>1 DEF PayoutsTypeOK
  <2> QED BY <2>2, <2>3
<1>3. OnlyEarnings
  BY DEF RequestPayout, ApprovePayout, BeginManual, AdvancePayout, SettleManual, ReleaseReservation
<1>4. earning' \in [EarningKey -> EarningStatus]
  <2>1. ASSUME NEW items \in SUBSET EarningKey, NEW s \in EarningStatus, SetEarnings(items, s)
        PROVE  earning' \in [EarningKey -> EarningStatus]
    BY <2>1 DEF SetEarnings, LaravelTypeOK, TypeOK
  <2>2. payout[p].items \in SUBSET EarningKey
    BY <1>1 DEF PayoutRow
  <2>3. {k \in EarningKey : Withdrawable(k)} \in SUBSET EarningKey
    OBVIOUS
  <2>4. {"PAYOUT_PROCESSING", "AVAILABLE", "PAID_OUT"} \subseteq EarningStatus
    BY DEF EarningStatus
  <2>5. CASE RequestPayout(p)
    BY <2>1, <2>3, <2>4, <2>5 DEF RequestPayout
  <2>6. CASE SettleManual(p) \/ \E final \in {"REJECTED", "CANCELLED"} : ReleaseReservation(p, final)
    BY <2>1, <2>2, <2>4, <2>6 DEF SettleManual, ReleaseReservation
  <2>7. CASE ApprovePayout(p) \/ BeginManual(p)
    BY <2>7 DEF ApprovePayout, BeginManual, AdvancePayout, LaravelTypeOK, TypeOK
  <2> QED BY <2>5, <2>6, <2>7
<1> QED BY <1>2, <1>3, <1>4 DEF OnlyEarnings, LaravelTypeOK, TypeOK, orderVars, reviewVars, workVars, refundVars

\* Every step of the Laravel backend.
LEMMA LaravelTyped ==
  ASSUME LifeTypeOK, LifeNext, preparing.reason \in Reason \/ preparing = NoPreparation,
         \A k \in EarningKey : refund[k].stage = "ACTIVE" => refund[k].reason \in Reason
  PROVE  LifeTypeOK'
<1> USE DEF LifeTypeOK
<1>1. CASE OnTheOrder(LaravelOrdersNext) \/ OnTheOrder(LaravelDisputesNext) \/ OnTheOrder(LaravelTick)
  BY <1>1, LaravelOrdersTyped, LaravelDisputesTyped DEF OnTheOrder, PayoutsTypeOK
<1>2. CASE OnTheOrder(LaravelPaymentsNext)
  BY <1>2, LaravelPaymentsTyped DEF OnTheOrder, PayoutsTypeOK
<1>3. ASSUME NEW k \in EarningKey, NEW reason \in Reason, BeginAdminRefund(k, reason), UNCHANGED payout
      PROVE  LifeTypeOK'
  <2>1. [key |-> k, reason |-> reason, seen |-> earning[k]] \in Preparation
    BY DEF Preparation, LaravelTypeOK, TypeOK
  <2> QED BY <1>3, <2>1 DEF BeginAdminRefund, laravelVars, refundVars, rowVars, orderVars, reviewVars, workVars, moneyVars,
                         PayoutsTypeOK, LaravelTypeOK, TypeOK
<1>4. CASE PrepareAdminRefund /\ UNCHANGED payout
  <2>1. preparing.key \in EarningKey /\ preparing.seen \in EarningStatus
    BY DEF Preparation
  <2>2. status' \in OrderStatus
    BY <1>4 DEF PrepareAdminRefund, LaravelTypeOK, TypeOK
  <2>3. preparing' \in Preparation
    BY <1>4, Keys DEF PrepareAdminRefund, NoPreparation, Preparation, EarningStatus
  <2> QED BY <1>4, <2>1, <2>2, <2>3, PrepareTyped DEF PrepareAdminRefund, PayoutsTypeOK
<1>5. CASE LaravelPayoutsNext /\ UNCHANGED preparing
  BY <1>5, PayoutsTyped
<1> QED BY <1>1, <1>2, <1>3, <1>4, <1>5 DEF LifeNext

-----------------------------------------------------------------------------
\* OrdersService of NestJS.
LEMMA NestOrdersTyped ==
  ASSUME LaravelTypeOK, Nest!OrdersNext, UNCHANGED <<refundVars, starting>>
  PROVE  LaravelTypeOK'
<1> USE LimitsAssumption, SameRows
    DEF LaravelTypeOK, TypeOK, refundVars, Nest!orderVars, Nest!reviewVars, Nest!workVars, Nest!moneyVars
<1>r. EarningKey = {0} \cup Delivery /\ Delivery = 1 .. MaxDeliveries
  BY DEF EarningKey, Original, Delivery
<1>1. CASE Nest!Accept \/ Nest!Reject \/ Nest!Cancel \/ Nest!Start
  BY <1>1 DEF Nest!Accept, Nest!Reject, Nest!Cancel, Nest!Start, OrderStatus
<1>2. CASE Nest!DeliverFirst
  BY <1>2, <1>r DEF Nest!DeliverFirst, Nest!SubmitVersion, OrderStatus, CompletionSource
<1>3. ASSUME NEW r \in Nest!OpenRevisions, Nest!DeliverRevision(r) PROVE LaravelTypeOK'
  BY <1>3, <1>r DEF Nest!DeliverRevision, Nest!SubmitVersion, OrderStatus, CompletionSource,
              OpenRevisions, Revisions, RevisionStatus
<1>4. CASE Nest!RequestRevision
  BY <1>4, <1>r DEF Nest!RequestRevision, Included, Nest!ActionableReview, ReviewIsCurrent, ReviewCleared, OrderStatus,
              RevisionType, RevisionStatus
<1>5. CASE Nest!RequestProviderCorrection
  BY <1>5, <1>r DEF Nest!RequestProviderCorrection, Claim, Nest!ActionableReview, ReviewIsCurrent,
              RevisionType, RevisionStatus
<1>6. ASSUME NEW d \in Delivery, Nest!AcceptProviderCorrection(d) PROVE LaravelTypeOK'
  BY <1>6, <1>r DEF Nest!AcceptProviderCorrection, Claim, ReviewCleared, OrderStatus,
              RevisionType, RevisionStatus
<1>7. ASSUME NEW d \in Delivery, Nest!DeclineProviderCorrection(d) PROVE LaravelTypeOK'
  BY <1>7 DEF Nest!DeclineProviderCorrection, Claim, RevisionType, RevisionStatus
<1>8. CASE Nest!Complete \/ Nest!ReconcileExpiredReview
  BY <1>8 DEF Nest!Complete, Nest!ReconcileExpiredReview, Nest!CompleteReviewedOrder, OrderStatus, CompletionSource,
              EarningStatus
<1> QED
  BY <1>1, <1>2, <1>3, <1>4, <1>5, <1>6, <1>7, <1>8
  DEF Nest!OrdersNext, Nest!Deliver, Nest!DecideProviderCorrection

\* PaymentsService of NestJS.
LEMMA NestLedgerTyped ==
  ASSUME LaravelTypeOK, Nest!LedgerNext, UNCHANGED <<refundVars, starting>>
  PROVE  LaravelTypeOK'
<1> USE SameRows
    DEF LaravelTypeOK, TypeOK, refundVars, Nest!orderVars, Nest!reviewVars, Nest!workVars, Nest!moneyVars
<1>1. CASE Nest!CreateCheckout
  BY <1>1 DEF Nest!CreateCheckout, ChargeStatus
<1>2. CASE Nest!CreateExtraRevisionCheckout
  BY <1>2 DEF Nest!CreateExtraRevisionCheckout, ChargeStatus
<1>3. CASE Nest!MarkPaid
  <2>1. ASSUME NEW i \in DisputeId PROVE Nest!FrozenRow(i) \in DisputeRow
    <3>1. dispute[i] \in DisputeRow
      OBVIOUS
    <3> QED
      BY <3>1 DEF Nest!FrozenRow, DisputeRow
  <2> QED
    BY <1>3, <2>1 DEF Nest!MarkPaid, ChargeStatus, EarningStatus
<1>4. ASSUME NEW d \in Delivery, NEW paidInTime \in BOOLEAN, Nest!MarkRevisionPaid(d, paidInTime)
      PROVE  LaravelTypeOK'
  <2>1. Nest!CanActivate(d, paidInTime) <=> CanActivate(d, paidInTime)
    BY DEF Nest!CanActivate, CanActivate
  <2>2. MarkRevisionPaid(d, paidInTime)
    BY <1>4, <2>1 DEF Nest!MarkRevisionPaid, MarkRevisionPaid, SendBack, Nest!PossiblyInTime, reviewVars
  <2> QED BY <2>2, RevisionPaidTyped
<1>5. ASSUME NEW k \in EarningKey, Nest!PaymentFailed(k) PROVE LaravelTypeOK'
  BY <1>5 DEF Nest!PaymentFailed, ChargeStatus
<1> QED
  BY <1>1, <1>2, <1>3, <1>4, <1>5 DEF Nest!LedgerNext

\* Most steps of a dispute, of the clock and of a refund are the same in both backends.
LEMMA NestTwins ==
  ASSUME UNCHANGED starting
  PROVE  /\ UNCHANGED refundVars => \A i \in DisputeId :
              /\ Nest!SubmitResponse(i) => SubmitResponse(i)
              /\ Nest!ReconcileExpiredResponse(i) => ReconcileExpiredResponse(i)
              /\ Nest!MarkReady(i) => MarkReady(i)
              /\ Nest!BeginReview(i) => BeginReview(i)
              /\ \A decision \in FinalStatuses : Nest!Resolve(i, decision) => Resolve(i, decision)
         /\ UNCHANGED refundVars /\ Nest!Tick => LaravelTick
         /\ \A k \in EarningKey :
              /\ Nest!RefundSucceeds(k) => RefundSucceeds(k)
              /\ Nest!RefundFails(k) => RefundFails(k)
<1> USE SameRows
    DEF Nest!orderVars, Nest!reviewVars, Nest!workVars, Nest!moneyVars, orderVars, reviewVars, workVars, moneyVars
<1>1. ASSUME UNCHANGED refundVars, NEW i \in DisputeId
      PROVE  /\ Nest!SubmitResponse(i) => SubmitResponse(i)
             /\ Nest!ReconcileExpiredResponse(i) => ReconcileExpiredResponse(i)
             /\ Nest!MarkReady(i) => MarkReady(i)
             /\ Nest!BeginReview(i) => BeginReview(i)
  BY <1>1 DEF Nest!SubmitResponse, Nest!Answerable, SubmitResponse, Nest!ReconcileExpiredResponse, ReconcileExpiredResponse,
              Nest!MarkReady, MarkReady, Nest!BeginReview, BeginReview, Nest!SetStatus, SetDispute, Ready
<1>2. ASSUME UNCHANGED refundVars, NEW i \in DisputeId, NEW decision \in FinalStatuses, Nest!Resolve(i, decision)
      PROVE  Resolve(i, decision)
  BY <1>2 DEF Nest!Resolve, Resolve, Nest!RestoreEarning, RestoreEarning, Nest!ResumeReview, ResumeReview,
              Nest!SetStatus
<1>3. ASSUME UNCHANGED refundVars, Nest!Tick PROVE LaravelTick
  BY <1>3 DEF Nest!Tick, LaravelTick, Nest!Sooner
<1>4. ASSUME NEW k \in EarningKey
      PROVE  (Nest!RefundSucceeds(k) => RefundSucceeds(k)) /\ (Nest!RefundFails(k) => RefundFails(k))
  BY <1>4 DEF Nest!RefundSucceeds, RefundSucceeds, Nest!RefundFails, RefundFails
<1> QED BY <1>1, <1>2, <1>3, <1>4

LEMMA NestAsks ==
  ASSUME UNCHANGED <<refundVars, starting>>, NEW i \in DisputeId, NEW party, Nest!RequestResponse(i, party)
  PROVE  RequestResponse(i, party)
<1>1. Nest!WaitingFor(party) = WaitingFor(party)
  BY DEF Nest!WaitingFor, WaitingFor
<1>2. dispute' = [dispute EXCEPT ![i] = [dispute[i] EXCEPT !.status = WaitingFor(party), !.left = ResponseWindow]]
  BY <1>1 DEF Nest!RequestResponse
<1> QED BY <1>2, SameRows DEF Nest!RequestResponse, RequestResponse, SetDispute,
        Nest!orderVars, Nest!reviewVars, Nest!workVars, Nest!moneyVars, orderVars, reviewVars, workVars, moneyVars

\* DisputesService of NestJS.
LEMMA NestDisputesTyped ==
  ASSUME LaravelTypeOK, Nest!DisputesNext, UNCHANGED <<refundVars, starting>>
  PROVE  LaravelTypeOK'
<1>1. ASSUME NEW i \in DisputeId, NEW by \in Nest!Parties, NEW escalation \in BOOLEAN,
             Nest!OpenDispute(i, by, escalation)
      PROVE  LaravelTypeOK'
  BY <1>1, NestOpens, NestTargetTyped, OpensTyped DEF LaravelTypeOK
<1>2. Nest!Parties = Parties
  BY DEF Nest!Parties, Parties
<1>3. ASSUME NEW i \in DisputeId,
             \/ Nest!SubmitResponse(i) \/ Nest!ReconcileExpiredResponse(i) \/ Nest!MarkReady(i) \/ Nest!BeginReview(i)
             \/ \E party \in Parties : Nest!RequestResponse(i, party)
             \/ \E decision \in FinalStatuses : Nest!Resolve(i, decision)
      PROVE  LaravelTypeOK'
  BY <1>3, NestTwins, NestAsks, LaravelDisputesTyped DEF LaravelDisputesNext
<1> QED BY <1>1, <1>2, <1>3, SameRows DEF Nest!DisputesNext

\* The refund of NestJS is prepared as Laravel's is.
LEMMA NestPrepares ==
  ASSUME LaravelTypeOK, NEW k \in EarningKey, NEW reason \in Reason, Nest!PrepareRefund(k, reason), UNCHANGED starting
  PROVE  Prepare(k, reason, earning[k]) /\ status' = IF reason \in Nest!ClientReason THEN "CANCELLED" ELSE status
BY DEF Nest!PrepareRefund, Prepare, Nest!FoundAs, Nest!reviewVars, Nest!workVars, reviewVars, workVars

\* Every step of the NestJS backend.
LEMMA NestTyped ==
  ASSUME LifeTypeOK, Nest!SettlementNext, UNCHANGED <<starting, preparing, payout>>,
         \A k \in EarningKey : refund[k].stage = "ACTIVE" => refund[k].reason \in Reason
  PROVE  LifeTypeOK'
<1>1. PayoutsTypeOK' /\ preparing' \in Preparation /\ LaravelTypeOK
  BY DEF LifeTypeOK, PayoutsTypeOK
<1>2. ASSUME Nest!Next, UNCHANGED refundVars PROVE LaravelTypeOK'
  BY <1>1, <1>2, NestOrdersTyped, NestLedgerTyped, NestDisputesTyped, NestTwins, LaravelDisputesTyped DEF Nest!Next
<1>3. ASSUME NEW k \in EarningKey, NEW reason \in Reason, Nest!PrepareRefund(k, reason) PROVE LaravelTypeOK'
  <2>1. earning[k] \in EarningStatus /\ status' \in OrderStatus
    BY <1>1, <1>3, NestPrepares DEF LaravelTypeOK, TypeOK, OrderStatus
  <2> QED BY <1>1, <1>3, <2>1, NestPrepares, PrepareTyped
<1>4. ASSUME NEW k \in EarningKey, Nest!RefundSucceeds(k) \/ Nest!RefundFails(k) PROVE LaravelTypeOK'
  BY <1>1, <1>4, NestTwins, RefundEndsTyped DEF RefundSucceeds, RefundFails
<1>5. UNCHANGED Nest!refundVars <=> UNCHANGED refundVars
  BY DEF Nest!refundVars, refundVars
<1> QED BY <1>1, <1>2, <1>3, <1>4, <1>5, SameRows DEF LifeTypeOK, Nest!SettlementNext, Nest!RefundsNext

-----------------------------------------------------------------------------
(* One order in both backends: what moves, and what each move keeps. *)

\* Disputes may end or be decided, but those that hold an earning hold it still.
SameHolders ==
  /\ \A i \in DisputeId : /\ IsActive(i)' => IsActive(i)
                          /\ dispute'[i].target = dispute[i].target
                          /\ dispute'[i].preFreeze = dispute[i].preFreeze
  /\ \A i \in DisputeId, k \in EarningKey : HeldBy(i, k)' <=> HeldBy(i, k)
  /\ WonBeforePaid => WonBeforePaid'
  /\ \A k \in EarningKey : Nest!Won(k) => Nest!Won(k)'

\* Nothing of the order is locked by a refund being prepared, and no payout moves.
Unlocked == preparing = NoPreparation /\ preparing' = NoPreparation /\ UNCHANGED payout

LEMMA SameDisputes == UNCHANGED dispute => SameHolders /\ (WonBeforePaid' <=> WonBeforePaid)
BY DEF SameHolders, IsActive, HeldBy, WonBeforePaid, Nest!Won

LEMMA NotPreparing == preparing = NoPreparation => PreparationStands
BY DEF PreparationStands

\* How the order goes on by itself, with or without its money.
Turns ==
  \/ status' = status
  \/ status = "REQUESTED" /\ status' \in {"ACCEPTED", "REJECTED", "CANCELLED"}
  \/ status = "ACCEPTED" /\ status' = "IN_PROGRESS" /\ (PaidInFull \/ starting)
  \/ status \in {"IN_PROGRESS", "REVISION_REQUESTED"} /\ status' = "SUBMITTED" /\ PaidInFull
  \/ status = "SUBMITTED" /\ status' = "REVISION_REQUESTED"

\* Neither the money nor what holds it moves: decisions, deliveries, revisions,
\* the answers to a dispute, and time.
Quiet ==
  /\ Unlocked /\ SameHolders
  /\ UNCHANGED <<charge, activation, earning, refund, refused>>
  /\ Turns
  /\ delivered' = delivered \/ (delivered' = delivered + 1 /\ PaidInFull)
  /\ \A d \in Delivery : revision[Extra(d)] = "NONE" => revision'[Extra(d)] = "NONE"

LEMMA QuietKeeps == ASSUME LifeInv, LifeTypeOK', Quiet PROVE LifeInv'
<1> USE DEF LifeInv, Quiet, SameHolders
<1>t. delivered \in Nat /\ Delivery \subseteq Nat
  BY Keys DEF LifeTypeOK, LaravelTypeOK, TypeOK
<1>1. PaidForEarnings'
  BY DEF PaidForEarnings
<1>2. PurchasesOfDeliveries'
  BY <1>t DEF PurchasesOfDeliveries
<1>3. OneActiveDispute'
  BY DEF OneActiveDispute
<1>4. HeldByOne'
  BY DEF HeldByOne
<1>5. ReleasedAfterDelivery'
  BY <1>t DEF ReleasedAfterDelivery
<1>6. UnderRefund'
  BY DEF UnderRefund
<1>7. RefundCancels'
  BY DEF RefundCancels, Turns
<1>8. PreparationStands'
  BY DEF PreparationStands, Unlocked, NoPreparation
<1>9. OneWayOut'
  BY DEF OneWayOut, Unlocked, Carries
<1>10. FrozenForAReason'
  BY DEF FrozenForAReason
<1>11. WorkOrMoney'
  <2>1. ASSUME NEW k \in EarningKey, refund[k].stage \in {"ACTIVE", "SUCCEEDED"}, Nest!Given(k)' PROVE Nest!Given(k)
    <3>1. CASE k = Original
      BY <2>1, <3>1 DEF Nest!Given, Nest!Original, Original, PaidForEarnings, PaidInFull
    <3>2. CASE k # Original
      BY <2>1, <3>2, Keys, SameRows DEF Nest!Given
    <3> QED BY <3>1, <3>2
  <2> QED BY <2>1, SameRows DEF WorkOrMoney, Nest!WorkOrMoney
<1> QED BY <1>1, <1>2, <1>3, <1>4, <1>5, <1>6, <1>7, <1>8, <1>9, <1>10, <1>11

\* Completion releases the earnings that were waiting for it.
Completes ==
  /\ Unlocked /\ UNCHANGED <<delivered, revision, charge, activation, dispute, refund, refused>>
  /\ status = "SUBMITTED" /\ status' = "COMPLETED" /\ delivered # 0
  /\ PaidInFull /\ PendingEarnings # {}
  /\ earning' = [k \in EarningKey |-> IF k \in PendingEarnings THEN "AVAILABLE" ELSE earning[k]]

LEMMA CompletesKeeps == ASSUME LifeInv, LifeTypeOK', Completes PROVE LifeInv'
<1> USE DEF LifeInv, Completes, PendingEarnings
<1>v. SameHolders /\ (WonBeforePaid' <=> WonBeforePaid)
  BY SameDisputes
<1>k. Delivery \subseteq EarningKey
  BY Keys
<1>1. PaidForEarnings'
  BY Keys DEF PaidForEarnings
<1>2. PurchasesOfDeliveries'
  BY <1>k DEF PurchasesOfDeliveries
<1>3. OneActiveDispute'
  BY <1>v DEF OneActiveDispute, SameHolders
<1>4. HeldByOne'
  BY <1>v DEF HeldByOne, SameHolders
<1>5. ReleasedAfterDelivery'
  BY DEF ReleasedAfterDelivery
<1>6. UnderRefund'
  BY <1>v DEF UnderRefund, SameHolders
<1>7. RefundCancels'
  BY DEF RefundCancels
<1>8. PreparationStands'
  BY DEF PreparationStands, Unlocked
<1>9. OneWayOut'
  BY <1>v DEF OneWayOut, Unlocked, Carries
<1>10. FrozenForAReason'
  BY <1>v DEF FrozenForAReason, SameHolders
<1>11. WorkOrMoney'
  BY <1>v, SameRows DEF WorkOrMoney, Nest!WorkOrMoney, Nest!Given, SameHolders
<1> QED BY <1>1, <1>2, <1>3, <1>4, <1>5, <1>6, <1>7, <1>8, <1>9, <1>10, <1>11

\* A checkout is opened, or fails.
Charges(k, s) ==
  /\ Unlocked /\ UNCHANGED <<status, delivered, revision, activation, earning, dispute, refund, refused>>
  /\ charge[k] \in {"NONE", "FAILED", "REQUIRES_ACTION"} /\ s \in {"REQUIRES_ACTION", "FAILED"}
  /\ k \in Delivery => k <= delivered
  /\ k = Original /\ charge[k] # "REQUIRES_ACTION" => status \in PayableStatuses
  /\ charge' = [charge EXCEPT ![k] = s]

LEMMA ChargesKeeps == ASSUME LifeInv, LifeTypeOK', NEW k \in EarningKey, NEW s, Charges(k, s) PROVE LifeInv'
<1> USE DEF LifeInv, Charges
<1>v. SameHolders /\ (WonBeforePaid' <=> WonBeforePaid)
  BY SameDisputes
<1>t. charge \in [EarningKey -> ChargeStatus] /\ Delivery \subseteq EarningKey
  BY Keys DEF LifeTypeOK, LaravelTypeOK, TypeOK
<1>1. PaidForEarnings'
  BY <1>t, Keys DEF PaidForEarnings
<1>2. PurchasesOfDeliveries'
  BY <1>t DEF PurchasesOfDeliveries
<1>3. OneActiveDispute'
  BY <1>v DEF OneActiveDispute, SameHolders
<1>4. HeldByOne'
  BY <1>v DEF HeldByOne, SameHolders
<1>5. ReleasedAfterDelivery'
  BY DEF ReleasedAfterDelivery
<1>6. UnderRefund'
  BY <1>v DEF UnderRefund, SameHolders
<1>7. RefundCancels'
  BY DEF RefundCancels
<1>8. PreparationStands'
  BY DEF PreparationStands, Unlocked
<1>9. OneWayOut'
  BY <1>v DEF OneWayOut, Unlocked, Carries
<1>10. FrozenForAReason'
  BY <1>v DEF FrozenForAReason, SameHolders
<1>11. WorkOrMoney'
  BY <1>v, SameRows DEF WorkOrMoney, Nest!WorkOrMoney, Nest!Given, SameHolders
<1> QED BY <1>1, <1>2, <1>3, <1>4, <1>5, <1>6, <1>7, <1>8, <1>9, <1>10, <1>11

\* The original payment is confirmed and nothing is disputed about it, or the dispute
\* about it, if any, is not told.
PaidFreely ==
  /\ Unlocked /\ UNCHANGED <<status, delivered, revision, activation, dispute, refund, refused>>
  /\ charge[Original] = "REQUIRES_ACTION"
  /\ charge' = [charge EXCEPT ![Original] = "PAID"]
  /\ earning' = [earning EXCEPT ![Original] = "PENDING"]

LEMMA PaidFreelyKeeps == ASSUME LifeInv, LifeTypeOK', PaidFreely PROVE LifeInv'
<1> USE DEF LifeInv, PaidFreely
<1>v. SameHolders /\ (WonBeforePaid' <=> WonBeforePaid)
  BY SameDisputes
<1>t. charge \in [EarningKey -> ChargeStatus] /\ earning \in [EarningKey -> EarningStatus]
  BY DEF LifeTypeOK, LaravelTypeOK, TypeOK
<1>n. /\ earning[Original] = "NONE" /\ ~Returning(Original)
      /\ \A i \in DisputeId : ~HeldBy(i, Original)
  BY Keys DEF PaidForEarnings, HeldByOne, Returning
<1>1. PaidForEarnings'
  BY <1>t, <1>n, Keys DEF PaidForEarnings, Returning
<1>2. PurchasesOfDeliveries'
  BY <1>t, Keys DEF PurchasesOfDeliveries
<1>3. OneActiveDispute'
  BY <1>v DEF OneActiveDispute, SameHolders
<1>4. HeldByOne'
  BY <1>v, <1>n, <1>t DEF HeldByOne, SameHolders
<1>5. ReleasedAfterDelivery'
  BY <1>t DEF ReleasedAfterDelivery
<1>6. UnderRefund'
  BY <1>v, <1>n, <1>t DEF UnderRefund, SameHolders, Returning
<1>7. RefundCancels'
  BY DEF RefundCancels
<1>8. PreparationStands'
  BY DEF PreparationStands, Unlocked
<1>9. OneWayOut'
  BY <1>v, <1>n, <1>t DEF OneWayOut, Unlocked, Carries, Returning
<1>10. FrozenForAReason'
  BY <1>v, <1>t DEF FrozenForAReason, SameHolders
<1>11. WorkOrMoney'
  BY <1>v, SameRows DEF WorkOrMoney, Nest!WorkOrMoney, Nest!Given, SameHolders
<1> QED BY <1>1, <1>2, <1>3, <1>4, <1>5, <1>6, <1>7, <1>8, <1>9, <1>10, <1>11

\* The original payment is confirmed under a dispute about it, which freezes it.
PaidUnder(i) ==
  /\ Unlocked /\ UNCHANGED <<status, delivered, revision, activation, refund, refused>>
  /\ charge[Original] = "REQUIRES_ACTION"
  /\ IsActive(i) /\ dispute[i].target = Original
  /\ charge' = [charge EXCEPT ![Original] = "PAID"]
  /\ earning' = [earning EXCEPT ![Original] = "FROZEN"]
  /\ dispute' = [dispute EXCEPT ![i].preFreeze = "PENDING"]

LEMMA PaidUnderKeeps == ASSUME LifeInv, LifeTypeOK', NEW i \in DisputeId, PaidUnder(i) PROVE LifeInv'
<1> USE DEF LifeInv, PaidUnder
<1>t. charge \in [EarningKey -> ChargeStatus] /\ earning \in [EarningKey -> EarningStatus]
  BY DEF LifeTypeOK, LaravelTypeOK, TypeOK
<1>d. dispute \in [DisputeId -> DisputeRow] /\ dispute[i] \in DisputeRow
  BY DEF LifeTypeOK, LaravelTypeOK, TypeOK
<1>n. /\ earning[Original] = "NONE" /\ ~Returning(Original)
      /\ \A j \in DisputeId : ~HeldBy(j, Original)
  BY Keys DEF PaidForEarnings, HeldByOne, Returning
<1>a. /\ \A j \in DisputeId : dispute'[j].status = dispute[j].status /\ dispute'[j].target = dispute[j].target
      /\ \A j \in DisputeId : j # i => dispute'[j] = dispute[j]
      /\ dispute'[i].preFreeze = "PENDING"
  BY <1>d DEF DisputeRow
<1>h. /\ \A j \in DisputeId : IsActive(j)' => IsActive(j)
      /\ HeldBy(i, Original)'
      /\ \A j \in DisputeId, k \in EarningKey : (j # i \/ k # Original) => (HeldBy(j, k)' <=> HeldBy(j, k))
  BY <1>a DEF IsActive, HeldBy
<1>w. /\ WonBeforePaid' <=> WonBeforePaid
      /\ \A k \in EarningKey : Nest!Won(k) => Nest!Won(k)'
  <2>1. dispute[i].status # "RESOLVED_CLIENT"
    BY DEF IsActive, ActiveStatuses, Waiting
  <2> QED BY <1>a, <2>1 DEF WonBeforePaid, Nest!Won, Nest!DisputeId, DisputeId
<1>1. PaidForEarnings'
  BY <1>t, <1>n, Keys DEF PaidForEarnings, Returning
<1>2. PurchasesOfDeliveries'
  BY <1>t, Keys DEF PurchasesOfDeliveries
<1>3. OneActiveDispute'
  BY <1>h DEF OneActiveDispute
<1>4. HeldByOne'
  BY <1>h, <1>n, <1>t, Keys DEF HeldByOne
<1>5. ReleasedAfterDelivery'
  BY <1>a, <1>t DEF ReleasedAfterDelivery
<1>6. UnderRefund'
  BY <1>h, <1>n, <1>t DEF UnderRefund, Returning
<1>7. RefundCancels'
  BY DEF RefundCancels
<1>8. PreparationStands'
  BY DEF PreparationStands, Unlocked
<1>9. OneWayOut'
  BY <1>w, <1>n, <1>t DEF OneWayOut, Unlocked, Carries, Returning
<1>10. FrozenForAReason'
  BY <1>h, <1>t DEF FrozenForAReason
<1>11. WorkOrMoney'
  BY <1>w, SameRows DEF WorkOrMoney, Nest!WorkOrMoney, Nest!Given
<1> QED BY <1>1, <1>2, <1>3, <1>4, <1>5, <1>6, <1>7, <1>8, <1>9, <1>10, <1>11

\* An extra revision is paid for, and begins or comes too late.
Bought(d, a, e) ==
  /\ Unlocked /\ UNCHANGED <<delivered, dispute, refund, refused>>
  /\ charge[d] = "REQUIRES_ACTION"
  /\ charge' = [charge EXCEPT ![d] = "PAID"] /\ activation' = [activation EXCEPT ![d] = a]
  /\ \/ /\ a = "ACTIVATED" /\ e = "PENDING"
        /\ status = "SUBMITTED" /\ status' = "REVISION_REQUESTED"
        /\ revision' = [revision EXCEPT ![Extra(d)] = "OPEN"]
        /\ earning' = [earning EXCEPT ![d] = "PENDING"]
     \/ /\ a = "RECONCILIATION_REQUIRED" /\ e = earning[d]
        /\ UNCHANGED <<status, revision, earning>>

LEMMA BoughtKeeps ==
  ASSUME LifeInv, LifeTypeOK', NEW d \in Delivery, NEW a, NEW e, Bought(d, a, e) PROVE LifeInv'
<1> USE DEF LifeInv, Bought
<1>v. SameHolders /\ (WonBeforePaid' <=> WonBeforePaid)
  BY SameDisputes
<1>k. d \in EarningKey /\ d # Original /\ Delivery \subseteq EarningKey /\ Original \notin Delivery
  BY Keys
<1>t. /\ charge \in [EarningKey -> ChargeStatus] /\ earning \in [EarningKey -> EarningStatus]
      /\ activation \in [Delivery -> ActivationStatus] /\ revision \in [Delivery \X RevisionType -> RevisionStatus]
  BY DEF LifeTypeOK, LaravelTypeOK, TypeOK
<1>n. /\ earning[d] = "NONE" /\ ~Returning(d) /\ revision[Extra(d)] = "NONE"
      /\ \A i \in DisputeId : ~HeldBy(i, d)
  BY <1>k DEF PaidForEarnings, PurchasesOfDeliveries, HeldByOne, Returning
<1>e. /\ earning'[d] = e /\ e \in {"PENDING", "NONE"}
      /\ \A k \in EarningKey : k # d => earning'[k] = earning[k] /\ charge'[k] = charge[k]
      /\ charge'[d] = "PAID"
      /\ \A k \in Delivery : k # d => activation'[k] = activation[k] /\ revision'[Extra(k)] = revision[Extra(k)]
      /\ activation'[d] = a
  BY <1>k, <1>n, <1>t DEF Extra
<1>r. a = "RECONCILIATION_REQUIRED" => earning'[d] = "NONE" /\ revision'[Extra(d)] = "NONE"
  BY <1>n
<1>1. PaidForEarnings'
  <2>1. UNCHANGED refund /\ refund[d].stage \notin {"ACTIVE", "SUCCEEDED"}
    BY <1>n DEF Returning
  <2> HIDE DEF Bought
  <2> QED BY <1>e, <1>k, <2>1, Keys DEF PaidForEarnings
<1>2. PurchasesOfDeliveries'
  BY <1>e, <1>k, <1>r DEF PurchasesOfDeliveries
<1>3. OneActiveDispute'
  BY <1>v DEF OneActiveDispute, SameHolders
<1>4. HeldByOne'
  BY <1>e, <1>n, <1>v, <1>k DEF HeldByOne, SameHolders
<1>5. ReleasedAfterDelivery'
  BY <1>e, <1>k DEF ReleasedAfterDelivery
<1>6. UnderRefund'
  BY <1>e, <1>n, <1>v DEF UnderRefund, SameHolders, Returning
<1>7. RefundCancels'
  BY DEF RefundCancels
<1>8. PreparationStands'
  BY DEF PreparationStands, Unlocked
<1>9. OneWayOut'
  BY <1>e, <1>n, <1>v DEF OneWayOut, Unlocked, Carries, Returning
<1>10. FrozenForAReason'
  BY <1>e, <1>n, <1>v, <1>k DEF FrozenForAReason, SameHolders
<1>11. WorkOrMoney'
  BY <1>e, <1>n, <1>v, <1>k, Keys, SameRows DEF WorkOrMoney, Nest!WorkOrMoney, Nest!Given, SameHolders, Returning
<1> QED BY <1>1, <1>2, <1>3, <1>4, <1>5, <1>6, <1>7, <1>8, <1>9, <1>10, <1>11

LEMMA OpensKeeps ==
  ASSUME LifeInv, LifeTypeOK', NEW i \in DisputeId, NEW k \in EarningKey, NEW d \in EarningKey,
         Opens(i, k, d), Unlocked
  PROVE  LifeInv'
<1> USE DEF LifeInv
<1>u. UNCHANGED <<status, delivered, revision, charge, activation, refund, refused>>
  BY DEF Opens, orderVars, workVars, refundVars
<1>t. /\ earning \in [EarningKey -> EarningStatus] /\ dispute \in [DisputeId -> DisputeRow]
      /\ Delivery \subseteq EarningKey
  BY Keys DEF LifeTypeOK, LaravelTypeOK, TypeOK
<1>o. /\ dispute[i].status = "NONE" /\ \A j \in DisputeId : ~IsActive(j)
      /\ earning[k] \in {"PENDING", "AVAILABLE"} \/ (earning[k] = "NONE" /\ k = Original)
  BY DEF Opens, ActiveDispute, Freezable
<1>e. /\ earning'[k] = IF earning[k] = "NONE" THEN "NONE" ELSE "FROZEN"
      /\ \A l \in EarningKey : l # k => earning'[l] = earning[l]
  BY <1>t DEF Opens
<1>d. /\ dispute'[i].status \in Waiting /\ dispute'[i].target = k /\ dispute'[i].preFreeze = earning[k]
      /\ \A j \in DisputeId : j # i => dispute'[j] = dispute[j]
  BY <1>t DEF Opens, DisputeRowOf
<1> HIDE DEF Opens
<1>h. /\ \A j \in DisputeId : IsActive(j)' => j = i
      /\ earning[k] # "NONE" => HeldBy(i, k)'
      /\ \A l \in EarningKey : HeldBy(i, l)' => l = k /\ earning[k] # "NONE"
      /\ \A j \in DisputeId, l \in EarningKey : j # i => (HeldBy(j, l)' <=> HeldBy(j, l))
      /\ \A l \in EarningKey : ~HeldBy(i, l)
  BY <1>o, <1>d DEF IsActive, HeldBy, ActiveStatuses, Waiting
<1>w. /\ WonBeforePaid' <=> WonBeforePaid
      /\ \A l \in EarningKey : Nest!Won(l) => Nest!Won(l)'
  BY <1>o, <1>d DEF WonBeforePaid, Nest!Won, Nest!DisputeId, DisputeId, Waiting
<1>n. \A j \in DisputeId : earning[k] # "NONE" => ~HeldBy(j, k)
  BY <1>o DEF HeldByOne
<1>1. PaidForEarnings'
  BY <1>u, <1>e, <1>o, Keys DEF PaidForEarnings
<1>2. PurchasesOfDeliveries'
  BY <1>u, <1>e, <1>o, <1>t, Keys DEF PurchasesOfDeliveries
<1>3. OneActiveDispute'
  BY <1>h DEF OneActiveDispute
<1>4. HeldByOne'
  <2>1. k \in Delivery => activation[k] \notin {"PENDING", "RECONCILIATION_REQUIRED"}
    BY <1>o, Keys DEF PurchasesOfDeliveries
  <2>2. ASSUME NEW j \in DisputeId, NEW l \in EarningKey, HeldBy(j, l)'
        PROVE  /\ earning'[l] \in {"FROZEN", "REFUNDED"}
               /\ \A m \in DisputeId : HeldBy(m, l)' => m = j
               /\ l \in Delivery => activation'[l] \notin {"PENDING", "RECONCILIATION_REQUIRED"}
    <3>1. CASE l = k /\ earning[k] # "NONE"
      BY <1>e, <1>h, <1>n, <1>u, <2>1, <2>2, <3>1
    <3>2. CASE ~(l = k /\ earning[k] # "NONE")
      <4>1. j # i /\ HeldBy(j, l) /\ \A m \in DisputeId : HeldBy(m, l)' => HeldBy(m, l)
        BY <1>h, <2>2, <3>2
      <4>2. earning'[l] = earning[l]
        BY <1>e, <3>2
      <4> QED BY <1>u, <4>1, <4>2 DEF HeldByOne
    <3> QED BY <3>1, <3>2
  <2> QED BY <2>2 DEF HeldByOne
<1>5. ReleasedAfterDelivery'
  BY <1>u, <1>e, <1>d DEF ReleasedAfterDelivery
<1>6. UnderRefund'
  BY <1>u, <1>e, <1>o, <1>h, <1>n DEF UnderRefund
<1>7. RefundCancels'
  BY <1>u DEF RefundCancels
<1>8. PreparationStands'
  BY DEF PreparationStands, Unlocked
<1>9. OneWayOut'
  BY <1>u, <1>e, <1>o, <1>w DEF OneWayOut, Unlocked, Carries
<1>10. FrozenForAReason'
  BY <1>u, <1>e, <1>h DEF FrozenForAReason
<1>11. WorkOrMoney'
  BY <1>u, <1>w, SameRows DEF WorkOrMoney, Nest!WorkOrMoney, Nest!Given
<1> QED BY <1>1, <1>2, <1>3, <1>4, <1>5, <1>6, <1>7, <1>8, <1>9, <1>10, <1>11

\* A dispute ends for the provider and gives its earning back.
GivesBack(i, k) ==
  /\ Unlocked /\ UNCHANGED <<status, delivered, revision, charge, activation, refund, refused>>
  /\ IsActive(i) /\ dispute[i].target = k /\ dispute[i].preFreeze # "NONE"
  /\ earning[k] = "FROZEN" /\ earning' = [earning EXCEPT ![k] = dispute[i].preFreeze]
  /\ \E s \in Restoring : dispute' = [dispute EXCEPT ![i].status = s]

LEMMA GivesBackKeeps ==
  ASSUME LifeInv, LifeTypeOK', NEW i \in DisputeId, NEW k \in EarningKey, GivesBack(i, k) PROVE LifeInv'
<1> USE DEF LifeInv, GivesBack
<1>t. /\ earning \in [EarningKey -> EarningStatus] /\ dispute \in [DisputeId -> DisputeRow]
      /\ dispute[i].preFreeze \in {"PENDING", "AVAILABLE"} /\ Delivery \subseteq EarningKey
  BY Keys DEF LifeTypeOK, LaravelTypeOK, TypeOK, DisputeRow
<1>d. /\ \A j \in DisputeId : j # i => dispute'[j] = dispute[j]
      /\ dispute'[i].status \in Restoring
      /\ \A j \in DisputeId : dispute'[j].target = dispute[j].target /\ dispute'[j].preFreeze = dispute[j].preFreeze
  BY <1>t DEF DisputeRow
<1>h. /\ \A j \in DisputeId : IsActive(j)' => IsActive(j) /\ j # i
      /\ HeldBy(i, k)
      /\ \A l \in EarningKey : ~HeldBy(i, l)'
      /\ \A l \in EarningKey : HeldBy(i, l) => l = k
      /\ \A j \in DisputeId, l \in EarningKey : j # i => (HeldBy(j, l)' <=> HeldBy(j, l))
  BY <1>d DEF IsActive, HeldBy, ActiveStatuses, Waiting, Restoring
<1>w. /\ WonBeforePaid' <=> WonBeforePaid
      /\ \A l \in EarningKey : Nest!Won(l) => Nest!Won(l)'
  <2>1. dispute[i].status # "RESOLVED_CLIENT" /\ dispute'[i].status # "RESOLVED_CLIENT"
    BY <1>d DEF IsActive, ActiveStatuses, Waiting, Restoring
  <2> QED BY <1>d, <2>1 DEF WonBeforePaid, Nest!Won, Nest!DisputeId, DisputeId
<1>e. /\ earning'[k] = dispute[i].preFreeze
      /\ \A l \in EarningKey : l # k => earning'[l] = earning[l]
  BY <1>t
<1>n. /\ \A j \in DisputeId : ~HeldBy(j, k)'
      /\ k \in Delivery => activation[k] \notin {"PENDING", "RECONCILIATION_REQUIRED"}
  BY <1>h DEF HeldByOne
<1> HIDE DEF GivesBack
<1>u. /\ UNCHANGED <<status, delivered, revision, charge, activation, refund, refused>>
      /\ Unlocked /\ earning[k] = "FROZEN"
  BY DEF GivesBack
<1>1. PaidForEarnings'
  BY <1>u, <1>e, <1>t, Keys DEF PaidForEarnings
<1>2. PurchasesOfDeliveries'
  BY <1>u, <1>e, <1>n, <1>t, Keys DEF PurchasesOfDeliveries
<1>3. OneActiveDispute'
  BY <1>h DEF OneActiveDispute
<1>4. HeldByOne'
  <2>1. ASSUME NEW j \in DisputeId, NEW l \in EarningKey, HeldBy(j, l)'
        PROVE  /\ earning'[l] \in {"FROZEN", "REFUNDED"}
               /\ \A m \in DisputeId : HeldBy(m, l)' => m = j
               /\ l \in Delivery => activation'[l] \notin {"PENDING", "RECONCILIATION_REQUIRED"}
    <3>1. l # k /\ j # i
      BY <1>h, <1>n, <2>1
    <3>2. HeldBy(j, l) /\ \A m \in DisputeId : HeldBy(m, l)' => HeldBy(m, l)
      BY <1>h, <2>1, <3>1
    <3> QED BY <1>u, <1>e, <3>1, <3>2 DEF HeldByOne
  <2> QED BY <2>1 DEF HeldByOne
<1>5. ReleasedAfterDelivery'
  BY <1>u, <1>e, <1>d, <1>t DEF ReleasedAfterDelivery
<1>6. UnderRefund'
  <2>1. refund[k].stage = "ACTIVE" => refund[k].pre = "FROZEN"
    BY <1>h DEF UnderRefund
  <2>2. \A l \in EarningKey : l # k => ((\E j \in DisputeId : HeldBy(j, l)') <=> (\E j \in DisputeId : HeldBy(j, l)))
    BY <1>h
  <2> QED BY <1>u, <1>e, <1>t, <1>n, <2>1, <2>2 DEF UnderRefund
<1>7. RefundCancels'
  BY <1>u DEF RefundCancels
<1>8. PreparationStands'
  BY <1>u DEF PreparationStands, Unlocked
<1>9. OneWayOut'
  BY <1>u, <1>e, <1>t, <1>w DEF OneWayOut, Unlocked, Carries
<1>10. FrozenForAReason'
  <2>1. \A l \in EarningKey : l # k => ((\E j \in DisputeId : HeldBy(j, l)') <=> (\E j \in DisputeId : HeldBy(j, l)))
    BY <1>h
  <2> QED BY <1>u, <1>e, <1>t, <2>1 DEF FrozenForAReason
<1>11. WorkOrMoney'
  BY <1>u, <1>w, SameRows DEF WorkOrMoney, Nest!WorkOrMoney, Nest!Given
<1> QED BY <1>1, <1>2, <1>3, <1>4, <1>5, <1>6, <1>7, <1>8, <1>9, <1>10, <1>11

\* What a refund has found when it is prepared: the earning as seen, or, when a
\* payout was faster than the administrator, in that payout.
Preparable(k, reason, seen) ==
  /\ reason \in Reason /\ charge[k] = "PAID" /\ ~Returning(k)
  /\ seen \in {"NONE", "PENDING", "AVAILABLE", "FROZEN"}
  /\ seen = "NONE" => k \in Delivery /\ activation[k] = "RECONCILIATION_REQUIRED"
  /\ earning[k] = seen \/ (seen = "AVAILABLE" /\ WonBeforePaid /\ earning[k] \in InPayout)
  /\ Nest!Given(k) => Nest!Won(k)
  /\ k \in Delivery => Nest!Won(k) \/ activation[k] = "RECONCILIATION_REQUIRED"

Prepares(k, reason, seen) ==
  /\ Prepare(k, reason, seen)
  /\ preparing' = NoPreparation /\ UNCHANGED payout
  /\ reason \in Nest!ClientReason => status' = "CANCELLED"
  /\ \/ status' = status
     \/ status' = "CANCELLED" /\ status \in {"ACCEPTED", "IN_PROGRESS"} /\ k = Original

LEMMA PreparesKeeps ==
  ASSUME LifeInv, LifeTypeOK', NEW k \in EarningKey, NEW reason, NEW seen,
         Preparable(k, reason, seen), Prepares(k, reason, seen)
  PROVE  LifeInv'
<1> USE DEF LifeInv
<1>t. /\ earning \in [EarningKey -> EarningStatus] /\ charge \in [EarningKey -> ChargeStatus]
      /\ refund \in [EarningKey -> RefundRow] /\ Delivery \subseteq EarningKey
  BY Keys DEF LifeTypeOK, LaravelTypeOK, TypeOK
<1>u. /\ UNCHANGED <<delivered, revision, activation, dispute, refused, payout>>
      /\ preparing' = NoPreparation
      /\ status = "CANCELLED" \/ reason \in Nest!ClientReason => status' = "CANCELLED"
  BY DEF Prepares, Prepare, workVars
<1>v. SameHolders /\ (WonBeforePaid' <=> WonBeforePaid)
  BY <1>u, SameDisputes
<1>e. /\ earning'[k] = "FROZEN" /\ charge'[k] = "REFUND_PENDING"
      /\ refund'[k].stage = "ACTIVE" /\ refund'[k].reason = reason
      /\ refund'[k].pre = IF seen = "NONE" THEN "FROZEN" ELSE seen
      /\ \A l \in EarningKey : l # k => /\ earning'[l] = earning[l] /\ charge'[l] = charge[l]
                                       /\ refund'[l] = refund[l]
  BY <1>t DEF Prepares, Prepare
<1> HIDE DEF Prepares
<1>p. Preparable(k, reason, seen)
  OBVIOUS
<1>s. earning[k] = seen \/ (seen = "AVAILABLE" /\ earning[k] \in {"PAYOUT_PROCESSING", "PAID_OUT"})
  BY DEF Preparable, InPayout
<1>1. PaidForEarnings'
  BY <1>e, Keys DEF PaidForEarnings
<1>2. PurchasesOfDeliveries'
  BY <1>u, <1>e, <1>t, Keys DEF PurchasesOfDeliveries, Preparable
<1>3. OneActiveDispute'
  BY <1>v DEF OneActiveDispute, SameHolders
<1>4. HeldByOne'
  BY <1>u, <1>e, <1>v DEF HeldByOne, SameHolders
<1>5. ReleasedAfterDelivery'
  BY <1>u, <1>e, <1>s DEF ReleasedAfterDelivery
<1>6. UnderRefund'
  <2>1. seen \in {"PENDING", "AVAILABLE"} =>
          /\ \A i \in DisputeId : ~HeldBy(i, k)
          /\ k \in Delivery => activation[k] # "RECONCILIATION_REQUIRED"
    BY <1>s DEF HeldByOne, PurchasesOfDeliveries
  <2>2. seen = "FROZEN" => \/ \E i \in DisputeId : HeldBy(i, k)
                           \/ k \in Delivery /\ activation[k] = "RECONCILIATION_REQUIRED"
    BY <1>p, <1>s DEF FrozenForAReason, Preparable, Returning
  <2>3. /\ reason \in Reason /\ seen \in {"NONE", "PENDING", "AVAILABLE", "FROZEN"}
        /\ seen = "NONE" => k \in Delivery /\ activation[k] = "RECONCILIATION_REQUIRED"
    BY <1>p DEF Preparable
  <2> QED BY <1>u, <1>e, <1>v, <2>1, <2>2, <2>3 DEF UnderRefund, SameHolders
<1>7. RefundCancels'
  BY <1>u, <1>e DEF RefundCancels
<1>8. PreparationStands'
  BY <1>u DEF PreparationStands
<1>9. OneWayOut'
  <2>1. refund[k].stage # "SUCCEEDED"
    BY <1>p DEF Preparable, Returning
  <2>2. WonBeforePaid \/ \A p \in PayoutId : ~Carries(p, k, LivePayout) /\ ~Carries(p, k, {"PAID"})
    BY <1>p DEF OneWayOut, Preparable
  <2>3. \A p \in PayoutId, l \in EarningKey : \A t : Carries(p, l, t)' <=> Carries(p, l, t)
    BY <1>u DEF Carries
  <2>4. \A p, q \in PayoutId, l \in EarningKey :
          Carries(p, l, LivePayout \cup {"PAID"})' /\ Carries(q, l, LivePayout \cup {"PAID"})' => p = q
    BY <1>u DEF OneWayOut, Carries
  <2>5. ASSUME NEW l \in EarningKey
        PROVE  /\ earning'[l] = "REFUNDED" <=> refund'[l].stage = "SUCCEEDED"
               /\ earning'[l] = "PAYOUT_PROCESSING" => \E p \in PayoutId : Carries(p, l, LivePayout)'
               /\ earning'[l] = "PAID_OUT" => \E p \in PayoutId : Carries(p, l, {"PAID"})'
    BY <1>e, <2>1, <2>3 DEF OneWayOut
  <2>6. WonBeforePaid' \/ \A l \in EarningKey, p \in PayoutId :
          /\ Carries(p, l, LivePayout)' => earning'[l] = "PAYOUT_PROCESSING"
          /\ Carries(p, l, {"PAID"})' => earning'[l] = "PAID_OUT"
    BY <1>e, <1>v, <2>2, <2>3 DEF OneWayOut
  <2> QED BY <2>4, <2>5, <2>6 DEF OneWayOut
<1>10. FrozenForAReason'
  BY <1>u, <1>e, <1>v DEF FrozenForAReason, SameHolders
<1>11. WorkOrMoney'
  <2>1. Nest!Given(k) => Nest!Won(k)
    BY <1>p DEF Preparable
  <2>2. \A l \in EarningKey : Nest!Given(l)' <=> Nest!Given(l)
    BY <1>u DEF Nest!Given
  <2> QED BY <1>e, <1>v, <2>1, <2>2, SameRows DEF WorkOrMoney, Nest!WorkOrMoney, SameHolders
<1> QED BY <1>1, <1>2, <1>3, <1>4, <1>5, <1>6, <1>7, <1>8, <1>9, <1>10, <1>11

\* A refund under way ends, and no other earning is concerned.
Ends(k, stage, s, e) ==
  /\ Unlocked /\ UNCHANGED <<status, delivered, revision, dispute>>
  /\ refund[k].stage = "ACTIVE" /\ refund' = [refund EXCEPT ![k].stage = stage]
  /\ charge' = [charge EXCEPT ![k] = s] /\ earning' = [earning EXCEPT ![k] = e]

\* What both ends of a refund leave.
LEMMA Ending ==
  ASSUME LifeInv, NEW k \in EarningKey, NEW stage, NEW s, NEW e, Ends(k, stage, s, e)
  PROVE  /\ refund'[k].stage = stage /\ refund'[k].pre = refund[k].pre /\ refund'[k].reason = refund[k].reason
         /\ charge'[k] = s /\ earning'[k] = e
         /\ \A l \in EarningKey : l # k => /\ earning'[l] = earning[l] /\ charge'[l] = charge[l]
                                          /\ refund'[l] = refund[l]
         /\ charge[k] = "REFUND_PENDING" /\ earning[k] \in {"PENDING", "AVAILABLE", "FROZEN"}
         /\ SameHolders /\ (WonBeforePaid' <=> WonBeforePaid)
         /\ WonBeforePaid \/ \A p \in PayoutId : ~Carries(p, k, LivePayout) /\ ~Carries(p, k, {"PAID"})
         /\ \A p \in PayoutId, l \in EarningKey : \A t : Carries(p, l, t)' <=> Carries(p, l, t)
<1>t. /\ earning \in [EarningKey -> EarningStatus] /\ charge \in [EarningKey -> ChargeStatus]
      /\ refund \in [EarningKey -> RefundRow]
  BY DEF LifeInv, LifeTypeOK, LaravelTypeOK, TypeOK
<1>1. /\ refund'[k].stage = stage /\ refund'[k].pre = refund[k].pre /\ refund'[k].reason = refund[k].reason
      /\ charge'[k] = s /\ earning'[k] = e
      /\ \A l \in EarningKey : l # k => /\ earning'[l] = earning[l] /\ charge'[l] = charge[l]
                                       /\ refund'[l] = refund[l]
  BY <1>t DEF Ends, RefundRow
<1>2. charge[k] = "REFUND_PENDING" /\ earning[k] \in {"PENDING", "AVAILABLE", "FROZEN"}
  BY DEF Ends, LifeInv, PaidForEarnings, UnderRefund
<1>3. SameHolders /\ (WonBeforePaid' <=> WonBeforePaid)
  BY SameDisputes DEF Ends
<1>4. WonBeforePaid \/ \A p \in PayoutId : ~Carries(p, k, LivePayout) /\ ~Carries(p, k, {"PAID"})
  BY <1>2 DEF LifeInv, OneWayOut
<1>5. \A p \in PayoutId, l \in EarningKey : \A t : Carries(p, l, t)' <=> Carries(p, l, t)
  BY DEF Ends, Unlocked, Carries
<1> QED BY <1>1, <1>2, <1>3, <1>4, <1>5

\* Whatever the end, the other payouts and earnings go on as they were.
LEMMA EndingOneWayOut ==
  ASSUME LifeInv, NEW k \in EarningKey, NEW stage, NEW s, NEW e, Ends(k, stage, s, e),
         e \in {"PENDING", "AVAILABLE", "FROZEN", "REFUNDED"}, e = "REFUNDED" <=> stage = "SUCCEEDED"
  PROVE  OneWayOut'
<1>1. OneWayOut
  BY DEF LifeInv
<1>2. \A p, q \in PayoutId, l \in EarningKey :
        Carries(p, l, LivePayout \cup {"PAID"})' /\ Carries(q, l, LivePayout \cup {"PAID"})' => p = q
  BY <1>1 DEF OneWayOut, Carries, Ends, Unlocked
<1>3. ASSUME NEW l \in EarningKey
      PROVE  /\ earning'[l] = "REFUNDED" <=> refund'[l].stage = "SUCCEEDED"
             /\ earning'[l] = "PAYOUT_PROCESSING" => \E p \in PayoutId : Carries(p, l, LivePayout)'
             /\ earning'[l] = "PAID_OUT" => \E p \in PayoutId : Carries(p, l, {"PAID"})'
  BY <1>1, Ending DEF OneWayOut
<1>4. WonBeforePaid' \/ \A l \in EarningKey, p \in PayoutId :
        /\ Carries(p, l, LivePayout)' => earning'[l] = "PAYOUT_PROCESSING"
        /\ Carries(p, l, {"PAID"})' => earning'[l] = "PAID_OUT"
  BY <1>1, Ending DEF OneWayOut
<1> QED BY <1>2, <1>3, <1>4 DEF OneWayOut

Succeeds(k) ==
  /\ Ends(k, "SUCCEEDED", "REFUNDED", "REFUNDED")
  /\ UNCHANGED refused /\ activation' = [d \in Delivery |-> IF d = k THEN "REFUNDED" ELSE activation[d]]

LEMMA SucceedsKeeps == ASSUME LifeInv, LifeTypeOK', NEW k \in EarningKey, Succeeds(k) PROVE LifeInv'
<1> USE DEF LifeInv
<1>u. /\ UNCHANGED <<status, delivered, revision, dispute, refused>> /\ Unlocked
      /\ refund[k].stage = "ACTIVE"
      /\ \A d \in Delivery : activation'[d] = IF d = k THEN "REFUNDED" ELSE activation[d]
  BY DEF Succeeds, Ends
<1>e. Ends(k, "SUCCEEDED", "REFUNDED", "REFUNDED")
  BY DEF Succeeds
<1>f. /\ refund'[k].stage = "SUCCEEDED" /\ refund'[k].pre = refund[k].pre /\ refund'[k].reason = refund[k].reason
      /\ charge'[k] = "REFUNDED" /\ earning'[k] = "REFUNDED"
      /\ \A l \in EarningKey : l # k => /\ earning'[l] = earning[l] /\ charge'[l] = charge[l]
                                       /\ refund'[l] = refund[l]
      /\ charge[k] = "REFUND_PENDING" /\ SameHolders
  BY <1>e, Ending
<1>1. PaidForEarnings'
  BY <1>f, Keys DEF PaidForEarnings
<1>2. PurchasesOfDeliveries'
  BY <1>u, <1>f, Keys DEF PurchasesOfDeliveries
<1>3. OneActiveDispute'
  BY <1>f DEF OneActiveDispute, SameHolders
<1>4. HeldByOne'
  BY <1>u, <1>f DEF HeldByOne, SameHolders
<1>5. ReleasedAfterDelivery'
  BY <1>u, <1>f DEF ReleasedAfterDelivery
<1>6. UnderRefund'
  BY <1>u, <1>f DEF UnderRefund, SameHolders
<1>7. RefundCancels'
  BY <1>u, <1>f DEF RefundCancels
<1>8. PreparationStands'
  BY <1>u DEF PreparationStands, Unlocked
<1>9. OneWayOut'
  BY <1>e, EndingOneWayOut
<1>10. FrozenForAReason'
  BY <1>u, <1>f DEF FrozenForAReason, SameHolders
<1>11. WorkOrMoney'
  BY <1>u, <1>f, SameRows DEF WorkOrMoney, Nest!WorkOrMoney, Nest!Given, SameHolders
<1> QED BY <1>1, <1>2, <1>3, <1>4, <1>5, <1>6, <1>7, <1>8, <1>9, <1>10, <1>11

Fails(k) ==
  /\ Ends(k, "FAILED", "PAID", IF refund[k].pre = "FROZEN" THEN earning[k] ELSE refund[k].pre)
  /\ UNCHANGED activation /\ refused' = [refused EXCEPT ![k] = @ \cup {refund[k].reason}]

LEMMA FailsKeeps == ASSUME LifeInv, LifeTypeOK', NEW k \in EarningKey, Fails(k) PROVE LifeInv'
<1> USE DEF LifeInv
<1> DEFINE e == IF refund[k].pre = "FROZEN" THEN earning[k] ELSE refund[k].pre
<1>t. refused \in [EarningKey -> SUBSET Reason]
  BY DEF LifeTypeOK, LaravelTypeOK
<1>u. /\ UNCHANGED <<status, delivered, revision, dispute, activation>> /\ Unlocked
      /\ refund[k].stage = "ACTIVE"
      /\ refused'[k] = refused[k] \cup {refund[k].reason}
      /\ \A l \in EarningKey : l # k => refused'[l] = refused[l]
  BY <1>t DEF Fails, Ends
<1>e. Ends(k, "FAILED", "PAID", e)
  BY DEF Fails
<1>p. /\ refund[k].pre \in {"PENDING", "AVAILABLE", "FROZEN"}
      /\ refund[k].pre # "FROZEN" => /\ \A i \in DisputeId : ~HeldBy(i, k)
                                     /\ k \in Delivery => activation[k] # "RECONCILIATION_REQUIRED"
      /\ refund[k].pre = "FROZEN" /\ earning[k] = "FROZEN" =>
           \/ \E i \in DisputeId : HeldBy(i, k)
           \/ k \in Delivery /\ activation[k] = "RECONCILIATION_REQUIRED"
      /\ refund[k].pre # "FROZEN" => e = refund[k].pre
      /\ refund[k].pre = "FROZEN" => e = earning[k]
      /\ refund[k].reason \in Nest!ClientReason => status = "CANCELLED"
  BY <1>u DEF UnderRefund, RefundCancels
<1> HIDE DEF e
<1>f. /\ refund'[k].stage = "FAILED" /\ refund'[k].pre = refund[k].pre /\ refund'[k].reason = refund[k].reason
      /\ charge'[k] = "PAID" /\ earning'[k] = e
      /\ \A l \in EarningKey : l # k => /\ earning'[l] = earning[l] /\ charge'[l] = charge[l]
                                       /\ refund'[l] = refund[l]
      /\ charge[k] = "REFUND_PENDING" /\ SameHolders /\ earning[k] \in {"PENDING", "AVAILABLE", "FROZEN"}
  BY <1>e, Ending
<1>1. PaidForEarnings'
  BY <1>f, <1>p, Keys DEF PaidForEarnings
<1>2. PurchasesOfDeliveries'
  BY <1>u, <1>f, <1>p, Keys DEF PurchasesOfDeliveries
<1>3. OneActiveDispute'
  BY <1>f DEF OneActiveDispute, SameHolders
<1>4. HeldByOne'
  BY <1>u, <1>f, <1>p DEF HeldByOne, SameHolders
<1>5. ReleasedAfterDelivery'
  BY <1>u, <1>f, <1>p DEF ReleasedAfterDelivery
<1>6. UnderRefund'
  BY <1>u, <1>f DEF UnderRefund, SameHolders
<1>7. RefundCancels'
  BY <1>u, <1>f, <1>p DEF RefundCancels
<1>8. PreparationStands'
  BY <1>u DEF PreparationStands, Unlocked
<1>9. OneWayOut'
  <2>1. e \in {"PENDING", "AVAILABLE", "FROZEN"}
    BY <1>p, <1>f
  <2> QED BY <1>e, <2>1, EndingOneWayOut
<1>10. FrozenForAReason'
  BY <1>u, <1>f, <1>p DEF FrozenForAReason, SameHolders
<1>11. WorkOrMoney'
  BY <1>u, <1>f, SameRows DEF WorkOrMoney, Nest!WorkOrMoney, Nest!Given, SameHolders
<1> QED BY <1>1, <1>2, <1>3, <1>4, <1>5, <1>6, <1>7, <1>8, <1>9, <1>10, <1>11

\* The administrator's refund has read what it needs and waits.
Begins(k, reason) ==
  /\ Preparable(k, reason, earning[k]) /\ reason \notin Nest!ClientReason
  /\ earning[k] = "AVAILABLE" => WonBeforePaid
  /\ preparing' = [key |-> k, reason |-> reason, seen |-> earning[k]]
  /\ UNCHANGED <<status, delivered, revision, charge, activation, earning, dispute, refund, refused, payout>>

LEMMA BeginsKeeps == ASSUME LifeInv, LifeTypeOK', NEW k \in EarningKey, NEW reason, Begins(k, reason) PROVE LifeInv'
<1> USE DEF LifeInv
<1>u. UNCHANGED <<status, delivered, revision, charge, activation, earning, dispute, refund, refused, payout>>
  BY DEF Begins
<1>v. SameHolders /\ (WonBeforePaid' <=> WonBeforePaid)
  BY <1>u, SameDisputes
<1>1. PaidForEarnings' /\ PurchasesOfDeliveries' /\ ReleasedAfterDelivery' /\ RefundCancels'
  BY <1>u DEF PaidForEarnings, PurchasesOfDeliveries, ReleasedAfterDelivery, RefundCancels
<1>2. OneActiveDispute' /\ HeldByOne' /\ UnderRefund' /\ FrozenForAReason'
  BY <1>u, <1>v DEF OneActiveDispute, HeldByOne, UnderRefund, FrozenForAReason, SameHolders
<1>3. PreparationStands'
  BY <1>u, <1>v DEF PreparationStands, Begins, Preparable, Returning, SameHolders, Nest!Given
<1>4. OneWayOut'
  BY <1>u, <1>v DEF OneWayOut, Carries
<1>5. WorkOrMoney'
  BY <1>u, <1>v, SameRows DEF WorkOrMoney, Nest!WorkOrMoney, Nest!Given, SameHolders
<1> QED BY <1>1, <1>2, <1>3, <1>4, <1>5

\* A payout takes, returns or keeps the earnings among items: of the invariant only
\* what it says of payouts is left to prove.
Pays(items, from, to) ==
  /\ UNCHANGED <<status, delivered, revision, charge, activation, dispute, refund, refused, preparing>>
  /\ from \in {"AVAILABLE", "PAYOUT_PROCESSING"} /\ to \in {"AVAILABLE", "PAYOUT_PROCESSING", "PAID_OUT"}
  /\ \A k \in items : earning[k] = from /\ refund[k].stage # "ACTIVE"
  /\ earning' = [k \in EarningKey |-> IF k \in items THEN to ELSE earning[k]]

LEMMA PaysKeeps ==
  ASSUME LifeInv, LifeTypeOK', NEW items \in SUBSET EarningKey, NEW from, NEW to, Pays(items, from, to), OneWayOut'
  PROVE  LifeInv'
<1> USE DEF LifeInv, Pays
<1>v. SameHolders /\ (WonBeforePaid' <=> WonBeforePaid)
  BY SameDisputes
<1>e. /\ \A k \in EarningKey : k \in items => earning'[k] = to /\ earning[k] = from
      /\ \A k \in EarningKey : k \notin items => earning'[k] = earning[k]
  OBVIOUS
<1>1. PaidForEarnings'
  BY <1>e, Keys DEF PaidForEarnings
<1>2. PurchasesOfDeliveries'
  BY <1>e, Keys DEF PurchasesOfDeliveries
<1>3. OneActiveDispute'
  BY <1>v DEF OneActiveDispute, SameHolders
<1>4. HeldByOne'
  BY <1>e, <1>v DEF HeldByOne, SameHolders
<1>5. ReleasedAfterDelivery'
  BY <1>e DEF ReleasedAfterDelivery
<1>6. UnderRefund'
  BY <1>e, <1>v DEF UnderRefund, SameHolders
<1>7. RefundCancels'
  BY DEF RefundCancels
<1>8. PreparationStands'
  <2>1. CASE preparing = NoPreparation
    BY <2>1 DEF PreparationStands
  <2>2. CASE preparing # NoPreparation
    <3> DEFINE k == preparing.key
    <3>1. k \in EarningKey /\ k' = k
      BY DEF LifeTypeOK, Preparation
    <3>2. /\ preparing.seen \in {"NONE", "PENDING", "AVAILABLE", "FROZEN"}
          /\ earning[k] = preparing.seen \/ (preparing.seen = "AVAILABLE" /\ earning[k] \in InPayout)
      BY <2>2 DEF PreparationStands
    <3>3. earning'[k] = preparing.seen \/ (preparing.seen = "AVAILABLE" /\ earning'[k] \in InPayout)
      BY <1>e, <3>1, <3>2 DEF InPayout
    <3> QED BY <1>v, <2>2, <3>1, <3>3 DEF PreparationStands, Returning, SameHolders, Nest!Given
  <2> QED BY <2>1, <2>2
<1>10. FrozenForAReason'
  BY <1>e, <1>v DEF FrozenForAReason, SameHolders
<1>11. WorkOrMoney'
  BY <1>v, SameRows DEF WorkOrMoney, Nest!WorkOrMoney, Nest!Given, SameHolders
<1> QED BY <1>1, <1>2, <1>3, <1>4, <1>5, <1>6, <1>7, <1>8, <1>10, <1>11

\* Payout p goes to s, and the others stay.
PayoutGoes(p, s) ==
  /\ payout'[p].status = s /\ payout'[p].items = payout[p].items
  /\ \A q \in PayoutId : q # p => payout'[q] = payout[q]

LEMMA PayoutGone ==
  ASSUME PayoutsTypeOK, NEW p \in PayoutId, NEW s, payout' = [payout EXCEPT ![p].status = s]
  PROVE  PayoutGoes(p, s)
BY DEF PayoutsTypeOK, PayoutRow, PayoutGoes

LEMMA RequestOneWayOut ==
  ASSUME LifeInv, NEW p \in PayoutId, RequestPayout(p) PROVE OneWayOut'
<1> DEFINE items == {k \in EarningKey : Withdrawable(k)}
<1>u. UNCHANGED <<dispute, refund>>
  BY DEF RequestPayout, OnlyEarnings, refundVars
<1>v. WonBeforePaid' <=> WonBeforePaid
  BY <1>u, SameDisputes
<1>p. /\ payout[p].status = "NONE" /\ payout'[p].status = "REQUESTED" /\ payout'[p].items = items
      /\ \A q \in PayoutId : q # p => payout'[q] = payout[q]
  BY DEF RequestPayout, LifeInv, LifeTypeOK, PayoutsTypeOK
<1>e. /\ \A k \in EarningKey : earning'[k] = IF k \in items THEN "PAYOUT_PROCESSING" ELSE earning[k]
      /\ \A k \in items : earning[k] = "AVAILABLE"
      /\ \A k \in items, q \in PayoutId : ~Carries(q, k, LivePayout \cup {"PAID"})
  BY DEF RequestPayout, SetEarnings, Withdrawable, Reserved, Carries
<1>i. \A k \in items : k \in EarningKey
  OBVIOUS
<1> HIDE DEF items
<1>c. /\ \A q \in PayoutId, k \in EarningKey : \A s : q # p => (Carries(q, k, s)' <=> Carries(q, k, s))
      /\ \A k \in EarningKey : Carries(p, k, LivePayout)' <=> k \in items
      /\ \A k \in EarningKey : Carries(p, k, LivePayout \cup {"PAID"})' <=> k \in items
      /\ \A k \in EarningKey : ~Carries(p, k, {"PAID"})'
      /\ \A k \in EarningKey : ~Carries(p, k, LivePayout) /\ ~Carries(p, k, {"PAID"})
      /\ \A q \in PayoutId, k \in items : ~Carries(q, k, LivePayout) /\ ~Carries(q, k, {"PAID"})
  BY <1>p, <1>e, <1>i DEF Carries, LivePayout
<1>1. \A q, r \in PayoutId, k \in EarningKey :
        Carries(q, k, LivePayout \cup {"PAID"})' /\ Carries(r, k, LivePayout \cup {"PAID"})' => q = r
  <2> SUFFICES ASSUME NEW q \in PayoutId, NEW r \in PayoutId, NEW k \in EarningKey,
                      Carries(q, k, LivePayout \cup {"PAID"})', Carries(r, k, LivePayout \cup {"PAID"})'
               PROVE  q = r
    OBVIOUS
  <2>1. CASE k \in items
    BY <1>c, <1>e, <2>1
  <2>2. CASE k \notin items
    <3>1. q # p /\ r # p
      BY <1>c, <2>2
    <3>2. Carries(q, k, LivePayout \cup {"PAID"}) /\ Carries(r, k, LivePayout \cup {"PAID"})
      BY <1>c, <3>1
    <3> QED BY <3>2 DEF LifeInv, OneWayOut
  <2> QED BY <2>1, <2>2
<1>2. ASSUME NEW k \in EarningKey
      PROVE  /\ earning'[k] = "REFUNDED" <=> refund'[k].stage = "SUCCEEDED"
             /\ earning'[k] = "PAYOUT_PROCESSING" => \E q \in PayoutId : Carries(q, k, LivePayout)'
             /\ earning'[k] = "PAID_OUT" => \E q \in PayoutId : Carries(q, k, {"PAID"})'
  <2>1. CASE k \in items
    BY <1>c, <1>e, <1>u, <2>1 DEF LifeInv, OneWayOut
  <2>2. CASE k \notin items
    BY <1>c, <1>e, <1>u, <2>2 DEF LifeInv, OneWayOut
  <2> QED BY <2>1, <2>2
<1>3. WonBeforePaid' \/ \A k \in EarningKey, q \in PayoutId :
        /\ Carries(q, k, LivePayout)' => earning'[k] = "PAYOUT_PROCESSING"
        /\ Carries(q, k, {"PAID"})' => earning'[k] = "PAID_OUT"
  BY <1>c, <1>e, <1>v DEF LifeInv, OneWayOut
<1> QED BY <1>1, <1>2, <1>3 DEF OneWayOut

\* A payout that was live is approved or begun (live, with its earnings), given up
\* (with none), or settled (paid).
LEMMA LiveOneWayOut ==
  ASSUME LifeInv, NEW p \in PayoutId, payout[p].status \in LivePayout, NEW s, PayoutGoes(p, s),
         UNCHANGED <<dispute, refund>>, AssertReserved(p), NEW to,
         \A k \in EarningKey : earning'[k] = IF k \in payout[p].items THEN to ELSE earning[k],
         \/ s \in LivePayout /\ to = "PAYOUT_PROCESSING"
         \/ s \in {"REJECTED", "CANCELLED"} /\ to = "AVAILABLE"
         \/ s = "PAID" /\ to = "PAID_OUT"
  PROVE  OneWayOut'
<1> DEFINE items == payout[p].items
<1>v. WonBeforePaid' <=> WonBeforePaid
  BY SameDisputes
<1>e. /\ \A k \in EarningKey : earning'[k] = IF k \in items THEN to ELSE earning[k]
      /\ \A k \in items : earning[k] = "PAYOUT_PROCESSING"
      /\ to \in {"PAYOUT_PROCESSING", "AVAILABLE", "PAID_OUT"}
  BY DEF AssertReserved
<1>c. /\ \A q \in PayoutId, k \in EarningKey : \A t : q # p => (Carries(q, k, t)' <=> Carries(q, k, t))
      /\ \A k \in EarningKey : Carries(p, k, LivePayout \cup {"PAID"})' => k \in items
      /\ \A k \in EarningKey : Carries(p, k, LivePayout)' <=> k \in items /\ to = "PAYOUT_PROCESSING"
      /\ \A k \in EarningKey : Carries(p, k, {"PAID"})' <=> k \in items /\ to = "PAID_OUT"
      /\ \A k \in EarningKey : ~Carries(p, k, {"PAID"})
      /\ \A k \in EarningKey : Carries(p, k, LivePayout) <=> k \in items
      /\ \A k \in EarningKey : Carries(p, k, LivePayout \cup {"PAID"}) <=> k \in items
      /\ \A q \in PayoutId, k \in EarningKey :
           Carries(q, k, LivePayout) \/ Carries(q, k, {"PAID"}) => Carries(q, k, LivePayout \cup {"PAID"})
  BY DEF Carries, PayoutGoes, LivePayout
<1> HIDE DEF items
<1>o. \A q \in PayoutId, k \in EarningKey :
        k \in items /\ Carries(q, k, LivePayout \cup {"PAID"}) => q = p
  BY <1>c DEF LifeInv, OneWayOut
<1>1. \A q, r \in PayoutId, k \in EarningKey :
        Carries(q, k, LivePayout \cup {"PAID"})' /\ Carries(r, k, LivePayout \cup {"PAID"})' => q = r
  <2> SUFFICES ASSUME NEW q \in PayoutId, NEW r \in PayoutId, NEW k \in EarningKey,
                      Carries(q, k, LivePayout \cup {"PAID"})', Carries(r, k, LivePayout \cup {"PAID"})'
               PROVE  q = r
    OBVIOUS
  <2>1. Carries(q, k, LivePayout \cup {"PAID"}) /\ Carries(r, k, LivePayout \cup {"PAID"})
    BY <1>c
  <2> QED BY <2>1 DEF LifeInv, OneWayOut
<1>2. ASSUME NEW k \in EarningKey
      PROVE  /\ earning'[k] = "REFUNDED" <=> refund'[k].stage = "SUCCEEDED"
             /\ earning'[k] = "PAYOUT_PROCESSING" => \E q \in PayoutId : Carries(q, k, LivePayout)'
             /\ earning'[k] = "PAID_OUT" => \E q \in PayoutId : Carries(q, k, {"PAID"})'
  <2>1. CASE k \in items
    BY <1>c, <1>e, <2>1 DEF LifeInv, OneWayOut
  <2>2. CASE k \notin items
    BY <1>c, <1>e, <2>2 DEF LifeInv, OneWayOut
  <2> QED BY <2>1, <2>2
<1>3. WonBeforePaid' \/ \A k \in EarningKey, q \in PayoutId :
        /\ Carries(q, k, LivePayout)' => earning'[k] = "PAYOUT_PROCESSING"
        /\ Carries(q, k, {"PAID"})' => earning'[k] = "PAID_OUT"
  <2> SUFFICES ASSUME ~WonBeforePaid, NEW k \in EarningKey, NEW q \in PayoutId
               PROVE  /\ Carries(q, k, LivePayout)' => earning'[k] = "PAYOUT_PROCESSING"
                      /\ Carries(q, k, {"PAID"})' => earning'[k] = "PAID_OUT"
    BY <1>v
  <2>1. CASE q = p
    BY <1>c, <1>e, <2>1
  <2>2. CASE q # p
    BY <1>c, <1>e, <1>o, <2>2 DEF LifeInv, OneWayOut
  <2> QED BY <2>1, <2>2
<1> QED BY <1>1, <1>2, <1>3 DEF OneWayOut

-----------------------------------------------------------------------------
\* Whatever either backend does to the order is one of these moves.
Moved ==
  \/ Quiet \/ Completes \/ PaidFreely
  \/ \E i \in DisputeId : PaidUnder(i)
  \/ \E k \in EarningKey : Succeeds(k) \/ Fails(k)
  \/ \E k \in EarningKey, s \in {"REQUIRES_ACTION", "FAILED"} : Charges(k, s)
  \/ \E d \in Delivery : \E a, e : Bought(d, a, e)
  \/ \E i \in DisputeId, k, d \in EarningKey : Opens(i, k, d) /\ Unlocked
  \/ \E i \in DisputeId, k \in EarningKey : GivesBack(i, k)
  \/ \E k \in EarningKey : \E reason, seen : Preparable(k, reason, seen) /\ Prepares(k, reason, seen)
  \/ \E k \in EarningKey : \E reason : Begins(k, reason)
  \/ \E items \in SUBSET EarningKey : \E from, to : Pays(items, from, to) /\ OneWayOut'

LEMMA MovedKeeps == ASSUME LifeInv, LifeTypeOK', Moved PROVE LifeInv'
<1>1. CASE Quiet \/ Completes \/ PaidFreely \/ \E i \in DisputeId : PaidUnder(i)
  BY <1>1, QuietKeeps, CompletesKeeps, PaidFreelyKeeps, PaidUnderKeeps
<1>2. CASE \/ \E k \in EarningKey : Succeeds(k) \/ Fails(k)
           \/ \E k \in EarningKey, s \in {"REQUIRES_ACTION", "FAILED"} : Charges(k, s)
           \/ \E d \in Delivery : \E a, e : Bought(d, a, e)
  BY <1>2, SucceedsKeeps, FailsKeeps, ChargesKeeps, BoughtKeeps
<1>3. CASE \/ \E i \in DisputeId, k, d \in EarningKey : Opens(i, k, d) /\ Unlocked
           \/ \E i \in DisputeId, k \in EarningKey : GivesBack(i, k)
  BY <1>3, OpensKeeps, GivesBackKeeps
<1>4. CASE \/ \E k \in EarningKey : \E reason, seen : Preparable(k, reason, seen) /\ Prepares(k, reason, seen)
           \/ \E k \in EarningKey : \E reason : Begins(k, reason)
           \/ \E items \in SUBSET EarningKey : \E from, to : Pays(items, from, to) /\ OneWayOut'
  BY <1>4, PreparesKeeps, BeginsKeeps, PaysKeeps
<1> QED BY <1>1, <1>2, <1>3, <1>4 DEF Moved

LEMMA RowsOfType ==
  LifeTypeOK => /\ delivered \in Nat /\ delivered \in EarningKey /\ reviewDelivery \in EarningKey
                /\ revision \in [Delivery \X RevisionType -> RevisionStatus]
                /\ charge \in [EarningKey -> ChargeStatus]
                /\ earning \in [EarningKey -> EarningStatus]
                /\ dispute \in [DisputeId -> DisputeRow]
                /\ refund \in [EarningKey -> RefundRow]
BY Keys DEF LifeTypeOK, LaravelTypeOK, TypeOK

\* What is left of a step once the disputes are known to hold what they held.
LEMMA BecomesQuiet ==
  ASSUME Unlocked, UNCHANGED <<dispute, charge, activation, earning, refund, refused>>,
         Turns,
         delivered' = delivered \/ (delivered' = delivered + 1 /\ PaidInFull),
         \A d \in Delivery : revision[Extra(d)] = "NONE" => revision'[Extra(d)] = "NONE"
  PROVE  Quiet
BY SameDisputes DEF Quiet

\* The revision that appears is not an extra one, or is one that was there.
LEMMA OtherRevisions ==
  ASSUME LifeTypeOK, NEW r \in Delivery \X RevisionType, NEW s,
         revision' = [revision EXCEPT ![r] = s], r[2] # "PAID_EXTRA" \/ revision[r] # "NONE"
  PROVE  \A d \in Delivery : revision[Extra(d)] = "NONE" => revision'[Extra(d)] = "NONE"
<1> SUFFICES ASSUME NEW d \in Delivery, revision[Extra(d)] = "NONE" PROVE revision'[Extra(d)] = "NONE"
  OBVIOUS
<1>1. Extra(d) \in Delivery \X RevisionType /\ Extra(d)[2] = "PAID_EXTRA"
  BY DEF Extra, RevisionType
<1>2. Extra(d) # r
  BY <1>1
<1> QED BY <1>1, <1>2, RowsOfType

\* The types of revision that are free are not the extra one.
LEMMA Kinds ==
  \A d \in Delivery : /\ Claim(d) \in Delivery \X RevisionType /\ Claim(d)[2] # "PAID_EXTRA"
                      /\ Included(d) \in Delivery \X RevisionType /\ Included(d)[2] # "PAID_EXTRA"
BY DEF Claim, Included, RevisionType

\* OrderService, DeliveryService and RevisionService of Laravel: quiet, or a completion.
LEMMA LaravelOrdersMove ==
  ASSUME LifeTypeOK, LaravelOrdersNext, Unlocked
  PROVE  Quiet \/ Completes
<1> USE DEF reviewVars, workVars, moneyVars, refundVars
<1>a. ASSUME NEW from, NEW to, ChangeStatus(from, to), Turns PROVE Quiet
  BY <1>a, BecomesQuiet DEF ChangeStatus
<1>b. ASSUME UNCHANGED <<rowVars, refundVars>> PROVE Quiet
  BY <1>b, BecomesQuiet DEF rowVars, orderVars, Turns
<1>1. CASE Accept \/ Reject \/ Cancel
  <2>1. \E to \in {"ACCEPTED", "REJECTED", "CANCELLED"} : ChangeStatus("REQUESTED", to)
    BY <1>1 DEF Accept, Reject, Cancel
  <2> QED BY <1>a, <2>1 DEF ChangeStatus, Turns
<1>2. CASE StartChecked \/ StartWritten
  <2>1. CASE ChangeStatus("ACCEPTED", "IN_PROGRESS") /\ starting
    BY <1>a, <2>1 DEF ChangeStatus, Turns
  <2> QED BY <1>2, <1>b, <2>1 DEF StartChecked, StartWritten
<1>3. CASE DeliverFirst
  BY <1>3, BecomesQuiet DEF DeliverFirst, SubmitVersion, Turns
<1>4. ASSUME NEW r \in OpenRevisions, DeliverRevision(r) PROVE Quiet
  <2>1. r \in Delivery \X RevisionType /\ revision[r] # "NONE"
    BY RowsOfType DEF OpenRevisions, Revisions
  <2>2. \A d \in Delivery : revision[Extra(d)] = "NONE" => revision'[Extra(d)] = "NONE"
    BY <1>4, <2>1, OtherRevisions DEF DeliverRevision
  <2> QED BY <1>4, <2>2, BecomesQuiet DEF DeliverRevision, SubmitVersion, Turns
<1>r. ActionableReview(PendingRevisions) => reviewDelivery \in Delivery
  BY Keys, RowsOfType DEF ActionableReview, ReviewIsCurrent, Original
<1>5. CASE RequestRevision
  <2>1. \A d \in Delivery : revision[Extra(d)] = "NONE" => revision'[Extra(d)] = "NONE"
    BY <1>5, <1>r, Kinds, OtherRevisions DEF RequestRevision, SendBack
  <2> QED BY <1>5, <2>1, BecomesQuiet DEF RequestRevision, SendBack, ActionableReview, Turns
<1>6. ASSUME NEW d \in Delivery, NEW s, SetClaim(d, s) PROVE Quiet
  <2>1. \A x \in Delivery : revision[Extra(x)] = "NONE" => revision'[Extra(x)] = "NONE"
    BY <1>6, Kinds, OtherRevisions DEF SetClaim
  <2> QED BY <1>6, <2>1, BecomesQuiet DEF SetClaim, orderVars, Turns
<1>7. CASE RequestProviderCorrection
  BY <1>6, <1>7, <1>r DEF RequestProviderCorrection
<1>8. ASSUME NEW d \in Delivery, AcceptProviderCorrection(d) PROVE Quiet
  <2>1. \A x \in Delivery : revision[Extra(x)] = "NONE" => revision'[Extra(x)] = "NONE"
    BY <1>8, Kinds, OtherRevisions DEF AcceptProviderCorrection, SendBack
  <2> QED BY <1>8, <2>1, BecomesQuiet DEF AcceptProviderCorrection, SendBack, ActionableReview, Turns
<1>9. CASE Complete \/ ReconcileExpiredReview
  BY <1>9 DEF Complete, ReconcileExpiredReview, CompleteReviewedOrder, Completes, Reviewable, ReviewIsCurrent
<1> QED BY <1>1, <1>2, <1>3, <1>4, <1>5, <1>6, <1>7, <1>8, <1>9
        DEF LaravelOrdersNext, Deliver, DecideProviderCorrection

\* The steps of a dispute that leave its target and what it remembers.
LEMMA DisputeGoesOn ==
  ASSUME LifeTypeOK, Unlocked, UNCHANGED <<status, delivered, revision, charge, activation, earning, refund, refused>>,
         \A i \in DisputeId :
           /\ dispute'[i].target = dispute[i].target /\ dispute'[i].preFreeze = dispute[i].preFreeze
           /\ \/ dispute'[i].status = dispute[i].status
              \/ dispute'[i].status \in ActiveStatuses \cup {"RESOLVED_CLIENT"} /\ IsActive(i)
              \/ dispute[i].preFreeze = "NONE" /\ dispute'[i].status \in Restoring /\ IsActive(i)
  PROVE  Quiet
<1>1. \A i \in DisputeId : IsActive(i)' => IsActive(i)
  BY DEF IsActive, ActiveStatuses, Waiting, Restoring
<1>2. \A i \in DisputeId, k \in EarningKey : HeldBy(i, k)' <=> HeldBy(i, k)
  BY DEF HeldBy, IsActive
<1>3. \A i \in DisputeId : dispute[i].status = "RESOLVED_CLIENT" => dispute'[i].status = "RESOLVED_CLIENT"
  BY DEF IsActive, ActiveStatuses, Waiting
<1>4. (WonBeforePaid => WonBeforePaid') /\ \A k \in EarningKey : Nest!Won(k) => Nest!Won(k)'
  BY <1>3 DEF WonBeforePaid, Nest!Won, Nest!DisputeId, DisputeId
<1> QED BY <1>1, <1>2, <1>4 DEF Quiet, SameHolders, Turns

\* DisputeService of Laravel: quiet, or a dispute opens, or gives back what it held.
LEMMA LaravelDisputesMove ==
  ASSUME LifeTypeOK, LaravelDisputesNext \/ LaravelTick, Unlocked
  PROVE  \/ Quiet
         \/ \E i \in DisputeId, k, d \in EarningKey : Opens(i, k, d)
         \/ \E i \in DisputeId, k \in EarningKey : GivesBack(i, k)
<1>r. dispute \in [DisputeId -> DisputeRow] /\ \A i \in DisputeId : dispute[i] \in DisputeRow
  BY RowsOfType
<1>1. ASSUME NEW i \in DisputeId, NEW by \in Parties, NEW escalation \in BOOLEAN, OpenDispute(i, by, escalation)
      PROVE  \E k, d \in EarningKey : Opens(i, k, d)
  BY <1>1, LaravelOpens, LaravelTargetTyped DEF LifeTypeOK, LaravelTypeOK
<1>2. ASSUME NEW i \in DisputeId, NEW new, SetDispute(i, new), IsActive(i), new.status \in ActiveStatuses,
             new.target = dispute[i].target, new.preFreeze = dispute[i].preFreeze
      PROVE  Quiet
  <2>1. /\ dispute'[i] = new /\ \A j \in DisputeId : j # i => dispute'[j] = dispute[j]
    BY <1>2, <1>r DEF SetDispute
  <2> QED BY <1>2, <2>1, DisputeGoesOn
          DEF SetDispute, orderVars, reviewVars, workVars, moneyVars, refundVars
<1>3. ASSUME NEW i \in DisputeId,
             \/ SubmitResponse(i) \/ ReconcileExpiredResponse(i) \/ MarkReady(i) \/ BeginReview(i)
             \/ \E party \in Parties : RequestResponse(i, party)
      PROVE  Quiet
  <2>1. \A s : LET new == [dispute[i] EXCEPT !.status = s] IN
          new.status = s /\ new.target = dispute[i].target /\ new.preFreeze = dispute[i].preFreeze
    BY <1>r DEF DisputeRow
  <2>2. \A s : LET new == [dispute[i] EXCEPT !.status = s, !.left = ResponseWindow] IN
          new.status = s /\ new.target = dispute[i].target /\ new.preFreeze = dispute[i].preFreeze
    BY <1>r DEF DisputeRow
  <2>3. /\ "READY_FOR_REVIEW" \in ActiveStatuses /\ "UNDER_REVIEW" \in ActiveStatuses
        /\ \A party \in Parties : WaitingFor(party) \in ActiveStatuses
    BY DEF ActiveStatuses, Waiting, Parties, WaitingFor
  <2>4. IsActive(i)
    BY <1>3 DEF SubmitResponse, ReconcileExpiredResponse, MarkReady, BeginReview, RequestResponse, IsActive,
                ActiveStatuses
  <2>5. ASSUME NEW party \in Parties, RequestResponse(i, party) PROVE Quiet
    <3> DEFINE new == [dispute[i] EXCEPT !.status = WaitingFor(party), !.left = ResponseWindow]
    <3>1. /\ new.status \in ActiveStatuses /\ new.target = dispute[i].target
          /\ new.preFreeze = dispute[i].preFreeze
      BY <2>2, <2>3
    <3>2. SetDispute(i, new)
      BY <2>5 DEF RequestResponse
    <3> HIDE DEF new
    <3> QED BY <1>2, <2>4, <3>1, <3>2
  <2>6. ASSUME NEW s \in ActiveStatuses, SetDispute(i, [dispute[i] EXCEPT !.status = s]) PROVE Quiet
    <3> DEFINE new == [dispute[i] EXCEPT !.status = s]
    <3>1. /\ new.status \in ActiveStatuses /\ new.target = dispute[i].target
          /\ new.preFreeze = dispute[i].preFreeze
      BY <2>1
    <3>2. SetDispute(i, new)
      BY <2>6
    <3> HIDE DEF new
    <3> QED BY <1>2, <2>4, <3>1, <3>2
  <2> QED BY <1>3, <2>3, <2>5, <2>6 DEF SubmitResponse, ReconcileExpiredResponse, MarkReady, BeginReview, Ready
<1>4. ASSUME NEW i \in DisputeId, NEW decision \in FinalStatuses, Resolve(i, decision)
      PROVE  Quiet \/ \E k \in EarningKey : GivesBack(i, k)
  <2>1. /\ \A j \in DisputeId : j # i => dispute'[j] = dispute[j]
        /\ dispute'[i].status = decision /\ dispute'[i].target = dispute[i].target
        /\ dispute'[i].preFreeze = dispute[i].preFreeze
        /\ dispute[i].target \in EarningKey
        /\ UNCHANGED <<status, delivered, revision, charge, activation, refund, refused>>
        /\ IsActive(i)
    BY <1>4, <1>r DEF Resolve, DisputeRow, orderVars, workVars, refundVars
  <2>2. CASE decision = "RESOLVED_CLIENT"
    BY <1>4, <2>1, <2>2, DisputeGoesOn DEF Resolve, Restoring
  <2>3. CASE decision \in Restoring /\ dispute[i].preFreeze = "NONE"
    <3>1. UNCHANGED earning
      BY <1>4, <2>3 DEF Resolve, RestoreEarning
    <3> QED BY <2>1, <2>3, <3>1, DisputeGoesOn
  <2>4. CASE decision \in Restoring /\ dispute[i].preFreeze # "NONE"
    <3>1. GivesBack(i, dispute[i].target)
      BY <1>4, <2>1, <2>4 DEF Resolve, RestoreEarning, GivesBack
    <3> QED BY <2>1, <3>1
  <2> QED BY <2>2, <2>3, <2>4 DEF FinalStatuses
<1>5. CASE LaravelTick
  <2>1. \A i \in DisputeId : /\ dispute'[i].target = dispute[i].target /\ dispute'[i].preFreeze = dispute[i].preFreeze
                             /\ dispute'[i].status = dispute[i].status
    BY <1>5, <1>r DEF LaravelTick, DisputeRow
  <2> QED BY <1>5, <2>1, DisputeGoesOn DEF LaravelTick, orderVars, workVars, moneyVars, refundVars
<1> QED BY <1>1, <1>3, <1>4, <1>5 DEF LaravelDisputesNext

\* A delivery exists for every purchase that has been begun.
LEMMA BegunIsDelivered ==
  ASSUME LifeInv, NEW k \in EarningKey, charge[k] # "NONE", k # Original
  PROVE  k \in Delivery /\ k <= delivered
BY Keys DEF LifeInv, PurchasesOfDeliveries

\* Before anything is delivered only the original payment can have been made.
LEMMA NothingGiven ==
  ASSUME LifeInv, NEW k \in EarningKey, charge[k] # "NONE", delivered = 0
  PROVE  k = Original /\ ~Nest!Given(k)
<1>1. k = Original
  <2> SUFFICES ASSUME k # Original PROVE FALSE
    OBVIOUS
  <2>1. k \in Delivery /\ k <= delivered
    BY BegunIsDelivered
  <2> QED BY <2>1 DEF Delivery
<1> QED BY <1>1, SameRows DEF Nest!Given

\* Two refunds an administrator may begin at any time: of a purchase that was never
\* begun, and of one the client has won.
LEMMA NeverBegun ==
  ASSUME LifeInv, NEW k \in Delivery, activation[k] = "RECONCILIATION_REQUIRED"
  PROVE  ~Nest!Given(k) /\ earning[k] \in {"NONE", "FROZEN"}
BY Keys, SameRows DEF LifeInv, PurchasesOfDeliveries, Nest!Given

\* What a client has won was held, or the dispute was opened before the payment.
LEMMA WonIsHeld ==
  ASSUME LifeInv, NEW k \in EarningKey, Nest!Won(k)
  PROVE  earning[k] \in {"FROZEN", "REFUNDED"} \/ WonBeforePaid
<1>1. PICK i \in DisputeId : dispute[i].status = "RESOLVED_CLIENT" /\ dispute[i].target = k
  BY SameRows DEF Nest!Won
<1>2. CASE dispute[i].preFreeze = "NONE"
  BY <1>1, <1>2 DEF WonBeforePaid
<1>3. CASE dispute[i].preFreeze # "NONE"
  <2>1. HeldBy(i, k)
    BY <1>1, <1>3 DEF HeldBy
  <2> QED BY <2>1 DEF LifeInv, HeldByOne
<1> QED BY <1>2, <1>3

\* The reason names what may be returned.
LEMMA AdminMayPrepare ==
  ASSUME LifeInv, NEW k \in EarningKey, NEW reason \in Reason, Refundable(k, reason),
         earning[k] = "NONE" => reason = "STALE_REVISION_PAYMENT",
         \/ reason = "DISPUTE_CLIENT_WIN" /\ Nest!Won(k)
         \/ reason = "ADMIN_EXCEPTION" /\ delivered = 0
         \/ reason = "STALE_REVISION_PAYMENT" /\ k # Original /\ activation[k] = "RECONCILIATION_REQUIRED"
         \/ reason \in Nest!ClientReason /\ delivered = 0
  PROVE  Preparable(k, reason, earning[k]) /\ (earning[k] = "AVAILABLE" => WonBeforePaid)
<1>t. earning[k] \in EarningStatus
  BY RowsOfType DEF LifeInv
<1>0. k # Original => k \in Delivery
  BY Keys
<1>1. /\ charge[k] = "PAID" /\ ~Returning(k)
      /\ earning[k] \in {"NONE", "PENDING", "AVAILABLE", "FROZEN"}
  BY <1>t DEF Refundable, Returning, InPayout, EarningStatus
<1>2. delivered = 0 => ~Nest!Given(k) /\ earning[k] # "AVAILABLE"
  BY <1>1, NothingGiven DEF LifeInv, ReleasedAfterDelivery
<1>3. reason = "STALE_REVISION_PAYMENT" => /\ k \in Delivery /\ activation[k] = "RECONCILIATION_REQUIRED"
                                         /\ ~Nest!Given(k) /\ earning[k] # "AVAILABLE"
  BY <1>0, NeverBegun DEF Nest!ClientReason
<1>7. k \in Delivery => Nest!Won(k) \/ activation[k] = "RECONCILIATION_REQUIRED"
  BY <1>1, NothingGiven, Keys
<1>4. reason = "DISPUTE_CLIENT_WIN" => Nest!Won(k) /\ (earning[k] = "AVAILABLE" => WonBeforePaid)
  BY WonIsHeld DEF Nest!ClientReason
<1>5. Nest!Given(k) => Nest!Won(k)
  BY <1>2, <1>3, <1>4
<1>6. earning[k] = "AVAILABLE" => WonBeforePaid
  BY <1>2, <1>3, <1>4
<1> QED BY <1>1, <1>3, <1>5, <1>6, <1>7 DEF Preparable

\* The ends of a refund are the two moves.
LEMMA RefundEndings ==
  ASSUME NEW k \in EarningKey, Unlocked
  PROVE  /\ RefundSucceeds(k) => Succeeds(k)
         /\ RefundFails(k) => Fails(k)
<1>1. ASSUME RefundSucceeds(k) PROVE Succeeds(k)
  BY <1>1 DEF RefundSucceeds, Succeeds, Ends, orderVars, workVars
<1>2. ASSUME RefundFails(k) PROVE Fails(k)
  BY <1>2 DEF RefundFails, Fails, Ends, orderVars, workVars
<1> QED BY <1>1, <1>2

\* A confirmed extra revision is bought, begun or stale.
LEMMA Purchases ==
  ASSUME Unlocked, NEW d \in Delivery, NEW paidInTime \in BOOLEAN, MarkRevisionPaid(d, paidInTime)
  PROVE  \E a, e : Bought(d, a, e)
<1>1. CASE CanActivate(d, paidInTime)
  <2>1. Bought(d, "ACTIVATED", "PENDING")
    BY <1>1 DEF MarkRevisionPaid, CanActivate, SendBack, Bought, refundVars
  <2> QED BY <2>1
<1>2. CASE ~CanActivate(d, paidInTime)
  <2>1. Bought(d, "RECONCILIATION_REQUIRED", earning[d])
    BY <1>2 DEF MarkRevisionPaid, Bought, refundVars
  <2> QED BY <2>1
<1> QED BY <1>1, <1>2

\* PaymentService and the refunds of Laravel.
LEMMA LaravelPaymentsMove ==
  ASSUME LifeInv, LaravelPaymentsNext, Unlocked
  PROVE  Moved
<1>t. LifeTypeOK
  BY DEF LifeInv
<1>1. ASSUME NEW k \in EarningKey, NEW s \in {"REQUIRES_ACTION", "FAILED"}, SetCharge(k, s),
             charge[k] \in {"NONE", "FAILED", "REQUIRES_ACTION"}, k # Original => k <= delivered,
             k = Original /\ charge[k] # "REQUIRES_ACTION" => status \in PayableStatuses
      PROVE  Moved
  <2>1. Charges(k, s)
    BY <1>1, Keys DEF SetCharge, Charges, orderVars, workVars, refundVars
  <2> QED BY <2>1 DEF Moved
<1>2. CASE CreateCheckout
  BY <1>1, <1>2, Keys DEF CreateCheckout
<1>3. CASE CreateExtraRevisionCheckout
  <2>1. reviewDelivery \in EarningKey /\ reviewDelivery <= delivered
    BY <1>t, <1>3, RowsOfType DEF CreateExtraRevisionCheckout, ExtraRevisionAvailable, ReviewIsCurrent
  <2>2. reviewDelivery # Original
    BY <1>3 DEF CreateExtraRevisionCheckout, ExtraRevisionAvailable, ReviewIsCurrent, Original
  <2> QED BY <1>1, <1>3, <2>1, <2>2 DEF CreateExtraRevisionCheckout
<1>4. ASSUME NEW k \in EarningKey, PaymentFailed(k) PROVE Moved
  <2>1. charge[k] = "REQUIRES_ACTION" /\ SetCharge(k, "FAILED")
    BY <1>4 DEF PaymentFailed
  <2>2. k # Original => k <= delivered
    BY <2>1, BegunIsDelivered
  <2> QED BY <1>1, <2>1, <2>2
<1>5. CASE MarkPaid
  <2>1. PaidFreely
    BY <1>5 DEF MarkPaid, PaidFreely, orderVars, workVars, refundVars
  <2> QED BY <2>1 DEF Moved
<1>6. ASSUME NEW d \in Delivery, NEW paidInTime \in BOOLEAN, MarkRevisionPaid(d, paidInTime) PROVE Moved
  BY <1>6, Purchases DEF Moved
<1>7. ASSUME NEW reason \in Reason, RequestRefund(reason) PROVE Moved
  <2>1. /\ Preparable(Original, reason, earning[Original])
        /\ reason \in Nest!ClientReason /\ delivered = 0
    <3>1. reason \in Nest!ClientReason /\ delivered = 0
      BY <1>7 DEF RequestRefund, Nest!ClientReason
    <3> QED BY <1>7, <3>1, AdminMayPrepare, Keys DEF RequestRefund
  <2>2. Prepares(Original, reason, earning[Original])
    BY <1>7 DEF RequestRefund, Prepares, Unlocked
  <2> QED BY <2>1, <2>2, Keys DEF Moved
<1>8. ASSUME NEW k \in EarningKey, RefundSucceeds(k) \/ RefundFails(k) PROVE Moved
  BY <1>8, RefundEndings DEF Moved
<1> QED BY <1>2, <1>3, <1>4, <1>5, <1>6, <1>7, <1>8 DEF LaravelPaymentsNext

\* An administrator's refund reads what it needs.
LEMMA BeginMoves ==
  ASSUME LifeInv, NEW k \in EarningKey, NEW reason \in Reason, BeginAdminRefund(k, reason), UNCHANGED payout
  PROVE  Moved
<1>1. /\ Refundable(k, reason) /\ earning[k] = "NONE" => reason = "STALE_REVISION_PAYMENT"
      /\ reason \notin Nest!ClientReason
  BY DEF BeginAdminRefund, AdminReason, Nest!ClientReason
<1>2. \/ reason = "DISPUTE_CLIENT_WIN" /\ Nest!Won(k)
      \/ reason = "ADMIN_EXCEPTION" /\ delivered = 0
      \/ reason = "STALE_REVISION_PAYMENT" /\ k # Original /\ activation[k] = "RECONCILIATION_REQUIRED"
  BY SameRows DEF BeginAdminRefund, AdminReason, Nest!Won
<1>3. Preparable(k, reason, earning[k]) /\ (earning[k] = "AVAILABLE" => WonBeforePaid)
  BY <1>1, <1>2, AdminMayPrepare DEF BeginAdminRefund
<1>4. Begins(k, reason)
  BY <1>1, <1>3 DEF BeginAdminRefund, Begins, laravelVars, rowVars, orderVars, workVars, moneyVars, refundVars
<1> QED BY <1>4 DEF Moved

\* It prepares from what it has read.
LEMMA PrepareAdminMoves ==
  ASSUME LifeInv, PrepareAdminRefund, UNCHANGED payout
  PROVE  Moved
<1> DEFINE k == preparing.key
<1>1. k \in EarningKey
  BY DEF LifeInv, LifeTypeOK, Preparation
<1>2. Preparable(k, preparing.reason, preparing.seen) /\ preparing.reason \notin Nest!ClientReason
  BY DEF PrepareAdminRefund, LifeInv, PreparationStands, Preparable
<1>3. Prepares(k, preparing.reason, preparing.seen)
  BY <1>2 DEF PrepareAdminRefund, Prepares
<1> QED BY <1>1, <1>2, <1>3 DEF Moved

\* ProviderPayoutService: a payout is requested, goes on, is paid or is turned down.
LEMMA PayoutsMove ==
  ASSUME LifeInv, LaravelPayoutsNext, UNCHANGED preparing
  PROVE  Moved
<1> SUFFICES ASSUME NEW p \in PayoutId,
                    \/ RequestPayout(p) \/ ApprovePayout(p) \/ BeginManual(p) \/ SettleManual(p)
                    \/ \E final \in {"REJECTED", "CANCELLED"} : ReleaseReservation(p, final)
             PROVE  Moved
  BY DEF LaravelPayoutsNext
<1>t. /\ earning \in [EarningKey -> EarningStatus] /\ PayoutsTypeOK /\ payout[p].items \in SUBSET EarningKey
  BY RowsOfType DEF LifeInv, LifeTypeOK, PayoutsTypeOK, PayoutRow
<1>u. UNCHANGED <<status, delivered, revision, charge, activation, dispute, refund, refused, preparing>>
  BY DEF RequestPayout, ApprovePayout, BeginManual, AdvancePayout, SettleManual, ReleaseReservation,
         OnlyEarnings, orderVars, workVars, refundVars
<1>1. CASE RequestPayout(p)
  <2> DEFINE items == {k \in EarningKey : Withdrawable(k)}
  <2>1. Pays(items, "AVAILABLE", "PAYOUT_PROCESSING") /\ items \in SUBSET EarningKey
    BY <1>1, <1>u DEF RequestPayout, Pays, SetEarnings, Withdrawable
  <2>2. OneWayOut'
    BY <1>1, RequestOneWayOut
  <2> HIDE DEF items
  <2> QED BY <2>1, <2>2 DEF Moved
<1>2. ASSUME NEW s, NEW to, payout[p].status \in LivePayout, payout' = [payout EXCEPT ![p].status = s],
             AssertReserved(p),
             earning' = [k \in EarningKey |-> IF k \in payout[p].items THEN to ELSE earning[k]],
             \/ s \in LivePayout /\ to = "PAYOUT_PROCESSING"
             \/ s \in {"REJECTED", "CANCELLED"} /\ to = "AVAILABLE"
             \/ s = "PAID" /\ to = "PAID_OUT"
      PROVE  Moved
  <2>1. PayoutGoes(p, s)
    BY <1>2, <1>t, PayoutGone
  <2>2. OneWayOut'
    <3>1. \A k \in EarningKey : earning'[k] = IF k \in payout[p].items THEN to ELSE earning[k]
      BY <1>2
    <3> QED BY <1>2, <1>u, <2>1, <3>1, LiveOneWayOut
  <2>3. \A k \in payout[p].items : refund[k].stage # "ACTIVE"
    BY <1>2, <1>t DEF AssertReserved, LifeInv, UnderRefund
  <2>4. Pays(payout[p].items, "PAYOUT_PROCESSING", to)
    BY <1>2, <1>u, <2>3 DEF Pays, AssertReserved
  <2> QED BY <1>t, <2>2, <2>4 DEF Moved
<1>3. CASE ApprovePayout(p) \/ BeginManual(p)
  <2>1. PICK s \in {"APPROVED", "PROCESSING"} : payout' = [payout EXCEPT ![p].status = s]
    BY <1>3 DEF ApprovePayout, BeginManual, AdvancePayout
  <2>2. payout[p].status \in LivePayout /\ s \in LivePayout /\ AssertReserved(p) /\ UNCHANGED earning
    BY <1>3 DEF ApprovePayout, BeginManual, AdvancePayout, LivePayout
  <2>3. earning' = [k \in EarningKey |-> IF k \in payout[p].items THEN "PAYOUT_PROCESSING" ELSE earning[k]]
    BY <1>t, <2>2 DEF AssertReserved
  <2> QED BY <1>2, <2>1, <2>2, <2>3
<1>4. CASE SettleManual(p)
  <2>1. payout[p].status \in LivePayout
    BY <1>4 DEF SettleManual, LivePayout
  <2> QED BY <1>2, <1>4, <2>1 DEF SettleManual, SetEarnings
<1>5. ASSUME NEW final \in {"REJECTED", "CANCELLED"}, ReleaseReservation(p, final) PROVE Moved
  <2>1. payout[p].status \in LivePayout
    BY <1>5 DEF ReleaseReservation, LivePayout
  <2> QED BY <1>2, <1>5, <2>1 DEF ReleaseReservation, SetEarnings
<1> QED BY <1>1, <1>3, <1>4, <1>5

LEMMA TypedReasons ==
  LifeInv => /\ LifeTypeOK
             /\ \A k \in EarningKey : refund[k].stage = "ACTIVE" => refund[k].reason \in Reason
             /\ preparing.reason \in Reason \/ preparing = NoPreparation
BY DEF LifeInv, UnderRefund, PreparationStands

\* A step of the Laravel backend.
LEMMA LaravelMoves == LifeInv /\ LifeNext => Moved
<1> SUFFICES ASSUME LifeInv, LifeNext PROVE Moved
  OBVIOUS
<1>t. LifeTypeOK
  BY TypedReasons
<1>1. CASE OnTheOrder(LaravelOrdersNext) \/ OnTheOrder(LaravelDisputesNext) \/ OnTheOrder(LaravelTick)
  <2>1. Unlocked /\ (LaravelOrdersNext \/ LaravelDisputesNext \/ LaravelTick)
    BY <1>1 DEF OnTheOrder, Unlocked
  <2> QED BY <1>t, <2>1, LaravelOrdersMove, LaravelDisputesMove DEF Moved
<1>2. CASE OnTheOrder(LaravelPaymentsNext)
  BY <1>2, LaravelPaymentsMove DEF OnTheOrder, Unlocked
<1>3. CASE \E k \in EarningKey, reason \in Reason : BeginAdminRefund(k, reason) /\ UNCHANGED payout
  BY <1>3, BeginMoves
<1>4. CASE PrepareAdminRefund /\ UNCHANGED payout
  BY <1>4, PrepareAdminMoves
<1>5. CASE LaravelPayoutsNext /\ UNCHANGED preparing
  BY <1>5, PayoutsMove
<1> QED BY <1>1, <1>2, <1>3, <1>4, <1>5 DEF LifeNext

LEMMA LaravelKeeps == LifeInv /\ LifeNext => LifeInv'
BY LaravelMoves, MovedKeeps, TypedReasons, LaravelTyped

-----------------------------------------------------------------------------
\* OrdersService of NestJS: quiet, or a completion.
LEMMA NestOrdersMove ==
  ASSUME LifeTypeOK, Nest!OrdersNext, UNCHANGED refundVars, Unlocked
  PROVE  Quiet \/ Completes
<1> USE SameRows DEF Nest!reviewVars, Nest!workVars, Nest!moneyVars, Nest!orderVars, refundVars
<1>1. CASE Nest!Accept \/ Nest!Reject \/ Nest!Cancel \/ Nest!Start
  BY <1>1, BecomesQuiet DEF Nest!Accept, Nest!Reject, Nest!Cancel, Nest!Start, Nest!Startable, Turns
<1>2. CASE Nest!DeliverFirst
  BY <1>2, BecomesQuiet DEF Nest!DeliverFirst, Nest!FirstDue, Nest!SubmitVersion, Turns
<1>3. ASSUME NEW r \in OpenRevisions, Nest!DeliverRevision(r) PROVE Quiet
  <2>1. r \in Delivery \X RevisionType /\ revision[r] # "NONE"
    BY RowsOfType DEF OpenRevisions, Revisions
  <2>2. \A d \in Delivery : revision[Extra(d)] = "NONE" => revision'[Extra(d)] = "NONE"
    BY <1>3, <2>1, OtherRevisions DEF Nest!DeliverRevision
  <2> QED BY <1>3, <2>2, BecomesQuiet DEF Nest!DeliverRevision, Nest!RevisionDue, Nest!SubmitVersion, Turns
<1>r. Nest!ActionableReview(PendingRevisions) => reviewDelivery \in Delivery
  BY Keys, RowsOfType DEF Nest!ActionableReview, ReviewIsCurrent, Original
<1>4. CASE Nest!RequestRevision
  <2>1. \A d \in Delivery : revision[Extra(d)] = "NONE" => revision'[Extra(d)] = "NONE"
    BY <1>4, <1>r, Kinds, OtherRevisions DEF Nest!RequestRevision
  <2> QED BY <1>4, <2>1, BecomesQuiet DEF Nest!RequestRevision, Nest!ActionableReview, Turns
<1>5. CASE Nest!RequestProviderCorrection
  <2>1. \A d \in Delivery : revision[Extra(d)] = "NONE" => revision'[Extra(d)] = "NONE"
    BY <1>5, <1>r, Kinds, OtherRevisions DEF Nest!RequestProviderCorrection, Nest!Claimable
  <2> QED BY <1>5, <2>1, BecomesQuiet DEF Nest!RequestProviderCorrection, Turns
<1>6. ASSUME NEW d \in Delivery, Nest!AcceptProviderCorrection(d) PROVE Quiet
  <2>1. \A x \in Delivery : revision[Extra(x)] = "NONE" => revision'[Extra(x)] = "NONE"
    BY <1>6, Kinds, OtherRevisions DEF Nest!AcceptProviderCorrection
  <2> QED BY <1>6, <2>1, BecomesQuiet DEF Nest!AcceptProviderCorrection, Nest!ActionableReview, Turns
<1>7. ASSUME NEW d \in Delivery, Nest!DeclineProviderCorrection(d) PROVE Quiet
  <2>1. \A x \in Delivery : revision[Extra(x)] = "NONE" => revision'[Extra(x)] = "NONE"
    BY <1>7, Kinds, OtherRevisions DEF Nest!DeclineProviderCorrection
  <2> QED BY <1>7, <2>1, BecomesQuiet DEF Nest!DeclineProviderCorrection, Turns
<1>8. CASE Nest!Complete \/ Nest!ReconcileExpiredReview
  <2>1. PICK source : Nest!CompleteReviewedOrder(source)
    BY <1>8 DEF Nest!Complete, Nest!ReconcileExpiredReview
  <2>2. Nest!ReleasableEarnings = PendingEarnings /\ Original \in PendingEarnings
    BY <2>1, Keys DEF Nest!CompleteReviewedOrder, Nest!Completable, Nest!ReleasableEarnings, Nest!ExtraEarnings,
                      PendingEarnings
  <2>3. Completes
    BY <2>1, <2>2 DEF Nest!CompleteReviewedOrder, Nest!Completable, Completes, ReviewIsCurrent
  <2> QED BY <2>3
<1> QED BY <1>1, <1>2, <1>3, <1>4, <1>5, <1>6, <1>7, <1>8
        DEF Nest!OrdersNext, Nest!Deliver, Nest!DecideProviderCorrection

\* A first payment falls under the dispute about it, if there is one.
LEMMA NestPaidMoves ==
  ASSUME LifeInv, Nest!MarkPaid, UNCHANGED refundVars, Unlocked
  PROVE  Moved
<1> USE SameRows DEF Nest!reviewVars, Nest!workVars, Nest!moneyVars, Nest!orderVars, refundVars
<1>d. dispute \in [DisputeId -> DisputeRow]
  BY RowsOfType DEF LifeInv
<1>m. /\ UNCHANGED <<status, delivered, revision, activation, refund, refused>>
      /\ charge[Original] = "REQUIRES_ACTION" /\ charge' = [charge EXCEPT ![Original] = "PAID"]
      /\ earning' = [earning EXCEPT ![Original] = IF Nest!PaymentDisputed THEN "FROZEN" ELSE "PENDING"]
      /\ dispute' = [i \in DisputeId |-> Nest!FrozenRow(i)]
  BY DEF Nest!MarkPaid
<1>1. CASE ~Nest!PaymentDisputed
  <2>1. \A i \in DisputeId : Nest!FrozenRow(i) = dispute[i]
    BY <1>1 DEF Nest!PaymentDisputed, Nest!FrozenRow
  <2>2. UNCHANGED dispute
    BY <1>d, <1>m, <2>1
  <2>3. PaidFreely
    BY <1>1, <1>m, <2>2 DEF PaidFreely
  <2> QED BY <2>3 DEF Moved
<1>2. CASE Nest!PaymentDisputed
  <2>1. PICK i \in DisputeId : Nest!FreezingDispute(i)
    BY <1>2 DEF Nest!PaymentDisputed
  <2>2. IsActive(i) /\ dispute[i].target = Original /\ \A j \in DisputeId : Nest!FreezingDispute(j) => j = i
    BY <2>1 DEF Nest!FreezingDispute, LifeInv, OneActiveDispute
  <2>3. \A j \in DisputeId :
          Nest!FrozenRow(j) = IF j = i THEN [dispute[i] EXCEPT !.preFreeze = "PENDING"] ELSE dispute[j]
    BY <2>1, <2>2 DEF Nest!FrozenRow
  <2>4. dispute' = [dispute EXCEPT ![i].preFreeze = "PENDING"]
    BY <1>d, <1>m, <2>3
  <2>5. PaidUnder(i)
    BY <1>2, <1>m, <2>2, <2>4 DEF PaidUnder
  <2> QED BY <2>5 DEF Moved
<1> QED BY <1>1, <1>2

\* PaymentsService of NestJS.
LEMMA NestLedgerMoves ==
  ASSUME LifeInv, Nest!LedgerNext, UNCHANGED <<refundVars, starting>>, Unlocked
  PROVE  Moved
<1> USE SameRows DEF Nest!reviewVars, Nest!workVars, Nest!moneyVars, Nest!orderVars, refundVars
<1>t. LifeTypeOK
  BY DEF LifeInv
<1>1. CASE Nest!CreateCheckout
  <2>1. Charges(Original, "REQUIRES_ACTION")
    BY <1>1, Keys DEF Nest!CreateCheckout, Nest!OrderPayable, Charges, Nest!PayableStatuses, PayableStatuses
  <2> QED BY <2>1, Keys DEF Moved
<1>2. CASE Nest!CreateExtraRevisionCheckout
  <2>1. reviewDelivery \in EarningKey /\ reviewDelivery <= delivered
    BY <1>t, <1>2, RowsOfType DEF Nest!CreateExtraRevisionCheckout, Nest!ExtraPayable, Nest!ExtraRevisionAvailable, ReviewIsCurrent
  <2>3. reviewDelivery # Original
    BY <1>2 DEF Nest!CreateExtraRevisionCheckout, Nest!ExtraPayable, Nest!ExtraRevisionAvailable, ReviewIsCurrent, Original
  <2>2. Charges(reviewDelivery, "REQUIRES_ACTION")
    BY <1>2, <2>1, <2>3 DEF Nest!CreateExtraRevisionCheckout, Nest!ExtraPayable, Charges
  <2> QED BY <2>1, <2>2 DEF Moved
<1>3. ASSUME NEW k \in EarningKey, Nest!PaymentFailed(k) PROVE Moved
  <2>1. k \in Delivery => k <= delivered
    BY <1>3, BegunIsDelivered, Keys DEF Nest!PaymentFailed
  <2>2. Charges(k, "FAILED")
    BY <1>3, <2>1 DEF Nest!PaymentFailed, Charges
  <2> QED BY <2>2 DEF Moved
<1>4. ASSUME NEW d \in Delivery, NEW paidInTime \in BOOLEAN, Nest!MarkRevisionPaid(d, paidInTime) PROVE Moved
  <2>1. Nest!CanActivate(d, paidInTime) <=> CanActivate(d, paidInTime)
    BY DEF Nest!CanActivate, CanActivate
  <2>2. MarkRevisionPaid(d, paidInTime)
    BY <1>4, <2>1 DEF Nest!MarkRevisionPaid, MarkRevisionPaid, SendBack, Nest!PossiblyInTime, reviewVars
  <2> QED BY <2>2, Purchases DEF Moved
<1> QED BY <1>1, <1>2, <1>3, <1>4, NestPaidMoves DEF Nest!LedgerNext

\* DisputesService of NestJS: quiet, or a dispute opens, or gives back what it held.
LEMMA NestDisputesMove ==
  ASSUME LifeTypeOK, Nest!DisputesNext, UNCHANGED <<refundVars, starting>>, Unlocked
  PROVE  \/ Quiet
         \/ \E i \in DisputeId, k, d \in EarningKey : Opens(i, k, d)
         \/ \E i \in DisputeId, k \in EarningKey : GivesBack(i, k)
<1>1. ASSUME NEW i \in DisputeId, NEW by \in Nest!Parties, NEW escalation \in BOOLEAN,
             Nest!OpenDispute(i, by, escalation)
      PROVE  \E k, d \in EarningKey : Opens(i, k, d)
  BY <1>1, NestOpens, NestTargetTyped DEF LifeTypeOK, LaravelTypeOK
<1>2. Nest!Parties = Parties
  BY DEF Nest!Parties, Parties
<1>3. ASSUME NEW i \in DisputeId,
             \/ Nest!SubmitResponse(i) \/ Nest!ReconcileExpiredResponse(i) \/ Nest!MarkReady(i) \/ Nest!BeginReview(i)
             \/ \E party \in Parties : Nest!RequestResponse(i, party)
             \/ \E decision \in FinalStatuses : Nest!Resolve(i, decision)
      PROVE  LaravelDisputesNext
  BY <1>3, NestTwins, NestAsks DEF LaravelDisputesNext
<1> QED BY <1>1, <1>2, <1>3, SameRows, LaravelDisputesMove DEF Nest!DisputesNext

\* RefundsService of NestJS.
LEMMA NestRefundsMove ==
  ASSUME LifeInv, Nest!RefundsNext, UNCHANGED starting, Unlocked
  PROVE  Moved
<1>1. ASSUME NEW k \in EarningKey, NEW reason \in Reason, Nest!PrepareRefund(k, reason) PROVE Moved
  <2>1. Prepare(k, reason, earning[k]) /\ status' = IF reason \in Nest!ClientReason THEN "CANCELLED" ELSE status
    BY <1>1, NestPrepares DEF LifeInv, LifeTypeOK
  <2>2. Refundable(k, reason) /\ (earning[k] = "NONE" => reason = "STALE_REVISION_PAYMENT")
    BY <1>1 DEF Nest!PrepareRefund, Nest!Refundable, Nest!Confirmed, Refundable, InPayout
  <2>3. \/ reason = "DISPUTE_CLIENT_WIN" /\ Nest!Won(k)
        \/ reason = "ADMIN_EXCEPTION" /\ delivered = 0
        \/ reason = "STALE_REVISION_PAYMENT" /\ k # Original /\ activation[k] = "RECONCILIATION_REQUIRED"
        \/ reason \in Nest!ClientReason /\ delivered = 0
    BY <1>1, SameRows DEF Nest!PrepareRefund, Nest!Names, Nest!Eligible, Nest!Refundable, Nest!Confirmed, Nest!Won,
                          Nest!ClientReason
  <2>4. Preparable(k, reason, earning[k])
    BY <2>2, <2>3, AdminMayPrepare
  <2>6. reason \in Nest!ClientReason => status \in {"ACCEPTED", "IN_PROGRESS"} /\ k = Original
    BY <1>1, SameRows DEF Nest!PrepareRefund, Nest!Names, Nest!Eligible, Nest!ClientReason
  <2>5. Prepares(k, reason, earning[k])
    BY <2>1, <2>6 DEF Prepares, Unlocked
  <2> QED BY <2>4, <2>5 DEF Moved
<1>2. ASSUME NEW k \in EarningKey, Nest!RefundSucceeds(k) \/ Nest!RefundFails(k) PROVE Moved
  BY <1>2, NestTwins, RefundEndings DEF Moved
<1> QED BY <1>1, <1>2, SameRows DEF Nest!RefundsNext

\* A step of the NestJS backend.
LEMMA NestMoves ==
  ASSUME LifeInv, preparing = NoPreparation, Nest!SettlementNext, UNCHANGED <<starting, preparing, payout>>
  PROVE  Moved
<1>t. LifeTypeOK
  BY TypedReasons
<1>u. Unlocked
  BY DEF Unlocked
<1>f. UNCHANGED Nest!refundVars <=> UNCHANGED refundVars
  BY DEF Nest!refundVars, refundVars
<1>1. ASSUME UNCHANGED refundVars, Nest!OrdersNext \/ Nest!DisputesNext PROVE Moved
  BY <1>1, <1>t, <1>u, NestOrdersMove, NestDisputesMove DEF Moved
<1>2. ASSUME UNCHANGED refundVars, Nest!Tick PROVE Moved
  BY <1>2, <1>t, <1>u, NestTwins, LaravelDisputesMove DEF Moved
<1>3. ASSUME UNCHANGED refundVars, Nest!LedgerNext PROVE Moved
  BY <1>3, <1>u, NestLedgerMoves
<1>4. CASE Nest!RefundsNext
  BY <1>4, <1>u, NestRefundsMove
<1> QED BY <1>1, <1>2, <1>3, <1>4, <1>f DEF Nest!SettlementNext, Nest!Next

LEMMA NestKeeps ==
  ASSUME LifeInv, preparing = NoPreparation, Nest!SettlementNext, UNCHANGED <<starting, preparing, payout>>
  PROVE  LifeInv'
BY NestMoves, MovedKeeps, TypedReasons, NestTyped

-----------------------------------------------------------------------------
(* Either backend keeps the promise of Escrow. *)

FundsMap    == [k \in EarningKey |-> FundsOf(k)]
PromiseStep == Promise!ReturnsNext \/ UNCHANGED <<Nest!PhaseOf(status), FundsMap, OnHold>>

LEMMA Phases ==
  /\ Nest!PhaseOf("REQUESTED") = "asked"
  /\ Nest!PhaseOf("ACCEPTED") = "working" /\ Nest!PhaseOf("IN_PROGRESS") = "working"
  /\ Nest!PhaseOf("REVISION_REQUESTED") = "working"
  /\ Nest!PhaseOf("SUBMITTED") = "reviewing" /\ Nest!PhaseOf("COMPLETED") = "done"
  /\ Nest!PhaseOf("CANCELLED") = "void" /\ Nest!PhaseOf("REJECTED") = "void"
BY Zenon DEF Nest!PhaseOf

LEMMA PhasesNext ==
  /\ status' = status => Nest!PhaseOf(status)' = Nest!PhaseOf(status)
  /\ status' = "ACCEPTED" => Nest!PhaseOf(status)' = "working"
  /\ status' = "IN_PROGRESS" => Nest!PhaseOf(status)' = "working"
  /\ status' = "REVISION_REQUESTED" => Nest!PhaseOf(status)' = "working"
  /\ status' = "SUBMITTED" => Nest!PhaseOf(status)' = "reviewing"
  /\ status' = "COMPLETED" => Nest!PhaseOf(status)' = "done"
  /\ status' = "CANCELLED" => Nest!PhaseOf(status)' = "void"
  /\ status' = "REJECTED" => Nest!PhaseOf(status)' = "void"
BY Zenon DEF Nest!PhaseOf

\* Nothing that tells where earning k is, or what holds it, moves.
Untouched(k) ==
  /\ earning'[k] = earning[k] /\ refund'[k] = refund[k]
  /\ \A i \in DisputeId : /\ HeldBy(i, k)' <=> HeldBy(i, k)
                          /\ HeldBy(i, k) => dispute'[i].preFreeze = dispute[i].preFreeze

Stays(k) == FundsOf(k)' = FundsOf(k) /\ (k \in OnHold' <=> k \in OnHold) /\ (Released(k)' <=> Released(k))

LEMMA UntouchedStays == ASSUME NEW k \in EarningKey, Untouched(k) PROVE Stays(k)
<1>1. Released(k)' <=> Released(k)
  BY DEF Untouched, Released
<1>2. FundsOf(k)' = FundsOf(k)
  BY <1>1 DEF Untouched, FundsOf
<1>3. k \in OnHold' <=> k \in OnHold
  BY DEF Untouched, OnHold
<1> QED BY <1>1, <1>2, <1>3 DEF Stays

LEMMA SameHoldersUntouched ==
  ASSUME UNCHANGED <<earning, refund>>, SameHolders, NEW k \in EarningKey PROVE Untouched(k)
BY DEF SameHolders, Untouched

\* Where an earning is.
LEMMA Whereabouts ==
  ASSUME NEW k \in EarningKey
  PROVE  /\ earning[k] = "NONE" <=> FundsOf(k) = "none"
         /\ earning[k] = "REFUNDED" <=> FundsOf(k) = "returned"
         /\ FundsOf(k) = "released" <=> earning[k] \notin {"NONE", "REFUNDED"} /\ Released(k)
         /\ FundsOf(k) = "escrow" <=> earning[k] \notin {"NONE", "REFUNDED"} /\ ~Released(k)
         /\ k \in OnHold <=> earning[k] = "FROZEN" \/ refund[k].stage = "ACTIVE"
<1>1. k \in OnHold <=> earning[k] = "FROZEN" \/ refund[k].stage = "ACTIVE"
  BY DEF OnHold
<1>2. CASE earning[k] = "NONE"
  BY <1>1, <1>2 DEF FundsOf
<1>3. CASE earning[k] = "REFUNDED"
  BY <1>1, <1>3 DEF FundsOf
<1>4. CASE earning[k] \notin {"NONE", "REFUNDED"} /\ Released(k)
  BY <1>1, <1>4 DEF FundsOf
<1>5. CASE earning[k] \notin {"NONE", "REFUNDED"} /\ ~Released(k)
  BY <1>1, <1>5 DEF FundsOf
<1> QED BY <1>2, <1>3, <1>4, <1>5

LEMMA WhereaboutsNext ==
  ASSUME NEW k \in EarningKey
  PROVE  /\ earning'[k] = "NONE" <=> FundsOf(k)' = "none"
         /\ earning'[k] = "REFUNDED" <=> FundsOf(k)' = "returned"
         /\ FundsOf(k)' = "released" <=> earning'[k] \notin {"NONE", "REFUNDED"} /\ Released(k)'
         /\ FundsOf(k)' = "escrow" <=> earning'[k] \notin {"NONE", "REFUNDED"} /\ ~Released(k)'
         /\ k \in OnHold' <=> earning'[k] = "FROZEN" \/ refund'[k].stage = "ACTIVE"
<1>1. k \in OnHold' <=> earning'[k] = "FROZEN" \/ refund'[k].stage = "ACTIVE"
  BY DEF OnHold
<1>2. CASE earning'[k] = "NONE"
  BY <1>1, <1>2 DEF FundsOf
<1>3. CASE earning'[k] = "REFUNDED"
  BY <1>1, <1>3 DEF FundsOf
<1>4. CASE earning'[k] \notin {"NONE", "REFUNDED"} /\ Released(k)'
  BY <1>1, <1>4 DEF FundsOf
<1>5. CASE earning'[k] \notin {"NONE", "REFUNDED"} /\ ~Released(k)'
  BY <1>1, <1>5 DEF FundsOf
<1> QED BY <1>2, <1>3, <1>4, <1>5

\* The whole map and the whole hold, from one earning and the others.
LEMMA AllStay ==
  ASSUME \A k \in EarningKey : Stays(k) PROVE FundsMap' = FundsMap /\ OnHold' = OnHold
<1>1. FundsMap' = FundsMap
  BY DEF FundsMap, Stays
<1>2. OnHold \subseteq EarningKey /\ OnHold' \subseteq EarningKey
  BY DEF OnHold, EarningKey, Delivery, Original
<1> QED BY <1>1, <1>2 DEF Stays

LEMMA OneGoes ==
  ASSUME NEW k \in EarningKey, \A l \in EarningKey : l # k => Stays(l)
  PROVE  /\ FundsMap' = [FundsMap EXCEPT ![k] = FundsOf(k)']
         /\ FundsOf(k)' = FundsOf(k) => FundsMap' = FundsMap
         /\ k \in OnHold' => OnHold' = OnHold \cup {k}
         /\ k \notin OnHold' => OnHold' = OnHold \ {k}
<1>1. FundsMap' = [FundsMap EXCEPT ![k] = FundsOf(k)']
  BY DEF FundsMap, Stays
<1>2. FundsOf(k)' = FundsOf(k) => FundsMap' = FundsMap
  BY DEF FundsMap, Stays
<1>3. OnHold \subseteq EarningKey /\ OnHold' \subseteq EarningKey
  BY DEF OnHold, EarningKey, Delivery, Original
<1> QED BY <1>1, <1>2, <1>3 DEF Stays

\* An order that is paid for and not completed has its money in escrow.
LEMMA PaidIsInEscrow ==
  ASSUME LifeInv, PromiseInv, PaidInFull, status # "COMPLETED" PROVE FundsOf(Original) = "escrow"
<1>1. /\ charge[Original] = "PAID" /\ earning[Original] # "NONE"
      /\ refund[Original].stage # "SUCCEEDED" /\ ~Released(Original)
  BY Keys DEF PaidInFull, LifeInv, PromiseInv, PaidForEarnings
<1>2. earning[Original] # "REFUNDED"
  BY <1>1, Keys DEF LifeInv, OneWayOut
<1> QED BY <1>1, <1>2, Whereabouts, Keys

ReleasedAtTheEnd == \A k \in EarningKey : Released(k) => status = "COMPLETED"

\* What each move does to the promise.
LEMMA QuietHonest ==
  ASSUME LifeInv, PromiseInv, Quiet PROVE PromiseStep /\ ReleasedAtTheEnd'
<1>1. \A k \in EarningKey : Stays(k)
  BY SameHoldersUntouched, UntouchedStays DEF Quiet
<1>2. FundsMap' = FundsMap /\ OnHold' = OnHold
  BY <1>1, AllStay
<1>t. Turns
  BY DEF Quiet
<1>3. ReleasedAtTheEnd'
  BY <1>1, <1>t DEF Stays, ReleasedAtTheEnd, PromiseInv, Turns
<1>4. CASE status' = status
  BY <1>2, <1>3, <1>4, PhasesNext DEF PromiseStep
<1>5. CASE status = "REQUESTED" /\ status' \in {"ACCEPTED", "REJECTED", "CANCELLED"}
  <2>1. CASE status' = "ACCEPTED"
    BY <1>2, <1>5, <2>1, <1>3, Phases, PhasesNext DEF PromiseStep, FundsMap, Promise!ReturnsNext, Promise!Agree
  <2>2. CASE status' \in {"REJECTED", "CANCELLED"}
    BY <1>2, <1>5, <2>2, <1>3, Phases, PhasesNext DEF PromiseStep, FundsMap, Promise!ReturnsNext, Promise!CallOff
  <2> QED BY <1>5, <2>1, <2>2
<1>6. CASE status = "ACCEPTED" /\ status' = "IN_PROGRESS"
  BY <1>2, <1>6, <1>3, Phases, PhasesNext DEF PromiseStep
<1>7. CASE status \in {"IN_PROGRESS", "REVISION_REQUESTED"} /\ status' = "SUBMITTED" /\ PaidInFull
  <2>1. FundsMap[Original] = "escrow"
    BY <1>7, PaidIsInEscrow, Keys DEF FundsMap
  <2> QED BY <1>2, <1>7, <2>1, <1>3, Phases, PhasesNext DEF PromiseStep, FundsMap, Promise!ReturnsNext, Promise!HandOver, Original
<1>8. CASE status = "SUBMITTED" /\ status' = "REVISION_REQUESTED"
  BY <1>2, <1>8, <1>3, Phases, PhasesNext DEF PromiseStep, FundsMap, Promise!ReturnsNext, Promise!SendBack
<1> QED BY <1>3, <1>4, <1>5, <1>6, <1>7, <1>8, <1>t DEF Turns

LEMMA CompletesHonest ==
  ASSUME LifeInv, PromiseInv, Completes PROVE PromiseStep /\ ReleasedAtTheEnd'
<1> DEFINE free == {f \in EarningKey \ OnHold : FundsMap[f] = "escrow"}
<1>1. ASSUME NEW k \in EarningKey, k \notin PendingEarnings PROVE Stays(k)
  BY <1>1, SameDisputes, UntouchedStays DEF Completes, SameHolders, Untouched
<1>2. ASSUME NEW k \in EarningKey, k \in PendingEarnings
      PROVE  /\ FundsOf(k) = "escrow" /\ k \notin OnHold
             /\ FundsOf(k)' = "released" /\ k \notin OnHold' /\ Released(k)'
  <2>1. earning[k] = "PENDING" /\ earning'[k] = "AVAILABLE" /\ refund' = refund
    BY <1>2 DEF Completes, PendingEarnings
  <2>2. refund[k].stage # "ACTIVE"
    BY <2>1, Keys DEF Completes, PaidInFull, LifeInv, PaidForEarnings, PromiseInv, ExtrasStayFrozen
  <2>3. ~Released(k) /\ Released(k)'
    BY <2>1 DEF Released, InPayout
  <2> QED BY <2>1, <2>2, <2>3, Whereabouts, WhereaboutsNext
<1>3. \A k \in EarningKey : ~Released(k)
  BY DEF Completes, PromiseInv
<1>4. free = PendingEarnings
  <2>1. ASSUME NEW k \in EarningKey, k \notin OnHold, FundsOf(k) = "escrow" PROVE earning[k] = "PENDING"
    <3>1. earning[k] \in EarningStatus
      BY RowsOfType DEF LifeInv
    <3>2. earning[k] \notin {"NONE", "REFUNDED", "FROZEN"} /\ ~Released(k)
      BY <2>1, Whereabouts
    <3> QED BY <3>1, <3>2 DEF EarningStatus, Released, InPayout
  <2> QED BY <1>2, <2>1 DEF PendingEarnings, FundsMap
<1>5. FundsMap' = [k \in EarningKey |-> IF k \in free THEN "released" ELSE FundsMap[k]]
  <2> HIDE DEF free
  <2> QED BY <1>1, <1>2, <1>4 DEF FundsMap, Stays
<1>6. OnHold' = OnHold
  <2>1. OnHold \subseteq EarningKey /\ OnHold' \subseteq EarningKey
    BY DEF OnHold, EarningKey, Delivery, Original
  <2> QED BY <1>1, <1>2, <2>1 DEF Stays
<1>7. FundsMap[Original] = "escrow" /\ free # {}
  BY <1>4, PaidIsInEscrow, Keys DEF Completes, FundsMap
<1>8. ReleasedAtTheEnd'
  BY DEF ReleasedAtTheEnd, Completes
<1> HIDE DEF free
<1>9. Promise!ReleaseFree
  <2>1. Nest!PhaseOf(status) = "reviewing" /\ Nest!PhaseOf(status)' = "done"
    BY Phases, PhasesNext DEF Completes
  <2> QED BY <1>5, <1>6, <1>7, <2>1 DEF Promise!ReleaseFree, FundsMap, free, Original
<1> QED BY <1>8, <1>9 DEF PromiseStep, Promise!ReturnsNext

LEMMA ChargesHonest ==
  ASSUME LifeInv, PromiseInv, NEW k \in EarningKey, NEW s, Charges(k, s) PROVE PromiseStep /\ ReleasedAtTheEnd'
<1>1. \A l \in EarningKey : Stays(l)
  BY SameDisputes, SameHoldersUntouched, UntouchedStays DEF Charges
<1>2. status' = status
  BY DEF Charges
<1>3. ReleasedAtTheEnd'
  BY <1>1, <1>2 DEF Stays, ReleasedAtTheEnd, PromiseInv
<1> QED BY <1>1, <1>2, <1>3, AllStay, PhasesNext DEF PromiseStep

\* The order is paid for while it is worked on, and that payment was not there.
LEMMA PaidOnce ==
  ASSUME LifeInv, PromiseInv, charge[Original] = "REQUIRES_ACTION"
  PROVE  /\ status = "ACCEPTED" /\ earning[Original] = "NONE" /\ refund[Original].stage # "ACTIVE"
         /\ FundsOf(Original) = "none" /\ Original \notin OnHold /\ \A i \in DisputeId : ~HeldBy(i, Original)
<1>1. status = "ACCEPTED"
  BY DEF PromiseInv, PaidBeforeWork
<1>2. earning[Original] = "NONE" /\ refund[Original].stage # "ACTIVE"
  BY Keys DEF LifeInv, PaidForEarnings
<1>3. \A i \in DisputeId : ~HeldBy(i, Original)
  BY <1>2, Keys DEF LifeInv, HeldByOne
<1> QED BY <1>1, <1>2, <1>3, Whereabouts, Keys

LEMMA PaidFreelyHonest ==
  ASSUME LifeInv, PromiseInv, PaidFreely PROVE PromiseStep /\ ReleasedAtTheEnd'
<1>1. /\ status = "ACCEPTED" /\ earning[Original] = "NONE" /\ refund[Original].stage # "ACTIVE"
      /\ FundsOf(Original) = "none" /\ Original \notin OnHold
  BY PaidOnce DEF PaidFreely
<1>2. /\ earning'[Original] = "PENDING" /\ \A l \in EarningKey : l # Original => earning'[l] = earning[l]
      /\ refund' = refund /\ dispute' = dispute /\ status' = status
  BY RowsOfType, Keys DEF PaidFreely, LifeInv
<1>3. \A l \in EarningKey : l # Original => Stays(l)
  BY <1>2, SameDisputes, UntouchedStays DEF SameHolders, Untouched
<1>4. ~Released(Original)'
  BY <1>2 DEF Released, InPayout
<1>5. FundsOf(Original)' = "escrow" /\ Original \notin OnHold'
  BY <1>1, <1>2, <1>4, WhereaboutsNext, Keys
<1>6. FundsMap' = [FundsMap EXCEPT ![Original] = "escrow"] /\ OnHold' = OnHold
  BY <1>1, <1>3, <1>5, OneGoes, Keys
<1>7. ReleasedAtTheEnd'
  BY <1>2, <1>3, <1>4 DEF Stays, ReleasedAtTheEnd, PromiseInv
<1>8. Promise!PayOrder
  <2>1. Nest!PhaseOf(status) = "working" /\ Nest!PhaseOf(status)' = Nest!PhaseOf(status)
    BY <1>1, <1>2, Phases, PhasesNext
  <2> QED BY <1>1, <1>6, <2>1, Keys DEF Promise!PayOrder, FundsMap, Original
<1> QED BY <1>7, <1>8 DEF PromiseStep, Promise!ReturnsNext

LEMMA PaidUnderHonest ==
  ASSUME LifeInv, PromiseInv, NEW i \in DisputeId, PaidUnder(i) PROVE PromiseStep /\ ReleasedAtTheEnd'
<1>1. /\ status = "ACCEPTED" /\ earning[Original] = "NONE" /\ refund[Original].stage # "ACTIVE"
      /\ FundsOf(Original) = "none" /\ Original \notin OnHold /\ \A j \in DisputeId : ~HeldBy(j, Original)
  BY PaidOnce DEF PaidUnder
<1>2. /\ earning'[Original] = "FROZEN" /\ \A l \in EarningKey : l # Original => earning'[l] = earning[l]
      /\ refund' = refund /\ status' = status
  BY RowsOfType, Keys DEF PaidUnder, LifeInv
<1>d. /\ dispute'[i].target = Original /\ dispute'[i].status = dispute[i].status /\ dispute'[i].preFreeze = "PENDING"
      /\ \A j \in DisputeId : j # i => dispute'[j] = dispute[j]
  BY RowsOfType DEF PaidUnder, DisputeRow, LifeInv
<1>t. dispute[i].target = Original
  BY DEF PaidUnder
<1>3. \A l \in EarningKey : l # Original => Stays(l)
  <2> SUFFICES ASSUME NEW l \in EarningKey, l # Original PROVE Untouched(l)
    BY UntouchedStays
  <2>1. \A j \in DisputeId : (HeldBy(j, l)' <=> HeldBy(j, l)) /\ (HeldBy(j, l) => j # i)
    BY <1>d, <1>t DEF HeldBy
  <2> QED BY <1>2, <1>d, <2>1 DEF Untouched
<1>4. ~Released(Original)'
  <2>1. \A j \in DisputeId : HeldBy(j, Original)' => dispute'[j].preFreeze = "PENDING"
    BY <1>1, <1>d DEF HeldBy
  <2> QED BY <1>1, <1>2, <2>1 DEF Released, InPayout
<1>5. FundsOf(Original)' = "escrow" /\ Original \in OnHold'
  BY <1>2, <1>4, WhereaboutsNext, Keys
<1>6. FundsMap' = [FundsMap EXCEPT ![Original] = "escrow"] /\ OnHold' = OnHold \cup {Original}
  BY <1>3, <1>5, OneGoes, Keys
<1>7. ReleasedAtTheEnd'
  BY <1>2, <1>3, <1>4 DEF Stays, ReleasedAtTheEnd, PromiseInv
<1>8. Promise!PayOrder
  <2>1. Nest!PhaseOf(status) = "working" /\ Nest!PhaseOf(status)' = Nest!PhaseOf(status)
    BY <1>1, <1>2, Phases, PhasesNext
  <2> QED BY <1>1, <1>6, <2>1, Keys DEF Promise!PayOrder, FundsMap, Original
<1> QED BY <1>7, <1>8 DEF PromiseStep, Promise!ReturnsNext

LEMMA BoughtHonest ==
  ASSUME LifeInv, PromiseInv, NEW d \in Delivery, NEW a, NEW e, Bought(d, a, e)
  PROVE  PromiseStep /\ ReleasedAtTheEnd'
<1>k. d \in EarningKey /\ d # Original
  BY Keys
<1>v. SameHolders /\ refund' = refund
  BY SameDisputes DEF Bought
<1>1. CASE a = "ACTIVATED" /\ e = "PENDING"
  <2>1. /\ status = "SUBMITTED" /\ status' = "REVISION_REQUESTED"
        /\ earning'[d] = "PENDING" /\ \A l \in EarningKey : l # d => earning'[l] = earning[l]
    BY <1>1, <1>k, RowsOfType DEF Bought, LifeInv
  <2>2. activation[d] = "PENDING" /\ refund[d].stage # "ACTIVE"
    BY <1>k DEF Bought, LifeInv, PurchasesOfDeliveries, PaidForEarnings
  <2>3. earning[d] = "NONE"
    <3>1. earning[d] \in {"NONE", "FROZEN"}
      BY <2>2 DEF LifeInv, PurchasesOfDeliveries
    <3>2. charge[d] = "REQUIRES_ACTION"
      BY DEF Bought
    <3> QED BY <1>k, <3>1, <3>2 DEF LifeInv, PaidForEarnings
  <2>4. \A l \in EarningKey : l # d => Stays(l)
    BY <1>v, <2>1, UntouchedStays DEF SameHolders, Untouched
  <2>5. ~Released(d)'
    BY <2>1 DEF Released, InPayout
  <2>6. FundsOf(d)' = "escrow" /\ d \notin OnHold' /\ FundsOf(d) = "none" /\ d \notin OnHold
    BY <1>v, <1>k, <2>1, <2>2, <2>3, <2>5, Whereabouts, WhereaboutsNext
  <2>7. FundsMap' = [FundsMap EXCEPT ![d] = "escrow"] /\ OnHold' = OnHold
    BY <1>k, <2>4, <2>6, OneGoes
  <2>8. ReleasedAtTheEnd'
    BY <2>1, <2>4, <2>5 DEF Stays, ReleasedAtTheEnd, PromiseInv
  <2>9. Promise!PayExtra(d)
    BY <1>k, <2>1, <2>6, <2>7, Phases, PhasesNext DEF Promise!PayExtra, FundsMap, Original
  <2> QED BY <1>k, <2>8, <2>9 DEF PromiseStep, Promise!ReturnsNext
<1>2. CASE a = "RECONCILIATION_REQUIRED"
  <2>1. UNCHANGED <<status, earning>>
    BY <1>2 DEF Bought
  <2>2. \A l \in EarningKey : Stays(l)
    BY <1>v, <2>1, SameHoldersUntouched, UntouchedStays
  <2>3. ReleasedAtTheEnd'
    BY <2>1, <2>2 DEF Stays, ReleasedAtTheEnd, PromiseInv
  <2> QED BY <2>1, <2>2, <2>3, AllStay, PhasesNext DEF PromiseStep
<1> QED BY <1>1, <1>2 DEF Bought

LEMMA OpensHonest ==
  ASSUME LifeInv, PromiseInv, NEW i \in DisputeId, NEW k \in EarningKey, NEW d \in EarningKey, Opens(i, k, d)
  PROVE  PromiseStep /\ ReleasedAtTheEnd'
<1>u. status' = status /\ refund' = refund
  BY DEF Opens, orderVars, refundVars
<1>o. dispute[i].status = "NONE" /\ (earning[k] \in {"PENDING", "AVAILABLE"} \/ (earning[k] = "NONE" /\ k = Original))
  BY DEF Opens, Freezable
<1>e. /\ earning'[k] = IF earning[k] = "NONE" THEN "NONE" ELSE "FROZEN"
      /\ \A l \in EarningKey : l # k => earning'[l] = earning[l]
  BY RowsOfType DEF Opens, LifeInv
<1>d. /\ dispute'[i].status \in Waiting /\ dispute'[i].target = k /\ dispute'[i].preFreeze = earning[k]
      /\ \A j \in DisputeId : j # i => dispute'[j] = dispute[j]
  BY RowsOfType DEF Opens, DisputeRowOf, LifeInv
<1>h. /\ HeldBy(i, k)' <=> earning[k] # "NONE"
      /\ \A l \in EarningKey : ~HeldBy(i, l) /\ (l # k => ~HeldBy(i, l)')
      /\ \A j \in DisputeId, l \in EarningKey : j # i => (HeldBy(j, l)' <=> HeldBy(j, l))
  BY <1>o, <1>d DEF HeldBy, ActiveStatuses, Waiting
<1>1. ASSUME NEW l \in EarningKey, l # k \/ earning[k] = "NONE" PROVE Stays(l)
  BY <1>1, <1>u, <1>e, <1>d, <1>h, UntouchedStays DEF Untouched
<1>2. CASE earning[k] = "NONE"
  <2>1. ReleasedAtTheEnd'
    BY <1>1, <1>2, <1>u DEF Stays, ReleasedAtTheEnd, PromiseInv
  <2> QED BY <1>1, <1>2, <1>u, <2>1, AllStay, PhasesNext DEF PromiseStep
<1>3. CASE earning[k] # "NONE"
  <2>1. earning[k] \in {"PENDING", "AVAILABLE"} /\ earning'[k] = "FROZEN"
    BY <1>o, <1>e, <1>3
  <2>2. \A j \in DisputeId : HeldBy(j, k)' <=> j = i
    <3>1. \A j \in DisputeId : ~HeldBy(j, k)
      BY <2>1 DEF LifeInv, HeldByOne
    <3> QED BY <1>h, <1>3, <3>1
  <2>3. ~(refund[k].stage = "ACTIVE" /\ refund[k].pre = "AVAILABLE")
    BY <2>1 DEF LifeInv, UnderRefund
  <2>4. (Released(k) <=> earning[k] = "AVAILABLE") /\ (Released(k)' <=> earning[k] = "AVAILABLE")
    <3>1. Released(k) <=> earning[k] = "AVAILABLE"
      BY <2>1 DEF Released, InPayout
    <3>2. Released(k)' <=> earning[k] = "AVAILABLE"
      BY <1>u, <1>d, <2>1, <2>2, <2>3 DEF Released, InPayout
    <3> QED BY <3>1, <3>2
  <2>5. /\ FundsOf(k)' = FundsOf(k) /\ FundsOf(k) \in {"escrow", "released"}
        /\ k \in OnHold' /\ (k \in OnHold <=> refund[k].stage = "ACTIVE")
    BY <2>1, <2>4, Whereabouts, WhereaboutsNext
  <2>6. FundsMap' = FundsMap /\ OnHold' = OnHold \cup {k}
    BY <1>1, <2>5, OneGoes
  <2>7. ReleasedAtTheEnd'
    BY <1>1, <1>u, <2>4 DEF Stays, ReleasedAtTheEnd, PromiseInv
  <2>8. CASE k \in OnHold
    <3>1. OnHold' = OnHold
      BY <2>6, <2>8
    <3> QED BY <1>u, <2>6, <2>7, <3>1, PhasesNext DEF PromiseStep
  <2>9. CASE k \notin OnHold
    <3>1. Promise!Hold(k)
      BY <1>u, <2>5, <2>6, <2>9, PhasesNext DEF Promise!Hold, FundsMap
    <3> QED BY <2>7, <3>1 DEF PromiseStep, Promise!ReturnsNext
  <2> QED BY <2>8, <2>9
<1> QED BY <1>2, <1>3

LEMMA GivesBackHonest ==
  ASSUME LifeInv, PromiseInv, NEW i \in DisputeId, NEW k \in EarningKey, GivesBack(i, k)
  PROVE  PromiseStep /\ ReleasedAtTheEnd'
<1>u. status' = status /\ refund' = refund /\ earning[k] = "FROZEN"
  BY DEF GivesBack
<1>d. /\ \A j \in DisputeId : j # i => dispute'[j] = dispute[j]
      /\ dispute'[i].status \in Restoring
      /\ \A j \in DisputeId : dispute'[j].target = dispute[j].target /\ dispute'[j].preFreeze = dispute[j].preFreeze
  BY RowsOfType DEF GivesBack, DisputeRow, LifeInv
<1>f. dispute[i].preFreeze \in {"PENDING", "AVAILABLE"} /\ dispute[i].target = k /\ IsActive(i)
  BY RowsOfType DEF GivesBack, DisputeRow, LifeInv
<1>e. earning'[k] = dispute[i].preFreeze /\ \A l \in EarningKey : l # k => earning'[l] = earning[l]
  BY RowsOfType DEF GivesBack, LifeInv
<1>h. /\ HeldBy(i, k)
      /\ \A l \in EarningKey : l # k => ~HeldBy(i, l) /\ ~HeldBy(i, l)'
      /\ \A j \in DisputeId, l \in EarningKey : j # i => (HeldBy(j, l)' <=> HeldBy(j, l))
  BY <1>d, <1>f DEF IsActive, HeldBy, ActiveStatuses, Waiting, Restoring
<1>1. ASSUME NEW l \in EarningKey, l # k PROVE Stays(l)
  BY <1>1, <1>u, <1>e, <1>d, <1>h, UntouchedStays DEF Untouched
<1>2. \A j \in DisputeId : HeldBy(j, k) <=> j = i
  BY <1>h DEF LifeInv, HeldByOne
<1>3. ~(refund[k].stage = "ACTIVE" /\ refund[k].pre = "AVAILABLE")
  BY <1>h DEF LifeInv, UnderRefund
<1>4. (Released(k) <=> dispute[i].preFreeze = "AVAILABLE") /\ (Released(k)' <=> dispute[i].preFreeze = "AVAILABLE")
  <2>1. Released(k) <=> dispute[i].preFreeze = "AVAILABLE"
    BY <1>u, <1>2, <1>3 DEF Released, InPayout
  <2>2. Released(k)' <=> dispute[i].preFreeze = "AVAILABLE"
    BY <1>e, <1>f DEF Released, InPayout
  <2> QED BY <2>1, <2>2
<1>5. /\ FundsOf(k)' = FundsOf(k)
      /\ k \in OnHold /\ (k \in OnHold' <=> refund[k].stage = "ACTIVE")
  BY <1>u, <1>e, <1>f, <1>4, Whereabouts, WhereaboutsNext
<1>6. ReleasedAtTheEnd'
  BY <1>1, <1>u, <1>4 DEF Stays, ReleasedAtTheEnd, PromiseInv
<1>7. CASE k \in OnHold'
  <2>1. FundsMap' = FundsMap /\ OnHold' = OnHold
    BY <1>1, <1>5, <1>7, OneGoes
  <2> QED BY <1>u, <1>6, <2>1, PhasesNext DEF PromiseStep
<1>8. CASE k \notin OnHold'
  <2>1. FundsMap' = FundsMap /\ OnHold' = OnHold \ {k}
    BY <1>1, <1>5, <1>8, OneGoes
  <2>2. Promise!TakeOffHold(k)
    BY <1>u, <1>5, <2>1, PhasesNext DEF Promise!TakeOffHold, FundsMap
  <2> QED BY <1>6, <2>2 DEF PromiseStep, Promise!ReturnsNext
<1> QED BY <1>7, <1>8

LEMMA PreparesHonest ==
  ASSUME LifeInv, PromiseInv, NEW k \in EarningKey, NEW reason, NEW seen,
         Preparable(k, reason, seen), Prepares(k, reason, seen)
  PROVE  PromiseStep /\ ReleasedAtTheEnd'
<1>u. /\ dispute' = dispute
      /\ \/ status' = status
         \/ status' = "CANCELLED" /\ status \in {"ACCEPTED", "IN_PROGRESS"} /\ k = Original
  BY DEF Prepares, Prepare
<1>e. /\ earning'[k] = "FROZEN" /\ refund'[k].stage = "ACTIVE"
      /\ refund'[k].pre = IF seen = "NONE" THEN "FROZEN" ELSE seen
      /\ \A l \in EarningKey : l # k => earning'[l] = earning[l] /\ refund'[l] = refund[l]
  BY RowsOfType DEF Prepares, Prepare, LifeInv
<1>p. /\ seen \in {"NONE", "PENDING", "AVAILABLE", "FROZEN"} /\ (seen = "NONE" => k \in Delivery)
      /\ earning[k] = seen \/ (seen = "AVAILABLE" /\ earning[k] \in InPayout)
      /\ refund[k].stage # "ACTIVE"
  BY DEF Preparable, Returning
<1>1. ASSUME NEW l \in EarningKey, l # k PROVE Stays(l)
  BY <1>1, <1>u, <1>e, SameDisputes, UntouchedStays DEF SameHolders, Untouched
<1>2. Released(k)' <=> Released(k)
  <2>1. Released(k)' <=> (\E i \in DisputeId : HeldBy(i, k) /\ dispute[i].preFreeze = "AVAILABLE") \/ seen = "AVAILABLE"
    BY <1>u, <1>e DEF Released, HeldBy, InPayout
  <2>2. CASE seen = "FROZEN"
    BY <1>p, <2>1, <2>2 DEF Released, InPayout
  <2>3. CASE seen # "FROZEN"
    <3>1. \A i \in DisputeId : ~HeldBy(i, k)
      BY <1>p, <2>3 DEF LifeInv, HeldByOne, InPayout
    <3>2. Released(k) <=> seen = "AVAILABLE"
      BY <1>p, <2>3 DEF Released, InPayout
    <3> QED BY <2>1, <3>1, <3>2
  <2> QED BY <2>2, <2>3
<1>3. k \in OnHold' /\ (FundsOf(k)' = IF Released(k) THEN "released" ELSE "escrow")
  BY <1>e, <1>2, WhereaboutsNext
<1>4. ReleasedAtTheEnd'
  BY <1>1, <1>u, <1>2 DEF Stays, ReleasedAtTheEnd, PromiseInv
<1>5. CASE earning[k] = "NONE"
  <2>1. k \in Delivery /\ k # Original /\ ~Released(k)
    BY <1>p, <1>5, Keys DEF Released, InPayout
  <2>2. FundsOf(k) = "none" /\ FundsOf(k)' = "escrow" /\ status' = status
    BY <1>5, <1>u, <1>3, <2>1, Whereabouts
  <2>3. FundsMap' = [FundsMap EXCEPT ![k] = "escrow"] /\ OnHold' = OnHold \cup {k}
    BY <1>1, <1>3, <2>2, OneGoes
  <2>4. Promise!KeepExtra(k)
    BY <2>1, <2>2, <2>3, PhasesNext DEF Promise!KeepExtra, FundsMap, Original
  <2> QED BY <1>4, <2>4 DEF PromiseStep, Promise!ReturnsNext
<1>6. CASE earning[k] # "NONE"
  <2>1. earning[k] \notin {"NONE", "REFUNDED"}
    BY <1>p, <1>6 DEF InPayout
  <2>2. FundsOf(k)' = FundsOf(k) /\ FundsOf(k) \in {"escrow", "released"}
    BY <1>3, <2>1, Whereabouts
  <2>3. FundsMap' = FundsMap /\ OnHold' = OnHold \cup {k}
    BY <1>1, <1>3, <2>2, OneGoes
  <2>4. CASE status' = status /\ k \in OnHold
    <3>1. OnHold' = OnHold
      BY <2>3, <2>4
    <3> QED BY <1>4, <2>3, <2>4, <3>1, PhasesNext DEF PromiseStep
  <2>5. CASE status' = status /\ k \notin OnHold
    <3>1. Promise!Hold(k)
      BY <2>2, <2>3, <2>5, PhasesNext DEF Promise!Hold, FundsMap
    <3> QED BY <1>4, <3>1 DEF PromiseStep, Promise!ReturnsNext
  <2>6. CASE status' = "CANCELLED" /\ status \in {"ACCEPTED", "IN_PROGRESS"} /\ k = Original
    <3>1. ~Released(k)
      BY <2>6 DEF PromiseInv
    <3>2. FundsMap[Original] = "escrow"
      BY <2>1, <2>6, <3>1, Whereabouts DEF FundsMap
    <3>3. Nest!PhaseOf(status) = "working" /\ Nest!PhaseOf(status)' = "void"
      BY <2>6, Phases, PhasesNext
    <3>4. Promise!GiveUp
      BY <2>3, <2>6, <3>2, <3>3 DEF Promise!GiveUp, FundsMap, Original
    <3> QED BY <1>4, <3>4 DEF PromiseStep, Promise!ReturnsNext
  <2> QED BY <1>u, <2>4, <2>5, <2>6
<1> QED BY <1>5, <1>6

LEMMA SucceedsHonest ==
  ASSUME LifeInv, PromiseInv, NEW k \in EarningKey, Succeeds(k) PROVE PromiseStep /\ ReleasedAtTheEnd'
<1>e. Ends(k, "SUCCEEDED", "REFUNDED", "REFUNDED") /\ status' = status /\ dispute' = dispute /\ refund[k].stage = "ACTIVE"
  BY DEF Succeeds, Ends
<1>f. /\ earning'[k] = "REFUNDED" /\ refund'[k].stage = "SUCCEEDED" /\ earning[k] \in {"PENDING", "AVAILABLE", "FROZEN"}
      /\ \A l \in EarningKey : l # k => earning'[l] = earning[l] /\ refund'[l] = refund[l]
  BY <1>e, Ending
<1>1. ASSUME NEW l \in EarningKey, l # k PROVE Stays(l)
  BY <1>1, <1>e, <1>f, SameDisputes, UntouchedStays DEF SameHolders, Untouched
<1>2. ~Released(k)'
  BY <1>f DEF Released, InPayout
<1>3. /\ FundsOf(k) \in {"escrow", "released"} /\ k \in OnHold
      /\ FundsOf(k)' = "returned" /\ k \notin OnHold'
  BY <1>e, <1>f, Whereabouts, WhereaboutsNext
<1>4. FundsMap' = [FundsMap EXCEPT ![k] = "returned"] /\ OnHold' = OnHold \ {k}
  BY <1>1, <1>3, OneGoes
<1>5. Promise!Return(k)
  BY <1>e, <1>3, <1>4, PhasesNext DEF Promise!Return, FundsMap
<1>6. ReleasedAtTheEnd'
  BY <1>1, <1>2, <1>e DEF Stays, ReleasedAtTheEnd, PromiseInv
<1> QED BY <1>5, <1>6 DEF PromiseStep, Promise!ReturnsNext

LEMMA FailsHonest ==
  ASSUME LifeInv, PromiseInv, NEW k \in EarningKey, Fails(k) PROVE PromiseStep /\ ReleasedAtTheEnd'
<1> DEFINE e == IF refund[k].pre = "FROZEN" THEN earning[k] ELSE refund[k].pre
<1>e. Ends(k, "FAILED", "PAID", e) /\ status' = status /\ dispute' = dispute /\ refund[k].stage = "ACTIVE"
  BY DEF Fails, Ends
<1>p. /\ refund[k].pre \in {"PENDING", "AVAILABLE", "FROZEN"}
      /\ refund[k].pre # "FROZEN" => earning[k] = "FROZEN" /\ e = refund[k].pre /\ \A i \in DisputeId : ~HeldBy(i, k)
      /\ refund[k].pre = "FROZEN" => e = earning[k]
  BY <1>e DEF LifeInv, UnderRefund
<1> HIDE DEF e
<1>f. /\ earning'[k] = e /\ refund'[k].stage = "FAILED" /\ earning[k] \in {"PENDING", "AVAILABLE", "FROZEN"}
      /\ \A l \in EarningKey : l # k => earning'[l] = earning[l] /\ refund'[l] = refund[l]
  BY <1>e, Ending
<1>1. ASSUME NEW l \in EarningKey, l # k PROVE Stays(l)
  BY <1>1, <1>e, <1>f, SameDisputes, UntouchedStays DEF SameHolders, Untouched
<1>2. Released(k)' <=> Released(k)
  <2>1. CASE refund[k].pre = "FROZEN"
    BY <1>e, <1>f, <1>p, <2>1 DEF Released, HeldBy
  <2>2. CASE refund[k].pre # "FROZEN"
    <3>1. Released(k) <=> refund[k].pre = "AVAILABLE"
      BY <1>e, <1>p, <2>2 DEF Released, InPayout
    <3>2. Released(k)' <=> refund[k].pre = "AVAILABLE"
      BY <1>f, <1>p, <2>2 DEF Released, InPayout
    <3> QED BY <3>1, <3>2
  <2> QED BY <2>1, <2>2
<1>3. FundsOf(k)' = FundsOf(k) /\ k \in OnHold
  BY <1>e, <1>f, <1>p, <1>2, Whereabouts, WhereaboutsNext
<1>4. ReleasedAtTheEnd'
  BY <1>1, <1>2, <1>e DEF Stays, ReleasedAtTheEnd, PromiseInv
<1>5. CASE k \in OnHold'
  <2>1. FundsMap' = FundsMap /\ OnHold' = OnHold
    BY <1>1, <1>3, <1>5, OneGoes
  <2> QED BY <1>e, <1>4, <2>1, PhasesNext DEF PromiseStep
<1>6. CASE k \notin OnHold'
  <2>1. FundsMap' = FundsMap /\ OnHold' = OnHold \ {k}
    BY <1>1, <1>3, <1>6, OneGoes
  <2>2. Promise!TakeOffHold(k)
    BY <1>e, <1>3, <2>1, PhasesNext DEF Promise!TakeOffHold, FundsMap
  <2> QED BY <1>4, <2>2 DEF PromiseStep, Promise!ReturnsNext
<1> QED BY <1>5, <1>6

LEMMA BeginsHonest ==
  ASSUME LifeInv, PromiseInv, NEW k \in EarningKey, NEW reason, Begins(k, reason)
  PROVE  PromiseStep /\ ReleasedAtTheEnd'
<1>1. \A l \in EarningKey : Stays(l)
  BY SameDisputes, SameHoldersUntouched, UntouchedStays DEF Begins
<1>2. status' = status
  BY DEF Begins
<1>3. ReleasedAtTheEnd'
  BY <1>1, <1>2 DEF Stays, ReleasedAtTheEnd, PromiseInv
<1> QED BY <1>1, <1>2, <1>3, AllStay, PhasesNext DEF PromiseStep

LEMMA PaysHonest ==
  ASSUME LifeInv, PromiseInv, NEW items \in SUBSET EarningKey, NEW from, NEW to, Pays(items, from, to)
  PROVE  PromiseStep /\ ReleasedAtTheEnd'
<1>u. status' = status /\ refund' = refund /\ dispute' = dispute
  BY DEF Pays
<1>1. ASSUME NEW k \in EarningKey, k \in items PROVE Stays(k)
  <2>1. /\ earning[k] \in {"AVAILABLE", "PAYOUT_PROCESSING"} /\ earning'[k] \in {"AVAILABLE", "PAYOUT_PROCESSING", "PAID_OUT"}
        /\ refund[k].stage # "ACTIVE"
    BY <1>1 DEF Pays
  <2>2. Released(k) /\ Released(k)'
    BY <2>1 DEF Released, InPayout
  <2> QED BY <1>u, <2>1, <2>2, Whereabouts, WhereaboutsNext DEF Stays
<1>2. ASSUME NEW k \in EarningKey, k \notin items PROVE Stays(k)
  BY <1>u, <1>2, SameDisputes, UntouchedStays DEF Pays, SameHolders, Untouched
<1>3. ReleasedAtTheEnd'
  BY <1>1, <1>2, <1>u DEF Stays, ReleasedAtTheEnd, PromiseInv
<1> QED BY <1>1, <1>2, <1>3, <1>u, AllStay, PhasesNext DEF PromiseStep

\* Every move, and what PromiseInv says after it.
LEMMA MovedHonest == ASSUME LifeInv, PromiseInv, Moved PROVE PromiseStep /\ ReleasedAtTheEnd'
<1>1. CASE Quiet \/ Completes \/ PaidFreely \/ \E i \in DisputeId : PaidUnder(i)
  BY <1>1, QuietHonest, CompletesHonest, PaidFreelyHonest, PaidUnderHonest
<1>2. CASE \/ \E k \in EarningKey : Succeeds(k) \/ Fails(k)
           \/ \E k \in EarningKey, s \in {"REQUIRES_ACTION", "FAILED"} : Charges(k, s)
           \/ \E d \in Delivery : \E a, e : Bought(d, a, e)
  BY <1>2, SucceedsHonest, FailsHonest, ChargesHonest, BoughtHonest
<1>3. CASE \/ \E i \in DisputeId, k, d \in EarningKey : Opens(i, k, d) /\ Unlocked
           \/ \E i \in DisputeId, k \in EarningKey : GivesBack(i, k)
  BY <1>3, OpensHonest, GivesBackHonest
<1>4. CASE \/ \E k \in EarningKey : \E reason, seen : Preparable(k, reason, seen) /\ Prepares(k, reason, seen)
           \/ \E k \in EarningKey : \E reason : Begins(k, reason)
           \/ \E items \in SUBSET EarningKey : \E from, to : Pays(items, from, to) /\ OneWayOut'
  BY <1>4, PreparesHonest, BeginsHonest, PaysHonest
<1> QED BY <1>1, <1>2, <1>3, <1>4 DEF Moved

AtWork  == {"IN_PROGRESS", "REVISION_REQUESTED", "SUBMITTED", "COMPLETED"}
Charged == {"PAID", "REFUND_PENDING", "REFUNDED"}

\* What a move does to the order and to its own payment.
OrderGoesOn ==
  \/ status' = status /\ charge'[Original] = charge[Original]
  \/ Turns /\ charge'[Original] = charge[Original]
  \/ status' = status /\ charge'[Original] \in Charged
  \/ status' = "CANCELLED" /\ charge'[Original] \in Charged
  \/ PaidInFull /\ charge'[Original] = charge[Original]
  \/ /\ status' = status /\ charge[Original] \notin Charged /\ charge'[Original] \in {"REQUIRES_ACTION", "FAILED"}
     /\ charge[Original] # "REQUIRES_ACTION" => status \in PayableStatuses
  \/ status = "SUBMITTED" /\ charge'[Original] = charge[Original] /\ status' \in AtWork

LEMMA MovedGoesOn == ASSUME LifeInv, Moved PROVE OrderGoesOn
<1>t. charge \in [EarningKey -> ChargeStatus] /\ Original \in EarningKey /\ Original \notin Delivery
  BY RowsOfType, Keys DEF LifeInv
<1>1. CASE Quiet \/ Completes
  BY <1>1 DEF Quiet, Completes, OrderGoesOn
<1>2. CASE PaidFreely \/ \E i \in DisputeId : PaidUnder(i)
  BY <1>t, <1>2 DEF PaidFreely, PaidUnder, OrderGoesOn, Charged
<1>3. ASSUME NEW k \in EarningKey, Succeeds(k) \/ Fails(k) PROVE OrderGoesOn
  BY <1>t, <1>3 DEF Succeeds, Fails, Ends, OrderGoesOn, Charged
<1>4. ASSUME NEW k \in EarningKey, NEW s \in {"REQUIRES_ACTION", "FAILED"}, Charges(k, s) PROVE OrderGoesOn
  <2>1. CASE k = Original
    BY <1>t, <1>4, <2>1 DEF Charges, OrderGoesOn, Charged
  <2>2. CASE k # Original
    BY <1>t, <1>4, <2>2 DEF Charges, OrderGoesOn
  <2> QED BY <2>1, <2>2
<1>5. ASSUME NEW d \in Delivery, NEW a, NEW e, Bought(d, a, e) PROVE OrderGoesOn
  <2>1. charge'[Original] = charge[Original]
    BY <1>t, <1>5 DEF Bought
  <2> QED BY <1>5, <2>1 DEF Bought, OrderGoesOn, AtWork
<1>6. CASE \/ \E i \in DisputeId, k, d \in EarningKey : Opens(i, k, d) /\ Unlocked
           \/ \E i \in DisputeId, k \in EarningKey : GivesBack(i, k)
  BY <1>6 DEF Opens, GivesBack, OrderGoesOn, orderVars
<1>7. ASSUME NEW k \in EarningKey, NEW reason, NEW seen, Prepares(k, reason, seen) PROVE OrderGoesOn
  BY <1>t, <1>7 DEF Prepares, Prepare, OrderGoesOn, Charged
<1>8. CASE \/ \E k \in EarningKey : \E reason : Begins(k, reason)
           \/ \E items \in SUBSET EarningKey : \E from, to : Pays(items, from, to) /\ OneWayOut'
  BY <1>8 DEF Begins, Pays, OrderGoesOn
<1> QED BY <1>1, <1>2, <1>3, <1>4, <1>5, <1>6, <1>7, <1>8 DEF Moved

LEMMA MovedPaidBefore ==
  ASSUME LifeInv, PromiseInv, Moved, starting' => starting \/ PaidInFull PROVE PaidBeforeWork'
<1>1. OrderGoesOn
  BY MovedGoesOn
<1>2. /\ starting \/ status \in AtWork => charge[Original] \in Charged
      /\ charge[Original] \in {"REQUIRES_ACTION", "FAILED"} => status = "ACCEPTED"
      /\ PaidInFull => charge[Original] = "PAID"
  BY DEF PromiseInv, PaidBeforeWork, AtWork, Charged, PaidInFull
<1>3. starting' \/ status' \in AtWork => charge'[Original] \in Charged
  BY <1>1, <1>2 DEF OrderGoesOn, Turns, AtWork, Charged, PayableStatuses
<1>4. charge'[Original] \in {"REQUIRES_ACTION", "FAILED"} => status' = "ACCEPTED"
  BY <1>1, <1>2 DEF OrderGoesOn, Turns, AtWork, Charged, PayableStatuses
<1> QED BY <1>3, <1>4 DEF PaidBeforeWork, AtWork, Charged

\* A move that leaves the extras under refund, and those who hold them, keeps them frozen.
Undisturbed ==
  /\ \A i \in DisputeId : dispute'[i].target \in Delivery /\ dispute'[i].preFreeze = "NONE" =>
       dispute[i].target \in Delivery /\ dispute[i].preFreeze = "NONE"
  /\ \A d \in Delivery : refund'[d].stage = "ACTIVE" =>
       /\ refund[d].stage = "ACTIVE"
       /\ earning[d] = "FROZEN" => earning'[d] = "FROZEN"
       /\ \A i \in DisputeId : IsActive(i)' /\ HeldBy(i, d)' => IsActive(i) /\ HeldBy(i, d)

LEMMA UndisturbedStay == ASSUME PromiseInv, Undisturbed PROVE ExtrasStayFrozen'
BY DEF PromiseInv, ExtrasStayFrozen, Undisturbed

\* All but the preparation of a refund.
LEMMA MostUndisturbed ==
  ASSUME LifeInv, PromiseInv, Moved PROVE Undisturbed \/ \E k \in EarningKey : \E reason, seen :
                                             Preparable(k, reason, seen) /\ Prepares(k, reason, seen)
<1>t. /\ earning \in [EarningKey -> EarningStatus] /\ Original \notin Delivery /\ Delivery \subseteq EarningKey
      /\ refund \in [EarningKey -> RefundRow] /\ dispute \in [DisputeId -> DisputeRow]
  BY RowsOfType, Keys DEF LifeInv
<1>v. UNCHANGED dispute => SameHolders
  BY SameDisputes
<1>1. CASE Quiet
  BY <1>t, <1>1 DEF Quiet, SameHolders, Undisturbed
<1>2. CASE Completes
  BY <1>v, <1>t, <1>2 DEF Completes, PendingEarnings, SameHolders, Undisturbed
<1>3. CASE PaidFreely
  BY <1>v, <1>t, <1>3 DEF PaidFreely, SameHolders, Undisturbed
<1>4. ASSUME NEW i \in DisputeId, PaidUnder(i) PROVE Undisturbed
  <2>1. /\ dispute'[i].target = Original /\ dispute'[i].preFreeze = "PENDING"
        /\ \A j \in DisputeId : j # i => dispute'[j] = dispute[j]
    BY <1>t, <1>4 DEF PaidUnder, DisputeRow
  <2>2. \A d \in Delivery : ~HeldBy(i, d)'
    BY <1>t, <2>1 DEF HeldBy
  <2>3. \A d \in Delivery : earning'[d] = earning[d] /\ refund'[d] = refund[d]
    BY <1>t, <1>4 DEF PaidUnder
  <2>4. \A j \in DisputeId, d \in Delivery : HeldBy(j, d)' /\ IsActive(j)' => HeldBy(j, d) /\ IsActive(j)
    BY <2>1, <2>2 DEF HeldBy, IsActive
  <2> QED BY <2>1, <2>3, <2>4 DEF Undisturbed
<1>5. ASSUME NEW k \in EarningKey, Succeeds(k) \/ Fails(k) PROVE Undisturbed
  <2>1. /\ refund'[k].stage # "ACTIVE" /\ dispute' = dispute
        /\ \A l \in EarningKey : l # k => earning'[l] = earning[l] /\ refund'[l] = refund[l]
    BY <1>t, <1>5 DEF Succeeds, Fails, Ends, RefundRow
  <2> QED BY <1>v, <1>t, <2>1 DEF SameHolders, Undisturbed
<1>6. ASSUME NEW k \in EarningKey, NEW s \in {"REQUIRES_ACTION", "FAILED"}, Charges(k, s) PROVE Undisturbed
  BY <1>v, <1>t, <1>6 DEF Charges, SameHolders, Undisturbed
<1>7. ASSUME NEW d \in Delivery, NEW a, NEW e, Bought(d, a, e) PROVE Undisturbed
  <2>1. refund[d].stage # "ACTIVE" /\ refund' = refund /\ dispute' = dispute
    BY <1>t, <1>7 DEF Bought, LifeInv, PaidForEarnings
  <2>2. \A l \in Delivery : l # d => earning'[l] = earning[l]
    BY <1>t, <1>7 DEF Bought
  <2> QED BY <1>v, <1>t, <2>1, <2>2 DEF SameHolders, Undisturbed
<1>8. ASSUME NEW i \in DisputeId, NEW k \in EarningKey, NEW d \in EarningKey, Opens(i, k, d) PROVE Undisturbed
  <2>1. /\ earning[k] \in {"PENDING", "AVAILABLE"} \/ (earning[k] = "NONE" /\ k = Original)
        /\ refund' = refund
    BY <1>8 DEF Opens, Freezable, refundVars
  <2>2. \A l \in EarningKey : earning[l] = "FROZEN" => earning'[l] = "FROZEN"
    BY <1>t, <1>8 DEF Opens
  <2>3. /\ dispute'[i].target = k /\ dispute'[i].preFreeze = earning[k]
        /\ \A j \in DisputeId : j # i => dispute'[j] = dispute[j]
    BY <1>t, <1>8 DEF Opens, DisputeRowOf
  <2>4. ASSUME NEW l \in Delivery, refund'[l].stage = "ACTIVE", NEW j \in DisputeId, HeldBy(j, l)', IsActive(j)'
        PROVE  HeldBy(j, l) /\ IsActive(j)
    <3>1. l # k
      BY <1>t, <2>1, <2>4 DEF PromiseInv, ExtrasStayFrozen
    <3>2. j # i
      BY <2>3, <2>4, <3>1 DEF HeldBy
    <3> QED BY <2>3, <2>4, <3>2 DEF HeldBy, IsActive
  <2> QED BY <1>t, <2>1, <2>2, <2>3, <2>4 DEF Undisturbed
<1>9. ASSUME NEW i \in DisputeId, NEW k \in EarningKey, GivesBack(i, k) PROVE Undisturbed
  <2>1. /\ \A j \in DisputeId : j # i => dispute'[j] = dispute[j]
        /\ \A j \in DisputeId : dispute'[j].target = dispute[j].target /\ dispute'[j].preFreeze = dispute[j].preFreeze
        /\ dispute'[i].status \in Restoring /\ IsActive(i) /\ dispute[i].target = k /\ dispute[i].preFreeze # "NONE"
    BY <1>t, <1>9 DEF GivesBack, DisputeRow
  <2>2. /\ HeldBy(i, k) /\ ~IsActive(i)'
        /\ \A j \in DisputeId, l \in EarningKey : IsActive(j)' /\ HeldBy(j, l)' => IsActive(j) /\ HeldBy(j, l)
    BY <2>1 DEF HeldBy, IsActive, ActiveStatuses, Waiting, Restoring
  <2>3. k \in Delivery => refund[k].stage # "ACTIVE"
    BY <2>1, <2>2 DEF PromiseInv, ExtrasStayFrozen
  <2>4. refund' = refund /\ \A l \in EarningKey : l # k => earning'[l] = earning[l]
    BY <1>t, <1>9 DEF GivesBack
  <2> QED BY <1>t, <2>1, <2>2, <2>3, <2>4 DEF Undisturbed
<1>10. CASE \E k \in EarningKey : \E reason : Begins(k, reason)
  BY <1>v, <1>t, <1>10 DEF Begins, SameHolders, Undisturbed
<1>11. ASSUME NEW items \in SUBSET EarningKey, NEW from, NEW to, Pays(items, from, to) PROVE Undisturbed
  BY <1>v, <1>t, <1>11 DEF Pays, SameHolders, Undisturbed
<1> QED BY <1>1, <1>2, <1>3, <1>4, <1>5, <1>6, <1>7, <1>8, <1>9, <1>10, <1>11 DEF Moved

LEMMA MovedExtras == ASSUME LifeInv, PromiseInv, Moved PROVE ExtrasStayFrozen'
<1>1. ASSUME NEW k \in EarningKey, NEW reason, NEW seen, Preparable(k, reason, seen), Prepares(k, reason, seen)
      PROVE  ExtrasStayFrozen'
  <2>1. /\ dispute' = dispute /\ earning'[k] = "FROZEN"
        /\ \A l \in EarningKey : l # k => earning'[l] = earning[l] /\ refund'[l] = refund[l]
    BY <1>1, RowsOfType DEF Prepares, Prepare, LifeInv
  <2>2. ASSUME k \in Delivery PROVE \A i \in DisputeId : IsActive(i) => ~HeldBy(i, k)
    <3>1. CASE activation[k] = "RECONCILIATION_REQUIRED"
      BY <2>2, <3>1 DEF LifeInv, HeldByOne
    <3>2. CASE Nest!Won(k)
      <4>1. PICK j \in DisputeId : dispute[j].status = "RESOLVED_CLIENT" /\ dispute[j].target = k
        BY <3>2, SameRows DEF Nest!Won
      <4>2. HeldBy(j, k) /\ ~IsActive(j)
        BY <2>2, <4>1 DEF HeldBy, IsActive, ActiveStatuses, Waiting, PromiseInv, ExtrasStayFrozen
      <4> QED BY <4>2 DEF LifeInv, HeldByOne
    <3> QED BY <1>1, <2>2, <3>1, <3>2 DEF Preparable
  <2>3. SameHolders
    BY <2>1, SameDisputes
  <2> QED BY <2>1, <2>2, <2>3, Keys DEF PromiseInv, ExtrasStayFrozen, SameHolders
<1> QED BY <1>1, MostUndisturbed, UndisturbedStay

LEMMA MovedKeepsPromise ==
  ASSUME LifeInv, PromiseInv, Moved, starting' => starting \/ PaidInFull PROVE PromiseStep /\ PromiseInv'
BY MovedHonest, MovedPaidBefore, MovedExtras DEF PromiseInv, ReleasedAtTheEnd

\* The start of the work reads the payment before it writes.
LEMMA StartSeen == LifeNext => (starting' => starting \/ PaidInFull)
<1>1. ASSUME LaravelOrdersNext PROVE starting' => starting \/ PaidInFull
  <2>1. ASSUME \/ Accept \/ Reject \/ Cancel \/ StartChecked \/ StartWritten PROVE starting' => starting \/ PaidInFull
    BY <2>1 DEF Accept, Reject, Cancel, StartChecked, StartWritten
  <2>2. ASSUME Deliver \/ RequestRevision \/ RequestProviderCorrection \/ DecideProviderCorrection PROVE UNCHANGED starting
    BY <2>2 DEF Deliver, DeliverFirst, DeliverRevision, RequestRevision, RequestProviderCorrection, SetClaim,
                DecideProviderCorrection, AcceptProviderCorrection
  <2>3. ASSUME Complete \/ ReconcileExpiredReview PROVE UNCHANGED starting
    BY <2>3 DEF Complete, ReconcileExpiredReview, CompleteReviewedOrder
  <2> QED BY <1>1, <2>1, <2>2, <2>3 DEF LaravelOrdersNext
<1>2. ASSUME LaravelDisputesNext PROVE UNCHANGED starting
  BY <1>2 DEF LaravelDisputesNext, OpenDispute, SubmitResponse, ReconcileExpiredResponse, MarkReady, BeginReview,
              RequestResponse, Resolve, SetDispute
<1>3. ASSUME LaravelPaymentsNext PROVE UNCHANGED starting
  BY <1>3 DEF LaravelPaymentsNext, CreateCheckout, CreateExtraRevisionCheckout, MarkPaid, MarkRevisionPaid,
              RequestRefund, Prepare, PaymentFailed, RefundSucceeds, RefundFails, SetCharge
<1>4. ASSUME LaravelTick \/ PrepareAdminRefund \/ \E k \in EarningKey, reason \in Reason : BeginAdminRefund(k, reason)
      PROVE  UNCHANGED starting
  BY <1>4 DEF LaravelTick, PrepareAdminRefund, Prepare, BeginAdminRefund, laravelVars
<1>5. ASSUME LaravelPayoutsNext PROVE UNCHANGED starting
  BY <1>5 DEF LaravelPayoutsNext, RequestPayout, ApprovePayout, BeginManual, AdvancePayout, SettleManual,
              ReleaseReservation, OnlyEarnings
<1> QED BY <1>1, <1>2, <1>3, <1>4, <1>5 DEF LifeNext, OnTheOrder

\* The order as it was placed, and as it stands while something else is at work.
LEMMA PromiseStarts == LifeInit => Promise!EscrowInit /\ PromiseInv
<1> SUFFICES ASSUME LifeInit PROVE Promise!EscrowInit /\ PromiseInv
  OBVIOUS
<1>1. /\ status = "REQUESTED" /\ starting = FALSE
      /\ \A k \in EarningKey : earning[k] = "NONE" /\ charge[k] = "NONE" /\ refund[k].stage = "NONE"
      /\ \A i \in DisputeId : dispute[i].target = Original /\ dispute[i].status = "NONE"
  BY Keys DEF LifeInit, LaravelInit, RowsInit, NoRefund, NoDispute, Original
<1>2. ASSUME NEW k \in EarningKey PROVE FundsOf(k) = "none" /\ k \notin OnHold /\ ~Released(k)
  BY <1>1, Whereabouts DEF Released, InPayout
<1>3. OnHold = {}
  BY <1>2 DEF OnHold
<1>4. PaidBeforeWork /\ ExtrasStayFrozen
  BY <1>1, Keys DEF PaidBeforeWork, ExtrasStayFrozen, Delivery
<1>5. Promise!EscrowInit
  BY <1>1, <1>2, <1>3, Phases DEF Promise!EscrowInit
<1> QED BY <1>2, <1>4, <1>5 DEF PromiseInv

LEMMA PromiseStands == UNCHANGED lifeVars => PromiseStep /\ (PromiseInv => PromiseInv')
<1> SUFFICES ASSUME UNCHANGED lifeVars PROVE PromiseStep /\ (PromiseInv => PromiseInv')
  OBVIOUS
<1>1. UNCHANGED <<status, charge, earning, dispute, refund, starting>>
  BY DEF lifeVars, laravelVars, rowVars, orderVars, moneyVars
<1>2. \A k \in EarningKey : Stays(k)
  BY <1>1, SameDisputes, SameHoldersUntouched, UntouchedStays
<1>3. PromiseStep
  BY <1>1, <1>2, AllStay, PhasesNext DEF PromiseStep
<1>4. PromiseInv => PromiseInv'
  BY <1>1, <1>2 DEF PromiseInv, PaidBeforeWork, ExtrasStayFrozen, IsActive, HeldBy, Stays
<1> QED BY <1>3, <1>4

-----------------------------------------------------------------------------
(* The whole *)

\* An order that has just been placed.
LEMMA LifeBegins == LifeInit => LifeInv
<1> SUFFICES ASSUME LifeInit PROVE LifeInv
  OBVIOUS
<1> USE DEF LifeInit, LaravelInit, RowsInit, PayoutsInit, NoRefund, NoDispute, NoPayout
<1>1. /\ \A k \in EarningKey : charge[k] = "NONE" /\ earning[k] = "NONE" /\ refund[k].stage = "NONE"
                               /\ refund[k].pre = "NONE" /\ refused[k] = {}
      /\ \A d \in Delivery : activation[d] = "PENDING" /\ revision[Extra(d)] = "NONE"
      /\ \A i \in DisputeId : dispute[i].status = "NONE" /\ dispute[i].preFreeze = "NONE"
      /\ \A p \in PayoutId : payout[p].status = "NONE"
      /\ Delivery \subseteq EarningKey /\ Original \in EarningKey
  BY Keys DEF Extra, RevisionType
<1>2. \A i \in DisputeId : ~IsActive(i) /\ \A k \in EarningKey : ~HeldBy(i, k)
  BY <1>1 DEF IsActive, ActiveStatuses, Waiting, HeldBy
<1>3. \A p \in PayoutId, k \in EarningKey : ~Carries(p, k, LivePayout) /\ ~Carries(p, k, {"PAID"})
                                            /\ ~Carries(p, k, LivePayout \cup {"PAID"})
  BY <1>1 DEF Carries, LivePayout
<1> USE <1>1, <1>2, <1>3
<1>4. PaidForEarnings /\ PurchasesOfDeliveries
  BY DEF PaidForEarnings, PurchasesOfDeliveries
<1>5. OneActiveDispute /\ HeldByOne /\ ReleasedAfterDelivery
  BY DEF OneActiveDispute, HeldByOne, ReleasedAfterDelivery
<1>6. UnderRefund /\ RefundCancels /\ PreparationStands
  BY DEF UnderRefund, RefundCancels, PreparationStands
<1>7. OneWayOut /\ FrozenForAReason
  BY DEF OneWayOut, FrozenForAReason
<1>8. WorkOrMoney
  BY SameRows DEF WorkOrMoney, Nest!WorkOrMoney
<1>9. LifeTypeOK
  BY LifeStarts
<1> QED BY <1>4, <1>5, <1>6, <1>7, <1>8, <1>9 DEF LifeInv

\* The order while something else is at work.
LEMMA LifeStands == LifeInv /\ UNCHANGED lifeVars => LifeInv'
<1> SUFFICES ASSUME LifeInv, UNCHANGED lifeVars PROVE LifeInv'
  OBVIOUS
<1>1. /\ UNCHANGED <<status, revisionsUsed, completionSource, reviewDelivery, reviewLeft>>
      /\ UNCHANGED <<delivered, answers, revision, charge, activation, earning, dispute>>
      /\ UNCHANGED <<refund, refused, starting, preparing, payout>>
  BY DEF lifeVars, laravelVars, rowVars, orderVars, reviewVars, workVars, moneyVars
<1>2. LifeTypeOK'
  BY <1>1 DEF LifeInv, LifeTypeOK, LaravelTypeOK, TypeOK, PayoutsTypeOK
<1>3. (PaidForEarnings /\ PurchasesOfDeliveries /\ OneActiveDispute /\ HeldByOne)'
  BY <1>1 DEF LifeInv, PaidForEarnings, PurchasesOfDeliveries, OneActiveDispute, HeldByOne, HeldBy, IsActive
<1>4. (ReleasedAfterDelivery /\ UnderRefund /\ RefundCancels)'
  BY <1>1 DEF LifeInv, ReleasedAfterDelivery, UnderRefund, RefundCancels, HeldBy
<1>5. (PreparationStands /\ OneWayOut)'
  BY <1>1 DEF LifeInv, PreparationStands, Returning, WonBeforePaid, Nest!Given, Nest!Won, OneWayOut, Carries
<1>6. (FrozenForAReason /\ WorkOrMoney)'
  BY <1>1 DEF LifeInv, FrozenForAReason, HeldBy, WorkOrMoney, Nest!WorkOrMoney, Nest!Given, Nest!Won
<1> QED BY <1>2, <1>3, <1>4, <1>5, <1>6 DEF LifeInv

LEMMA RefundStands == Refunds!RefundsInv /\ UNCHANGED refundsVars => Refunds!RefundsInv'
BY DEF refundsVars, Refunds!RefundsInv, Refunds!RefundsTypeOK, Refunds!OneSubmitter, Refunds!ReportsTrue,
       Refunds!RefundHonoured, Refunds!Submitting

LEMMA CheckoutStands == OpenInv /\ UNCHANGED checkoutVars => OpenInv'
BY DEF checkoutVars, OpenInv, CheckoutTypes, SessionsCounted, Checkout!OneClaimer, Checkout!NoSessionYet,
       Checkout!OneOpen, Checkout!OpenPayments

LEMMA RefundGoesOn == Refunds!RefundsInv /\ Refunds!RefundsNext => Refunds!RefundsInv'
<1> SUFFICES ASSUME Refunds!RefundsInv, Refunds!RefundsNext PROVE RefundInv'
  BY DEF Refunds!RefundsInv, RefundInv, Refunds!RefundsTypeOK, WorkerRow
<1>1. RefundInv
  BY RefundInvIsInv
<1>2. ASSUME NEW w \in Worker,
             \/ Refunds!Claim(w) \/ \E s \in Refunds!Report : Refunds!Created(w, s)
             \/ \E at \in Refunds!At : Refunds!NotCreated(w, at)
             \/ Refunds!SubmissionFailure(w) \/ Refunds!Stop(w)
      PROVE  RefundInv'
  BY <1>1, <1>2, SubmissionKeeps
<1>3. ASSUME \/ \E s \in Refunds!Report : Refunds!ProviderMoves(s)
             \/ \E w \in Worker : \/ Refunds!Reconcile(w) \/ Refunds!ReadRefund(w) \/ Refunds!Apply(w)
                                  \/ \E s \in Refunds!Report : Refunds!Webhook(w, s)
      PROVE  RefundInv'
  BY <1>1, <1>3, ReportKeeps
<1> QED BY <1>2, <1>3 DEF Refunds!RefundsNext

\* The inductive invariant.
AllInv == LifeInv /\ SceneInv /\ Refunds!RefundsInv /\ OpenInv

LEMMA AllBegins == Init => AllInv
BY LifeBegins, RefundStarts, CheckoutStarts DEF Init, AllInv, SceneInv, LifeInit

LEMMA AllKeeps == AllInv /\ [Next]_vars => AllInv'
<1> SUFFICES ASSUME AllInv, [Next]_vars PROVE AllInv'
  OBVIOUS
<1>0. LifeInv /\ SceneInv /\ Refunds!RefundsInv /\ OpenInv
  BY DEF AllInv
<1>1. CASE scene = "laravel" /\ LifeNext /\ UNCHANGED <<scene, refundsVars, sweepVars, checkoutVars>>
  BY <1>0, <1>1, LaravelKeeps, RefundStands, CheckoutStands DEF AllInv, SceneInv
<1>2. CASE /\ scene = "nest" /\ Nest!SettlementNext /\ UNCHANGED <<starting, preparing, payout>>
           /\ UNCHANGED <<scene, refundsVars, sweepVars, checkoutVars>>
  <2>1. preparing = NoPreparation /\ PayoutsInit
    BY <1>0, <1>2 DEF SceneInv
  <2>2. SceneInv'
    BY <1>2, <2>1 DEF SceneInv, PayoutsInit, NoPreparation
  <2> QED BY <1>0, <1>2, <2>1, <2>2, NestKeeps, RefundStands, CheckoutStands DEF AllInv
<1>3. ASSUME UNCHANGED <<lifeVars, scene>> PROVE LifeInv' /\ SceneInv'
  BY <1>0, <1>3, LifeStands DEF SceneInv, PayoutsInit, lifeVars
<1>4. CASE scene = "refund" /\ Refunds!RefundsNext /\ UNCHANGED <<scene, lifeVars, sweepVars, checkoutVars>>
  BY <1>0, <1>3, <1>4, RefundGoesOn, CheckoutStands DEF AllInv
<1>5. CASE scene = "sweep" /\ UNCHANGED <<scene, lifeVars, refundsVars, checkoutVars>>
  BY <1>0, <1>3, <1>5, RefundStands, CheckoutStands DEF AllInv
<1>6. CASE scene = "checkout" /\ Checkout!CheckoutNext /\ UNCHANGED <<scene, lifeVars, refundsVars, sweepVars>>
  BY <1>0, <1>3, <1>6, RefundStands, CheckoutKeeps DEF AllInv
<1>7. CASE UNCHANGED vars
  BY <1>0, <1>3, <1>7, RefundStands, CheckoutStands DEF AllInv, vars
<1> QED BY <1>1, <1>2, <1>4, <1>5, <1>6, <1>7 DEF Next

LEMMA AllHolds == Spec => []AllInv
BY AllBegins, AllKeeps, PTL DEF Spec

\* One order in either backend, one refund and one payment of the Laravel backend
\* keep their rows in the states BackendsInv names, whatever happens: what a dispute
\* has frozen, what a refund under way found, what was bought for which delivery, who
\* is submitting and who has claimed.
THEOREM BackendsInvariance == Spec => []BackendsInv
<1>1. AllInv => BackendsInv
  BY OpenInvGives DEF AllInv, BackendsInv
<1> QED BY <1>1, AllHolds, PTL

\* RefundService.apply and submissionFailure, and the webhooks and reconciliations
\* that call them: the client has the money back only if PayMongo returned it, and the
\* provider only if PayMongo did not; never both, and once each.
THEOREM RefundsAreHonoured == Spec => []RefundHonoured
<1>1. BackendsInv => RefundHonoured
  BY DEF BackendsInv, RefundHonoured, Refunds!RefundsInv
<1> QED BY <1>1, BackendsInvariance, PTL

\* createCheckout and what confirms its payments: of an order one payment at a time is
\* open, and each payment has one session at PayMongo and one earning.
THEOREM OneSession == Spec => []OneSessionEach
<1>1. BackendsInv => OneSessionEach
  BY DEF BackendsInv, OneSessionEach, Checkout!CheckoutInv
<1> QED BY <1>1, BackendsInvariance, PTL

\* DisputeService, PaymentService and RefundService freeze earnings and give them back:
\* one that is frozen is frozen by a dispute that holds it, by a refund under way, or
\* for a purchase whose revision never began and whose refund failed.
THEOREM FreezesHaveReasons == Spec => []FrozenForAReason
<1>1. BackendsInv => FrozenForAReason
  BY DEF BackendsInv, LifeInv
<1> QED BY <1>1, BackendsInvariance, PTL

\* RefundService and ProviderPayoutService: an earning leaves the platform in one
\* direction, to the client by one refund or to the provider by one payout.
THEOREM MoneyOneWay == Spec => []MoneyGoesOneWay
<1>1. ASSUME BackendsInv, ~WonBeforePaid, NEW k \in EarningKey
      PROVE  LET holding(s) == {p \in PayoutId : payout[p].status \in s /\ k \in payout[p].items} IN
             /\ earning[k] = "REFUNDED" <=> refund[k].stage = "SUCCEEDED"
             /\ earning[k] = "PAYOUT_PROCESSING" <=> holding(LivePayout) # {}
             /\ earning[k] = "PAID_OUT" <=> holding({"PAID"}) # {}
             /\ Cardinality(holding(LivePayout \cup {"PAID"})) <= 1
  <2> DEFINE holding(s) == {p \in PayoutId : payout[p].status \in s /\ k \in payout[p].items}
  <2>1. OneWayOut
    BY <1>1 DEF BackendsInv, LifeInv
  <2>2. earning[k] = "REFUNDED" <=> refund[k].stage = "SUCCEEDED"
    BY <2>1 DEF OneWayOut
  <2>3. /\ earning[k] = "PAYOUT_PROCESSING" <=> holding(LivePayout) # {}
        /\ earning[k] = "PAID_OUT" <=> holding({"PAID"}) # {}
    BY <1>1, <2>1 DEF OneWayOut, Carries
  <2>4. \A p, q \in holding(LivePayout \cup {"PAID"}) : p = q
    BY <2>1 DEF OneWayOut, Carries
  <2>5. Cardinality(holding(LivePayout \cup {"PAID"})) <= 1
    <3> DEFINE H == holding(LivePayout \cup {"PAID"})
    <3>1. \A p, q \in H : p = q
      BY <2>4
    <3> HIDE DEF H
    <3>2. Cardinality(H) <= 1
      BY <3>1, AtMostOne
    <3> QED BY <3>2 DEF H
  <2> QED BY <2>2, <2>3, <2>5
<1>2. BackendsInv => MoneyGoesOneWay
  BY <1>1 DEF MoneyGoesOneWay
<1> QED BY <1>2, BackendsInvariance, PTL

\* The refund requests, the deliveries and the revisions of both backends: money that
\* is on its way back, or is back, is not for work the client was given, unless the
\* client has won a dispute about it.
THEOREM WorkOrMoneyHolds == Spec => []WorkOrMoney
<1>1. BackendsInv => WorkOrMoney
  BY DEF BackendsInv, LifeInv
<1> QED BY <1>1, BackendsInvariance, PTL

\* getClientCapabilities and requestByClient of the NestJS backend: a refund the client
\* is offered is one the request accepts.
THEOREM OffersOfRefundsStand == Spec => []RefundOffersStand
<1>1. ASSUME BackendsInv, scene = "nest", NEW reason \in Nest!Reason, Nest!MayRequest(reason)
      PROVE  Nest!Refundable(Original, reason)
  <2>1. /\ LifeInv /\ PayoutsInit
        /\ PaidForEarnings /\ RefundCancels /\ OneWayOut
    BY <1>1 DEF BackendsInv, SceneInv, LifeInv
  <2>2. /\ reason \in Nest!ClientReason /\ status # "CANCELLED" /\ reason # "STALE_REVISION_PAYMENT"
        /\ charge[Original] = "PAID" /\ refund[Original].stage \notin {"ACTIVE", "SUCCEEDED"}
    BY <1>1, SameRows DEF Nest!MayRequest, Nest!Eligible, Nest!ClientReason
  <2>3. earning[Original] # "NONE" /\ earning[Original] # "REFUNDED"
    BY <2>1, <2>2, Keys DEF PaidForEarnings, OneWayOut
  <2>4. reason \notin refused[Original]
    BY <2>1, <2>2, Keys DEF RefundCancels
  <2>5. earning[Original] \notin {"PAYOUT_PROCESSING", "PAID_OUT"}
    <3>1. \A p \in PayoutId : payout[p].status = "NONE"
      BY <2>1 DEF PayoutsInit, NoPayout
    <3> QED BY <2>1, <3>1, Keys DEF OneWayOut, Carries, LivePayout
  <2> QED BY <2>2, <2>3, <2>4, <2>5 DEF Nest!Refundable, Nest!Confirmed
<1>2. BackendsInv => RefundOffersStand
  BY <1>1, SameRows DEF RefundOffersStand, Nest!RefundOffersStand
<1> QED BY <1>2, BackendsInvariance, PTL

LEMMA PromiseKept == AllInv /\ PromiseInv /\ [Next]_vars => PromiseStep /\ PromiseInv'
<1> SUFFICES ASSUME AllInv, PromiseInv, [Next]_vars PROVE PromiseStep /\ PromiseInv'
  OBVIOUS
<1>0. LifeInv /\ SceneInv
  BY DEF AllInv
<1>1. CASE scene = "laravel" /\ LifeNext
  BY <1>0, <1>1, LaravelMoves, StartSeen, MovedKeepsPromise
<1>2. CASE scene = "nest" /\ Nest!SettlementNext /\ UNCHANGED <<starting, preparing, payout>>
  BY <1>0, <1>2, NestMoves, MovedKeepsPromise DEF SceneInv
<1>3. CASE UNCHANGED lifeVars
  BY <1>3, PromiseStands
<1> QED BY <1>1, <1>2, <1>3 DEF Next, vars

\* The order, payment, dispute, refund and payout services of either backend, taken
\* together, move the money of an order only as module Escrow allows: what is returned
\* to the client was on hold before, nothing is released that is on hold, and what a
\* completion releases is all that was free.
THEOREM BothKeepThePromise == Spec => KeepsPromise
<1>1. Init => Promise!EscrowInit /\ PromiseInv
  BY PromiseStarts DEF Init
<1>2. AllInv /\ PromiseInv /\ [Next]_vars => PromiseInv' /\ [Promise!ReturnsNext]_(Promise!escrowVars)
  BY PromiseKept DEF PromiseStep, FundsMap, Promise!escrowVars
<1> QED BY <1>1, <1>2, AllHolds, PTL DEF Spec, KeepsPromise, Promise!ReturnsSpec
=============================================================================
