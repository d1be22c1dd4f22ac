--------------------------- MODULE CheckoutProofs ---------------------------
(***************************************************************************)
(* Theorems about module Checkout, for any number of concurrent calls,     *)
(* webhook requests and payments.                                          *)
(***************************************************************************)
EXTENDS Checkout, TLAPS

-----------------------------------------------------------------------------
\* The latest of a set of payments that has one element is that element.
LEMMA LatestOfOne ==
  ASSUME NEW S \in SUBSET PaymentId, NEW p \in S, \A q \in S : q = p
  PROVE  Latest(S) = p
<1>1. \A q \in S : q <= p
  BY CheckoutAssumption DEF PaymentId
<1>2. Latest(S) \in S
  BY <1>1 DEF Latest
<1> QED
  BY <1>2

\* With one payment that counts, every lookup finds a payment of the set it looked in.
LEMMA LookupFinds ==
  ASSUME TypeOK, OnePaymentCounts, NEW S \in SUBSET In(Indexed), S # {}
  PROVE  Latest(S) \in S
<1>1. PICK p \in S : TRUE
  OBVIOUS
<1>2. S \subseteq PaymentId /\ \A q \in S : q = p
  BY <1>1 DEF In, OnePaymentCounts
<1>3. Latest(S) = p
  BY <1>1, <1>2, LatestOfOne
<1> QED
  BY <1>1, <1>3

LEMMA LiveCount == In(Live) \subseteq In(Indexed) /\ In(Live) \cap linked \subseteq In(Indexed)
  BY DEF In, Indexed

LEMMA InitInv == Init => CheckoutInv
  BY CheckoutAssumption
  DEF Init, CheckoutInv, TypeOK, OnePaymentCounts, ClaimExclusive, PaidHasEvidence, CallInv, SessionInv,
      In, Live, Indexed, Steps, Acting, Event, NoEvent, PaymentId

-----------------------------------------------------------------------------
\* Steps of a call that leave payments and sessions alone: it only moves to a step
\* that is not acting, or to the claim of a payment that exists.
Moves(c) ==
  /\ step[c] \notin Acting
  /\ \/ step' = [step EXCEPT ![c] = "looking"] /\ UNCHANGED mine
     \/ step' = [step EXCEPT ![c] = "creating"] /\ UNCHANGED mine
     \/ step' = [step EXCEPT ![c] = "waiting"] /\ step[c] = "claiming" /\ UNCHANGED mine
     \/ \E p \in PaymentId :
          /\ payment[p] # "NONE"
          /\ step' = [step EXCEPT ![c] = "claiming"] /\ mine' = [mine EXCEPT ![c] = p]
  /\ UNCHANGED <<payVars, proVars, hookVars>>

\* Steps that end a call or its certainty.
Ends(c) ==
  /\ \/ step' = [step EXCEPT ![c] = "idle"] /\ mine' = [mine EXCEPT ![c] = 0]
     \/ step[c] = "answered" /\ step' = [step EXCEPT ![c] = "unsure"] /\ UNCHANGED mine
  /\ UNCHANGED <<payVars, proVars, hookVars>>

LEMMA MovesKeep ==
  ASSUME CheckoutInv, NEW c \in Calls, Moves(c) PROVE CheckoutInv'
<1> USE DEF CheckoutInv, Moves, payVars, proVars, hookVars
<1>1. TypeOK'
  BY DEF TypeOK, Steps
<1>2. OnePaymentCounts' /\ PaidHasEvidence' /\ SessionInv'
  BY DEF OnePaymentCounts, PaidHasEvidence, SessionInv, In, Happened
<1>3. ClaimExclusive'
  BY DEF TypeOK, ClaimExclusive, Acting
<1>4. CallInv'
  BY DEF TypeOK, CallInv, Acting
<1> QED
  BY <1>1, <1>2, <1>3, <1>4

LEMMA EndsKeep ==
  ASSUME CheckoutInv, NEW c \in Calls, Ends(c) PROVE CheckoutInv'
<1> USE DEF CheckoutInv, Ends, payVars, proVars, hookVars
<1>1. TypeOK'
  BY DEF TypeOK, Steps
<1>2. OnePaymentCounts' /\ PaidHasEvidence' /\ SessionInv'
  BY DEF OnePaymentCounts, PaidHasEvidence, SessionInv, In, Happened
<1>3. ClaimExclusive'
  BY DEF TypeOK, ClaimExclusive, Acting
<1>4. CallInv'
  BY DEF TypeOK, CallInv, Acting
<1> QED
  BY <1>1, <1>2, <1>3, <1>4

LEMMA QuietCallSteps ==
  ASSUME CheckoutInv, NEW c \in Calls,
         CheckSettled(c) \/ FindExisting(c) \/ EndWait(c) \/ StoreUrlFails(c) \/ CrashCall(c)
  PROVE  Moves(c) \/ Ends(c)
<1>1. CASE CheckSettled(c)
  BY <1>1 DEF CheckSettled, Goto, Moves, Acting
<1>2. CASE FindExisting(c)
  <2>1. CASE In(Live) = {}
    BY <1>2, <2>1 DEF FindExisting, Goto, Moves, Acting, payVars, proVars, hookVars
  <2>2. CASE In(Live) # {}
    <3>1. PICK p : p = Latest(In(Live))
      OBVIOUS
    <3>2. p \in In(Live)
      BY <2>2, <3>1, LookupFinds, LiveCount DEF CheckoutInv, In
    <3>3. p \in PaymentId /\ payment[p] # "NONE"
      BY <3>2 DEF In, Live
    <3>4. CASE p \in linked \cup unknown
      BY <1>2, <2>2, <3>1, <3>4 DEF FindExisting, Return, Goto, Ends, payVars, proVars, hookVars
    <3>5. CASE p \notin linked \cup unknown
      BY <1>2, <2>2, <3>1, <3>3, <3>5 DEF FindExisting, Take, Goto, Moves, Acting, payVars, proVars, hookVars
    <3> QED
      BY <3>4, <3>5
  <2> QED
    BY <2>1, <2>2
<1>3. CASE EndWait(c) \/ CrashCall(c)
  BY <1>3 DEF EndWait, CrashCall, Return, Goto, Ends
<1>4. CASE StoreUrlFails(c)
  BY <1>4 DEF StoreUrlFails, Goto, Ends
<1> QED
  BY <1>1, <1>2, <1>3, <1>4

-----------------------------------------------------------------------------
\* The steps of a call that change a payment or a session.

LEMMA CreateKeeps ==
  ASSUME CheckoutInv, NEW c \in Calls, CreatePending(c) PROVE CheckoutInv'
<1>1. CASE In(Indexed) # {}
  <2>1. PICK p : p = Latest(In(Indexed))
    OBVIOUS
  <2>2. p \in In(Indexed)
    BY <1>1, <2>1, LookupFinds DEF CheckoutInv, In
  <2>3. Moves(c)
    BY <1>1, <2>1, <2>2
    DEF CreatePending, Take, Goto, Moves, In, Indexed, Live, Acting, payVars, proVars, hookVars
  <2> QED
    BY <2>3, MovesKeep
<1>2. CASE In(Indexed) = {}
  <2>1. PICK p \in PaymentId :
          /\ payment[p] = "NONE"
          /\ payment' = [payment EXCEPT ![p] = "PENDING"]
          /\ step' = [step EXCEPT ![c] = "claiming"] /\ mine' = [mine EXCEPT ![c] = p]
          /\ UNCHANGED <<linked, unknown, proVars, hookVars>>
          /\ step[c] = "creating"
    BY <1>2 DEF CreatePending, NextNew, Set, Take, Goto
  <2> USE <2>1 DEF CheckoutInv, proVars, hookVars
  <2>2. TypeOK'
    BY DEF TypeOK, Steps
  <2>3. OnePaymentCounts'
    BY <1>2 DEF TypeOK, OnePaymentCounts, In, Indexed, Live
  <2>4. ClaimExclusive' /\ CallInv'
    BY DEF TypeOK, ClaimExclusive, CallInv, Acting
  <2>5. PaidHasEvidence' /\ SessionInv'
    BY DEF TypeOK, PaidHasEvidence, SessionInv, Happened
  <2> QED
    BY <2>2, <2>3, <2>4, <2>5
<1> QED
  BY <1>1, <1>2

LEMMA ClaimKeeps ==
  ASSUME CheckoutInv, NEW c \in Calls, Claim(c) PROVE CheckoutInv'
<1>1. CASE ~(payment[mine[c]] = "PENDING" /\ mine[c] \notin linked)
  <2>1. Moves(c)
    BY <1>1 DEF Claim, Goto, Moves, Acting, payVars, proVars, hookVars
  <2> QED
    BY <2>1, MovesKeep
<1>2. CASE payment[mine[c]] = "PENDING" /\ mine[c] \notin linked
  <2>1. PICK p \in PaymentId : p = mine[c]
    BY DEF CheckoutInv, CallInv, Claim
  <2>2. /\ step[c] = "claiming" /\ payment[p] = "PENDING"
        /\ payment' = [payment EXCEPT ![p] = "REQUIRES_ACTION"]
        /\ step' = [step EXCEPT ![c] = "calling"]
        /\ unknown' = unknown \ {p}
        /\ UNCHANGED <<linked, mine, proVars, hookVars>>
    BY <1>2, <2>1 DEF Claim, Set, Goto
  <2>3. session[p] = "none"
    BY <2>1, <2>2 DEF CheckoutInv, SessionInv, TypeOK
  <2> USE <2>1, <2>2, <2>3 DEF CheckoutInv, proVars, hookVars
  <2>4. TypeOK'
    BY DEF TypeOK, Steps
  <2>5. OnePaymentCounts'
    BY DEF TypeOK, OnePaymentCounts, In, Indexed, Live
  <2>6. ClaimExclusive' /\ CallInv'
    BY DEF TypeOK, ClaimExclusive, CallInv, Acting
  <2>7. PaidHasEvidence' /\ SessionInv'
    BY DEF TypeOK, PaidHasEvidence, SessionInv, Happened
  <2> QED
    BY <2>4, <2>5, <2>6, <2>7
<1> QED
  BY <1>1, <1>2

LEMMA CallPaymongoKeeps ==
  ASSUME CheckoutInv, NEW c \in Calls, CallPaymongo(c) PROVE CheckoutInv'
<1>1. PICK p \in PaymentId : p = mine[c]
  BY DEF CheckoutInv, CallInv, CallPaymongo, Acting
<1>2. PICK s \in {"answered", "rejected", "unsure"} :
        /\ step[c] = "calling" /\ payment[p] = "REQUIRES_ACTION" /\ session[p] = "none"
        /\ step' = [step EXCEPT ![c] = s]
        /\ \/ session' = [session EXCEPT ![p] = "open"]
           \/ s # "answered" /\ UNCHANGED session
        /\ UNCHANGED <<mine, failedTry, payVars, hookVars>>
  BY <1>1 DEF CallPaymongo, Goto, CheckoutInv, CallInv
<1> USE <1>1, <1>2 DEF CheckoutInv, payVars, hookVars
<1>3. TypeOK'
  BY DEF TypeOK, Steps
<1>4. OnePaymentCounts' /\ ClaimExclusive'
  BY DEF TypeOK, OnePaymentCounts, In, ClaimExclusive, Acting
<1>5. CallInv'
  <2>1. /\ step'[c] = s /\ mine'[c] = p /\ (s = "answered" => session'[p] # "none")
        /\ \A d \in Calls \ {c} : step'[d] = step[d] /\ mine'[d] = mine[d]
        /\ \A q \in PaymentId \ {p} : session'[q] = session[q]
        /\ payment' = payment
    BY DEF TypeOK
  <2>2. \A d \in Calls \ {c} : mine[d] = p => step[d] \notin Acting
    BY DEF ClaimExclusive, Acting
  <2>3. ASSUME NEW d \in Calls \ {c}
        PROVE  /\ step'[d] \in Acting \cup {"claiming", "waiting"} => mine'[d] \in PaymentId /\ payment'[mine'[d]] # "NONE"
               /\ step'[d] \in Acting => payment'[mine'[d]] # "PENDING"
               /\ step'[d] = "calling" => payment'[mine'[d]] = "REQUIRES_ACTION" /\ session'[mine'[d]] = "none"
               /\ step'[d] = "answered" => session'[mine'[d]] # "none"
    BY <2>1, <2>2 DEF CallInv, Acting
  <2> QED BY <2>1, <2>3 DEF CallInv, Acting
<1>6. PaidHasEvidence'
  BY DEF TypeOK, PaidHasEvidence
<1>7. \A q \in PaymentId : session[q] # "none" => session'[q] = session[q]
  BY DEF TypeOK
<1>8. \A e \in Event : Happened(e) => Happened(e)'
  BY <1>7 DEF Happened, Event
<1>9. SessionInv'
  <2>1. \A q \in PaymentId : session'[q] # "none" => payment'[q] \notin {"NONE", "PENDING"}
    BY DEF TypeOK, SessionInv
  <2>2. \A q \in linked' \cup failedTry' : session'[q] # "none"
    BY <1>7 DEF TypeOK, SessionInv
  <2>3. \A h \in Handlers : handling'[h] # NoEvent => Happened(handling[h])'
    BY <1>8 DEF TypeOK, SessionInv
  <2> QED
    BY <2>1, <2>2, <2>3 DEF SessionInv
<1> QED
  BY <1>3, <1>4, <1>5, <1>6, <1>9

LEMMA StoreUrlKeeps ==
  ASSUME CheckoutInv, NEW c \in Calls, StoreUrl(c) PROVE CheckoutInv'
<1>1. PICK p \in PaymentId : p = mine[c] /\ session[p] # "none"
  BY DEF CheckoutInv, CallInv, StoreUrl, Acting
<1>2. /\ linked' = linked \cup {p}
      /\ step' = [step EXCEPT ![c] = "idle"] /\ mine' = [mine EXCEPT ![c] = 0]
      /\ UNCHANGED <<payment, unknown, proVars, hookVars>>
  BY <1>1 DEF StoreUrl, Return, Goto
<1> USE <1>1, <1>2 DEF CheckoutInv, proVars, hookVars
<1>3. TypeOK'
  BY DEF TypeOK, Steps
<1>4. OnePaymentCounts' /\ PaidHasEvidence' /\ SessionInv'
  BY DEF TypeOK, OnePaymentCounts, In, PaidHasEvidence, SessionInv, Happened
<1>5. ClaimExclusive' /\ CallInv'
  BY DEF TypeOK, ClaimExclusive, CallInv, Acting
<1> QED
  BY <1>3, <1>4, <1>5

LEMMA MarkOutcomeKeeps ==
  ASSUME CheckoutInv, NEW c \in Calls, MarkRejected(c) \/ MarkUnknown(c) PROVE CheckoutInv'
<1>1. PICK p \in PaymentId : p = mine[c]
  BY DEF CheckoutInv, CallInv, MarkRejected, MarkUnknown, Acting
<1>2. /\ step[c] \in {"rejected", "unsure"}
      /\ \/ payment[p] = "REQUIRES_ACTION" /\ payment' = [payment EXCEPT ![p] = "FAILED"]
         \/ UNCHANGED payment
      /\ unknown' = unknown \/ unknown' = unknown \cup {p}
      /\ step' = [step EXCEPT ![c] = "idle"] /\ mine' = [mine EXCEPT ![c] = 0]
      /\ UNCHANGED <<linked, proVars, hookVars>>
  BY <1>1 DEF MarkRejected, MarkUnknown, Unlinked, Set, Return, Goto
<1> USE <1>1, <1>2 DEF CheckoutInv, proVars, hookVars
<1>3. TypeOK'
  BY DEF TypeOK, Steps
<1>4. OnePaymentCounts' /\ PaidHasEvidence' /\ SessionInv'
  <2>1. OnePaymentCounts' /\ PaidHasEvidence'
    BY DEF TypeOK, OnePaymentCounts, In, Indexed, Live, PaidHasEvidence
  <2>2. SessionInv'
    BY DEF TypeOK, SessionInv, Happened
  <2> QED
    BY <2>1, <2>2
<1>5. ClaimExclusive'
  BY DEF TypeOK, ClaimExclusive, Acting
<1>6. CallInv'
  <2>1. step'[c] = "idle" /\ \A d \in Calls : d # c => step'[d] = step[d] /\ mine'[d] = mine[d]
    BY DEF TypeOK
  <2>2. ASSUME NEW d \in Calls, d # c
        PROVE  /\ step[d] \in Acting \cup {"claiming", "waiting"} =>
                    mine[d] \in PaymentId /\ payment'[mine[d]] # "NONE"
               /\ step[d] \in Acting =>
                    payment[mine[d]] # "PENDING" /\ payment'[mine[d]] = payment[mine[d]]
    <3>1. step[d] \in Acting \cup {"claiming", "waiting"} =>
            mine[d] \in PaymentId /\ payment[mine[d]] # "NONE"
      BY DEF CallInv
    <3>2. step[d] \in Acting \cup {"claiming", "waiting"} => payment'[mine[d]] # "NONE"
      BY <3>1 DEF TypeOK
    <3>3. step[c] \in Acting
      BY DEF Acting
    <3>4. step[d] \in Acting => mine[d] # p
      BY <2>2, <3>3 DEF ClaimExclusive
    <3>5. step[d] \in Acting => payment[mine[d]] # "PENDING"
      BY DEF CallInv
    <3>6. step[d] \in Acting => payment'[mine[d]] = payment[mine[d]]
      BY <3>1, <3>4 DEF TypeOK
    <3> QED
      BY <3>1, <3>2, <3>5, <3>6
  <2>3. session' = session
    BY DEF proVars
  <2>4. \A d \in Calls : d # c => step'[d] = step[d] /\ mine'[d] = mine[d]
    BY <2>1
  <2>5. ASSUME NEW d \in Calls
        PROVE  /\ step'[d] \in Acting \cup {"claiming", "waiting"} =>
                    mine'[d] \in PaymentId /\ payment'[mine'[d]] # "NONE"
               /\ step'[d] \in Acting => payment'[mine'[d]] # "PENDING"
               /\ step'[d] = "calling" =>
                    payment'[mine'[d]] = "REQUIRES_ACTION" /\ session'[mine'[d]] = "none"
               /\ step'[d] = "answered" => session'[mine'[d]] # "none"
    <3>1. CASE d = c
      BY ONLY <2>1, <3>1 DEF Acting
    <3>2. CASE d # c
      <4>1. step'[d] = step[d] /\ mine'[d] = mine[d]
        BY <2>4, <3>2
      <4>2. /\ step[d] \in Acting => payment[mine[d]] # "PENDING"
            /\ step[d] = "calling" =>
                 payment[mine[d]] = "REQUIRES_ACTION" /\ session[mine[d]] = "none"
            /\ step[d] = "answered" => session[mine[d]] # "none"
        BY DEF CallInv
      <4> QED
        BY ONLY <2>2, <2>3, <3>2, <4>1, <4>2, d \in Calls DEF Acting
    <3> QED
      BY <3>1, <3>2
  <2> QED
    BY ONLY <2>5 DEF CallInv
<1> QED
  BY <1>3, <1>4, <1>5, <1>6

-----------------------------------------------------------------------------
\* The steps of PayMongo, of the webhooks and of a refreshed page.

LEMMA SessionStepsKeep ==
  ASSUME CheckoutInv, NEW p \in PaymentId, AttemptFails(p) \/ Pay(p) PROVE CheckoutInv'
<1>1. /\ session[p] = "open"
      /\ session' = [session EXCEPT ![p] = "paid"] \/ UNCHANGED session
      /\ failedTry' = failedTry \cup {p} \/ UNCHANGED failedTry
      /\ UNCHANGED <<payVars, callVars, hookVars>>
  BY DEF AttemptFails, Pay
<1>2. \A q \in PaymentId : session'[q] # session[q] => session[q] = "open" /\ session'[q] = "paid"
  BY <1>1 DEF CheckoutInv, TypeOK
<1> USE <1>1, <1>2 DEF CheckoutInv, payVars, callVars, hookVars
<1>3. TypeOK'
  BY DEF TypeOK
<1>4. OnePaymentCounts' /\ ClaimExclusive' /\ PaidHasEvidence'
  BY DEF TypeOK, OnePaymentCounts, In, ClaimExclusive, PaidHasEvidence
<1>5. CallInv'
  BY DEF CallInv, TypeOK, Acting
<1>6. \A e \in Event : Happened(e) => Happened(e)'
  BY DEF Happened, Event
<1>7. SessionInv'
  <2>1. \A q \in PaymentId : session'[q] # "none" => payment'[q] \notin {"NONE", "PENDING"}
    BY DEF SessionInv
  <2>2. \A q \in linked' \cup failedTry' : session'[q] # "none"
    BY DEF TypeOK, SessionInv
  <2>3. \A h \in Handlers : handling'[h] # NoEvent => Happened(handling[h])'
    BY <1>6 DEF TypeOK, SessionInv
  <2> QED
    BY <2>1, <2>2, <2>3 DEF SessionInv
<1> QED
  BY <1>3, <1>4, <1>5, <1>7

LEMMA HookStepsKeep ==
  ASSUME CheckoutInv,
         \/ \E h \in Handlers, e \in Event : Receive(h, e)
         \/ \E h \in Handlers : CrashHandler(h)
  PROVE  CheckoutInv'
<1>1. /\ UNCHANGED <<processed, payVars, callVars, proVars>>
      /\ recorded' \subseteq Event
      /\ \E h \in Handlers, e \in Event \cup {NoEvent} :
           (e # NoEvent => Happened(e)) /\ handling' = [handling EXCEPT ![h] = e]
  BY DEF Receive, CrashHandler, CheckoutInv, TypeOK
<1> USE <1>1 DEF CheckoutInv, payVars, callVars, proVars
<1>2. TypeOK'
  BY DEF TypeOK
<1>3. OnePaymentCounts' /\ ClaimExclusive' /\ PaidHasEvidence' /\ CallInv'
  BY DEF OnePaymentCounts, In, ClaimExclusive, PaidHasEvidence, CallInv
<1>4. SessionInv'
  BY DEF TypeOK, SessionInv, Happened
<1> QED
  BY <1>2, <1>3, <1>4

\* A payment is settled: it was unfinished, and it is paid only if its session is.
Settles(p) ==
  /\ session[p] # "none"
  /\ \/ UNCHANGED payment
     \/ payment[p] \in Live /\ payment' = [payment EXCEPT ![p] = "FAILED"]
     \/ payment[p] \in Live /\ payment' = [payment EXCEPT ![p] = "PAID"] /\ session[p] = "paid"
  /\ UNCHANGED <<linked, unknown, callVars, proVars>>

LEMMA SettlesKeeps ==
  ASSUME CheckoutInv, NEW p \in PaymentId, Settles(p), TypeOK',
         \A h \in Handlers : handling'[h] # NoEvent => handling'[h] = handling[h]
  PROVE  CheckoutInv'
<1> USE DEF CheckoutInv, Settles, callVars, proVars
<1>1. OnePaymentCounts' /\ ClaimExclusive' /\ PaidHasEvidence'
  BY DEF TypeOK, OnePaymentCounts, In, Indexed, Live, ClaimExclusive, PaidHasEvidence
<1>2. \A q \in PaymentId : payment'[q] # payment[q] => q = p /\ payment'[q] \in {"PAID", "FAILED"}
  BY DEF TypeOK
<1>3. CallInv'
  BY <1>2 DEF CallInv, Acting
<1>4. SessionInv'
  BY <1>2 DEF TypeOK, SessionInv, Happened
<1> QED
  BY <1>1, <1>3, <1>4

LEMMA HandleKeeps ==
  ASSUME CheckoutInv, NEW h \in Handlers, Handle(h) PROVE CheckoutInv'
<1>1. PICK e \in Event : e = handling[h] /\ Happened(e)
  BY DEF Handle, CheckoutInv, TypeOK, SessionInv
<1>2. PICK p \in PaymentId : p = e[1]
  BY DEF Event
<1>3. Settles(p)
  <2>1. session[p] # "none"
    BY <1>1, <1>2 DEF Happened, CheckoutInv, SessionInv
  <2>2. CASE e[2] = "paid"
    BY <1>1, <1>2, <2>1, <2>2 DEF Handle, MarkPaid, Set, Settles, Happened
  <2>3. CASE e[2] # "paid"
    BY <1>1, <1>2, <2>1, <2>3 DEF Handle, MarkFailed, Set, Settles
  <2> QED
    BY <2>2, <2>3
<1>4. TypeOK'
  BY <1>1, <1>2, <1>3 DEF Handle, Settles, CheckoutInv, TypeOK, callVars, proVars
<1>5. \A g \in Handlers : handling'[g] # NoEvent => handling'[g] = handling[g]
  BY DEF Handle, CheckoutInv, TypeOK
<1> QED
  BY <1>3, <1>4, <1>5, SettlesKeeps

LEMMA RefreshKeeps ==
  ASSUME CheckoutInv, Refresh PROVE CheckoutInv'
<1>1. PICK p : p = Latest(In(Live) \cap linked)
  OBVIOUS
<1>2. p \in In(Live) \cap linked
  BY <1>1, LookupFinds, LiveCount DEF Refresh, CheckoutInv, In
<1>3. p \in PaymentId /\ session[p] = "paid"
  BY <1>1, <1>2 DEF Refresh, In
<1>4. Settles(p)
  BY <1>1, <1>3 DEF Refresh, MarkPaid, Set, Settles
<1>5. TypeOK'
  BY <1>3, <1>4 DEF Refresh, Settles, CheckoutInv, TypeOK, callVars, proVars, hookVars
<1>6. \A h \in Handlers : handling'[h] # NoEvent => handling'[h] = handling[h]
  BY DEF Refresh, hookVars
<1> QED
  BY <1>3, <1>4, <1>5, <1>6, SettlesKeeps

-----------------------------------------------------------------------------
LEMMA CallStepKeeps ==
  ASSUME CheckoutInv, NEW c \in Calls, CheckSettled(c) \/ CallStep(c) \/ CrashCall(c)
  PROVE  CheckoutInv'
<1>1. CASE CheckSettled(c) \/ FindExisting(c) \/ EndWait(c) \/ StoreUrlFails(c) \/ CrashCall(c)
  BY <1>1, QuietCallSteps, MovesKeep, EndsKeep
<1>2. CASE CreatePending(c)
  BY <1>2, CreateKeeps
<1>3. CASE Claim(c)
  BY <1>3, ClaimKeeps
<1>4. CASE CallPaymongo(c)
  BY <1>4, CallPaymongoKeeps
<1>5. CASE StoreUrl(c)
  BY <1>5, StoreUrlKeeps
<1>6. CASE MarkRejected(c) \/ MarkUnknown(c)
  BY <1>6, MarkOutcomeKeeps
<1> QED
  BY <1>1, <1>2, <1>3, <1>4, <1>5, <1>6 DEF CallStep

LEMMA StutterKeeps == CheckoutInv /\ UNCHANGED vars => CheckoutInv'
  BY DEF vars, CheckoutInv, TypeOK, OnePaymentCounts, ClaimExclusive, PaidHasEvidence, CallInv, SessionInv,
         In, Happened

LEMMA StepKeeps == CheckoutInv /\ [Next]_vars => CheckoutInv'
<1> SUFFICES ASSUME CheckoutInv, [Next]_vars PROVE CheckoutInv'
  OBVIOUS
<1>1. ASSUME NEW c \in Calls, CheckSettled(c) \/ CallStep(c) \/ CrashCall(c) PROVE CheckoutInv'
  BY <1>1, CallStepKeeps
<1>2. ASSUME NEW p \in PaymentId, AttemptFails(p) \/ Pay(p) PROVE CheckoutInv'
  BY <1>2, SessionStepsKeep
<1>3. ASSUME NEW e \in Event, ReceiveAny(e) PROVE CheckoutInv'
  BY <1>3, HookStepsKeep DEF ReceiveAny
<1>4. ASSUME NEW h \in Handlers, Handle(h) \/ CrashHandler(h) PROVE CheckoutInv'
  BY <1>4, HookStepsKeep, HandleKeeps
<1>5. CASE Refresh
  BY <1>5, RefreshKeeps
<1>6. CASE UNCHANGED vars
  BY <1>6, StutterKeeps
<1> QED
  BY <1>1, <1>2, <1>3, <1>4, <1>5, <1>6 DEF Next

\* The invariant that the theorems below follow from: whatever calls, crashes and
\* webhooks interleave, payments, calls and sessions agree.
THEOREM CheckoutInvariance == Spec => []CheckoutInv
<1>1. Init => CheckoutInv
  BY InitInv
<1>2. CheckoutInv /\ [Next]_vars => CheckoutInv'
  BY StepKeeps
<1> QED
  BY <1>1, <1>2, PTL DEF Spec

\* The order is credited at most once: two payments never count together.
THEOREM OneCredit == Spec => []OnePaymentCounts
<1>1. CheckoutInv => OnePaymentCounts
  BY DEF CheckoutInv
<1> QED
  BY <1>1, CheckoutInvariance, PTL

\* PayMongo is asked for the session of a payment by one call only.
THEOREM OneActor == Spec => []ClaimExclusive
<1>1. CheckoutInv => ClaimExclusive
  BY DEF CheckoutInv
<1> QED
  BY <1>1, CheckoutInvariance, PTL

\* A payment is recorded as paid only on evidence about its own session.
THEOREM PaidOnEvidence == Spec => []PaidHasEvidence
<1>1. CheckoutInv => PaidHasEvidence
  BY DEF CheckoutInv
<1> QED
  BY <1>1, CheckoutInvariance, PTL

\* No session is opened for an order that is already paid, however old the check
\* is that the call made when it began.
THEOREM PaidOrderStaysClosed == Spec => NoSessionOncePaid
<1> DEFINE Opens == \A p \in PaymentId : session[p] = "none" /\ session'[p] = "open" => In({"PAID"}) = {}
<1>1. CheckoutInv /\ [Next]_vars => [Opens]_vars
  <2> SUFFICES ASSUME CheckoutInv, Next, NEW p \in PaymentId,
                      session[p] = "none", session'[p] = "open"
               PROVE  In({"PAID"}) = {}
    OBVIOUS
  <2>1. PICK c \in Calls : CallPaymongo(c)
    BY DEF Next, CallStep, CheckSettled, FindExisting, CreatePending, Claim, EndWait, StoreUrl,
           StoreUrlFails, MarkRejected, MarkUnknown, CrashCall, AttemptFails, Pay, ReceiveAny, Receive,
           Handle, CrashHandler, Refresh, proVars, CheckoutInv, TypeOK
  <2>2. mine[c] \in PaymentId /\ payment[mine[c]] = "REQUIRES_ACTION"
    BY <2>1 DEF CallPaymongo, CheckoutInv, CallInv, Acting
  <2> QED
    BY <2>2 DEF CheckoutInv, OnePaymentCounts, In, Indexed, Live
<1> QED
  BY <1>1, CheckoutInvariance, PTL DEF Spec, NoSessionOncePaid
=============================================================================
