------------------------------ MODULE Workload -------------------------------
(***************************************************************************)
(* The orders that come in (Intake) until they leave the provider's        *)
(* workload again: the client accepts the work, or the OrderReviewReconciler*)
(* completes it once the review has run out.  The reconciler takes a batch *)
(* of the orders whose review ended first, one after the other; the lists  *)
(* of orders and earnings do the same for their reader.  The completion of *)
(* some orders always throws: those of a client who won a dispute.         *)
(***************************************************************************)
EXTENDS Intake

CONSTANTS
  BatchSize,  \* ORDER_REVIEW_BATCH_SIZE, and the 25 of the lists
  MaxStuck    \* bound: orders whose completion always throws

VARIABLES
  expired,  \* the orders expiredReviewOrderIds finds, the first to expire first
  stuck,    \* the orders whose completion throws
  batch     \* what the poll has still to examine

reviewVars == <<expired, stuck, batch>>
allVars    == <<vars, reviewVars>>

Prefix(s, n) == SubSeq(s, 1, IF n < Len(s) THEN n ELSE Len(s))
Without(s, S) == SelectSeq(s, LAMBDA i : i \notin S)
Among(s) == {s[k] : k \in DOMAIN s}

TypeOK ==
  /\ IntakeTypeOK
  /\ \A i \in Among(expired) : i \in DOMAIN orders /\ orders[i].status = "ACCEPTED"
  /\ stuck \subseteq Among(expired) /\ Among(batch) \subseteq DOMAIN orders

AllInit == Init /\ expired = << >> /\ stuck = {} /\ batch = << >>

Complete(S) ==
  /\ orders' = [i \in DOMAIN orders |-> IF i \in S THEN [orders[i] EXCEPT !.status = "COMPLETED"] ELSE orders[i]]
  /\ expired' = Without(expired, S)
  /\ UNCHANGED <<shopVars, call, accepting>>

\* The work was delivered and its review has run out; the client may have won a
\* dispute about it.
Expire(i) ==
  /\ orders[i].status = "ACCEPTED" /\ i \notin Among(expired)
  /\ expired' = Append(expired, i)
  /\ stuck' \in {stuck} \cup IF Cardinality(stuck) < MaxStuck THEN {stuck \cup {i}} ELSE {}
  /\ UNCHANGED <<vars, batch>>

ClientAccepts(i) ==
  /\ orders[i].status = "ACCEPTED" /\ i \notin stuck
  /\ Complete({i}) /\ UNCHANGED <<stuck, batch>>

\* runOnce: a poll that finds another still running does nothing.
Poll ==
  /\ batch = << >> /\ expired # << >>
  /\ batch' = Prefix(expired, BatchSize)
  /\ UNCHANGED <<vars, expired, stuck>>

\* Slip: what one completion throws ends the poll.
ExamineOrThrow ==
  /\ batch # << >>
  /\ batch' = IF Head(batch) \in stuck THEN << >> ELSE Tail(batch)
  /\ Complete({Head(batch)} \cap (Among(expired) \ stuck))
  /\ UNCHANGED stuck

\* What a completion throws is caught, and the next order examined.
Examine ==
  /\ batch # << >>
  /\ batch' = Tail(batch)
  /\ Complete({Head(batch)} \cap (Among(expired) \ stuck))
  /\ UNCHANGED stuck

StopProcess ==
  /\ batch # << >>
  /\ batch' = << >>
  /\ UNCHANGED <<vars, expired, stuck>>

\* A list completes what it can before it is answered; here an order whose
\* completion throws ends it.
ReadList ==
  LET first   == Prefix(expired, BatchSize)
      reached == {k \in DOMAIN first : \A l \in 1..k : first[l] \notin stuck}
  IN /\ reached # {}
     /\ Complete({first[k] : k \in reached})
     /\ UNCHANGED <<stuck, batch>>

Next ==
  \/ IntakeNext /\ UNCHANGED reviewVars
  \/ \E i \in DOMAIN orders : Expire(i) \/ ClientAccepts(i)
  \/ Poll \/ Examine \/ StopProcess \/ ReadList

Spec == AllInit /\ [][Next]_allVars

\* The timer polls, and the process does not stop for ever just before it examines
\* the same order.  No reader is counted on.
FairSpec ==
  /\ Spec
  /\ WF_allVars(Poll)
  /\ \A i \in 1..MaxOrders : SF_allVars(Examine /\ Head(batch) = i)

-----------------------------------------------------------------------------
(* Properties *)

\* Two requests with the same identifier for the same details that are answered
\* with an order are answered with the same one, and whoever got an answer got
\* the order with the details asked for: a lost answer can be asked for again.
RepeatsAgree ==
  \A c, d \in Calls : call[c].stage = "answered" =>
    /\ orders[call[c].order].details = call[c].details
    /\ call[d].stage = "answered" /\ call[c].key = call[d].key /\ call[c].key # NoKey
         => call[c].order = call[d].order

\* The total of every order is the quote of a price at which its service was on
\* offer, adds up, and gives the provider at least that price: createCheckout and
\* providerEarningPrincipal find nothing to refuse.
OrdersPayable ==
  \A i \in DOMAIN orders : LET q == orders[i].quote IN
    /\ Payable(q) /\ (q.total - q.subtotal) * 10000 >= q.subtotal * FeeRate
    /\ \E p \in Prices : q.subtotal >= p

\* However many requests arrive at once, a new one waits only if there was room
\* for it under the limit its transaction read, and the provider never takes on
\* more work than the limit read by the transaction that accepts the order.
WithinLimits ==
  [][/\ \A c \in Calls : call[c].stage = "counted" /\ call'[c].stage = "answered" =>
          Cardinality(Pending(ProviderOf[call[c].details])') <= call[c].limit
     /\ \A i \in DOMAIN orders : orders[i].status = "REQUESTED" /\ orders'[i].status = "ACCEPTED" =>
          Cardinality(Active(ProviderOf[orders[i].details])') <= accepting[i].limit]_allVars

\* As long as fewer completions throw than a batch holds, every other order whose
\* review has run out is completed in the end and frees its place.
ReviewsConclude ==
  \A i \in 1..MaxOrders :
    (i \in Among(expired) /\ i \notin stuck /\ Cardinality(stuck) < BatchSize)
      ~> (i \in DOMAIN orders /\ orders[i].status = "COMPLETED")

-----------------------------------------------------------------------------
(* What makes them inductive *)

\* A service at a price at which it can be ordered as the details say.
Offerable ==
  {o \in Details \X Prices : OptionOf[o[1]] = "PACKAGE" \/ OptionOf[o[1]] \in Eligible(TermsAt(o[1], o[2]))}

OrderRow == [details : Details, key : Keys \cup {NoKey}, status : Status,
             quote : {QuoteOf(o[1], o[2]) : o \in Offerable}]
CallRow  == [stage : Stage, key : Keys \cup {NoKey}, details : Details, price : Prices \cup {0},
             limit : Limits \cup {0}, order : 0..MaxOrders]
AcceptRow == [stage : {"no", "locked", "counted"}, limit : Limits \cup {0}]

RowsTyped ==
  /\ offer \in [Details -> Prices \cup {0}]
  /\ profile \in [Providers -> [available : BOOLEAN, pending : Limits, active : Limits]]
  /\ orders \in Seq(OrderRow) /\ Len(orders) <= MaxOrders
  /\ call \in [Calls -> CallRow] /\ accepting \in [1..MaxOrders -> AcceptRow]

\* What a request was priced at was on offer.
PricedRight ==
  \A c \in Calls : call[c].stage \in {"priced", "locked", "counted"} => <<call[c].details, call[c].price>> \in Offerable

\* An answer is an order with the details and the identifier of the request ...
AnsweredRight ==
  \A c \in Calls : call[c].stage = "answered" =>
    /\ call[c].order \in DOMAIN orders /\ orders[call[c].order].details = call[c].details
    /\ call[c].key # NoKey => orders[call[c].order].key = call[c].key

\* ... of which there is one.
KeysUnique ==
  \A i, j \in DOMAIN orders : orders[i].key = orders[j].key /\ orders[i].key # NoKey => i = j

\* One transaction at a time has the workload lock of a provider.
CallHolds(c, q)   == call[c].stage \in Holding /\ ProviderOf[call[c].details] = q
AcceptHolds(i, q) == accepting[i].stage \in Holding /\ ProviderOf[orders[i].details] = q
LockExclusive ==
  \A q \in Providers :
    /\ \A c, d \in Calls : CallHolds(c, q) /\ CallHolds(d, q) => c = d
    /\ \A i, j \in DOMAIN orders : AcceptHolds(i, q) /\ AcceptHolds(j, q) => i = j
    /\ \A c \in Calls, i \in DOMAIN orders : ~(CallHolds(c, q) /\ AcceptHolds(i, q))

AcceptingExists == \A i \in 1..MaxOrders : accepting[i].stage # "no" => i \in DOMAIN orders

\* Under the lock, the room that was counted is still there.
RoomLeft ==
  /\ \A c \in Calls : call[c].stage = "counted" =>
       Cardinality(Pending(ProviderOf[call[c].details])) < call[c].limit
  /\ \A i \in DOMAIN orders : accepting[i].stage = "counted" =>
       Cardinality(Active(ProviderOf[orders[i].details])) < accepting[i].limit

MarketInv ==
  /\ RowsTyped /\ PricedRight /\ AnsweredRight /\ KeysUnique
  /\ LockExclusive /\ AcceptingExists /\ RoomLeft
=============================================================================
