-------------------------- MODULE MarketplaceProofs --------------------------
(***************************************************************************)
(* The marketplace, for any number of requests, services, listings, tabs   *)
(* and administrators: what the prices satisfy for every rate, minimum and *)
(* amount; that orders come in once, payable and within their provider's   *)
(* limits; and that a listing and its files are kept right while several   *)
(* tabs and an administrator work on it.                                   *)
(***************************************************************************)
EXTENDS Workload, Catalogue, SequenceTheorems, FiniteSetTheorems, TLAPS

-----------------------------------------------------------------------------
(* Prices *)

\* Rounding up (ceilBasisPoints): the part is at least the exact share, less than
\* one centavo above it, and never more than the whole.
THEOREM RoundedUp ==
  ASSUME NEW amount \in Nat, NEW rate \in Rate
  PROVE  /\ CeilRate(amount, rate) \in Nat
         /\ CeilRate(amount, rate) * 10000 >= amount * rate
         /\ CeilRate(amount, rate) * 10000 < amount * rate + 10000
         /\ CeilRate(amount, rate) <= amount
<1> DEFINE x == amount * rate
           q == CeilRate(amount, rate)
<1>1. x \in Nat
  BY DEF Rate
<1>2. x <= amount * 10000
  BY SMT DEF Rate
<1>3. q = (x + 9999) \div 10000
  BY DEF CeilRate
<1> HIDE DEF x, q
<1>4. q \in Nat /\ q * 10000 <= x + 9999 /\ x + 9999 < q * 10000 + 10000
  BY <1>1, <1>3
<1>5. q <= amount
  BY <1>2, <1>4, <1>1
<1>6. q \in Nat /\ q * 10000 >= x /\ q * 10000 < x + 10000
  BY <1>4, <1>1
<1> QED BY <1>5, <1>6 DEF x, q

LEMMA FeeIsNat ==
  ASSUME NEW subtotal \in Nat
  PROVE  Fee(subtotal) \in Nat
<1>1. FeeRate \in Rate /\ FeeMinimum \in Nat
  BY RatesAreRates
<1>2. CeilRate(subtotal, FeeRate) \in Nat
  BY <1>1, RoundedUp
<1> QED BY <1>1, <1>2 DEF Fee, AtLeast

\* The quote of a rush order (quote): the provider's part is at least the base
\* price and at most twice of it, and total, fee and subtotal fit together, as
\* createPending stores them and providerEarningPrincipal recomputes them.
THEOREM QuotesArePayable ==
  ASSUME NEW terms \in Terms, NEW o \in Eligible(terms)
  PROVE  /\ Payable(Quote(terms, o))
         /\ terms.base <= Quote(terms, o).subtotal
         /\ Quote(terms, o).subtotal <= 2 * terms.base
<1> DEFINE base == terms.base
           surcharge == Surcharge(base, o)
<1>1. base \in Nat \ {0}
  BY DEF Terms
<1>2. surcharge \in Nat /\ surcharge <= base
  <2>1. CASE o = "NORMAL"
    BY <1>1, <2>1 DEF Surcharge
  <2>2. CASE o # "NORMAL"
    <3>1. o \in Rush
      BY <2>2 DEF Eligible
    <3>2. RushRate[o] \in Rate
      BY <3>1, RatesAreRates
    <3>3. CeilRate(base, RushRate[o]) \in Nat /\ CeilRate(base, RushRate[o]) <= base
      BY <1>1, <3>2, RoundedUp
    <3> QED BY <2>2, <3>3 DEF Surcharge
  <2> QED BY <2>1, <2>2
<1>3. /\ Quote(terms, o).subtotal = base + surcharge
      /\ Quote(terms, o).fee = Fee(base + surcharge)
      /\ Quote(terms, o).total = (base + surcharge) + Fee(base + surcharge)
  BY DEF Quote
<1>4. Fee(base + surcharge) \in Nat
  BY <1>1, <1>2, FeeIsNat
<1> HIDE DEF base, surcharge
<1>5. base <= base + surcharge /\ base + surcharge <= 2 * base
  BY <1>1, <1>2
<1>6. (base + surcharge) + Fee(base + surcharge) > 0
  BY <1>1, <1>2, <1>4
<1> QED BY <1>3, <1>5, <1>6 DEF Payable, base

LEMMA SubtotalIsNat ==
  ASSUME NEW terms \in Terms, NEW o \in Eligible(terms)
  PROVE  Quote(terms, o).subtotal \in Nat
<1>1. terms.base \in Nat
  BY DEF Terms
<1>2. CASE o = "NORMAL"
  BY <1>1, <1>2 DEF Quote, Surcharge
<1>3. CASE o # "NORMAL"
  <2>1. RushRate[o] \in Rate
    BY <1>3, RatesAreRates DEF Eligible
  <2>2. CeilRate(terms.base, RushRate[o]) \in Nat
    BY <1>1, <2>1, RoundedUp
  <2> QED BY <1>1, <1>3, <2>2 DEF Quote, Surcharge
<1> QED BY <1>2, <1>3

\* A rush order is delivered before a normal one, and no sooner than the provider
\* offers (eligibleDeliveryOptions, whatever the saved terms are).
THEOREM RushIsSooner ==
  ASSUME NEW terms \in Terms, NEW o \in Eligible(terms), o # "NORMAL"
  PROVE  /\ Quote(terms, o).minutes < terms.normal
         /\ Quote(terms, o).minutes >= Minutes(terms.fastest)
BY DEF Eligible, Quote

\* What validateProviderRushSettings accepts can be ordered: the fastest option a
\* provider may save is among those eligibleDeliveryOptions offers.
THEOREM FastestIsOffered ==
  ASSUME NEW terms \in Terms, Sellable(terms), terms.fastest # "none"
  PROVE  terms.fastest \in Eligible(terms)
<1>1. terms.fastest \in Rush
  BY DEF Terms
<1>2. Minutes(terms.fastest) \in Int
  BY <1>1 DEF Minutes, Rush
<1> QED BY <1>1, <1>2 DEF Eligible, Sellable

\* An extra revision (paidExtraRevisionQuote) has a payable price of at least 2100
\* centavos, of which the fee is at most a twentieth rounded up.
THEOREM ExtraRevisionIsPayable ==
  ASSUME NEW subtotal \in Nat
  PROVE  /\ Payable(ExtraRevision(subtotal))
         /\ ExtraRevision(subtotal).total >= 2100
         /\ ExtraRevision(subtotal).fee <= ExtraRevision(subtotal).subtotal
<1> DEFINE tenth == CeilRate(subtotal, 1000)
           part  == AtLeast(2000, tenth)
           fee   == CeilRate(part, 500)
<1>r. 1000 \in Rate /\ 500 \in Rate
  BY DEF Rate
<1>1. tenth \in Nat
  BY <1>r, RoundedUp
<1>2. part \in Nat /\ part >= 2000
  BY <1>1 DEF AtLeast
<1> HIDE DEF part
<1>3. fee \in Nat /\ fee * 10000 >= part * 500 /\ fee <= part
  BY <1>r, <1>2, RoundedUp
<1> USE DEF part
<1>4. /\ ExtraRevision(subtotal).subtotal = part
      /\ ExtraRevision(subtotal).fee = fee
      /\ ExtraRevision(subtotal).total = part + fee
  BY DEF ExtraRevision
<1> HIDE DEF part, fee
<1>5. part + fee >= 2100
  BY <1>2, <1>3
<1> QED BY <1>2, <1>3, <1>4, <1>5 DEF Payable

\* The time for a revision (revisionTurnaroundMinutes) is between three hours and
\* three days, and at least half of the original time unless that is longer.
THEOREM TurnaroundBounded ==
  ASSUME NEW minutes \in Nat
  PROVE  /\ Turnaround(minutes) \in 180 .. 4320
         /\ Turnaround(minutes) < 4320 => 2 * Turnaround(minutes) >= minutes
BY DEF Turnaround, AtLeast
-----------------------------------------------------------------------------
(* Rows *)

LEMMA OrdersAre ==
  ASSUME RowsTyped
  PROVE  /\ DOMAIN orders = 1 .. Len(orders) /\ Len(orders) \in Nat
         /\ \A i \in DOMAIN orders : orders[i] \in OrderRow
         /\ IsFiniteSet(DOMAIN orders)
<1>1. DOMAIN orders = 1 .. Len(orders) /\ Len(orders) \in Nat /\ \A i \in DOMAIN orders : orders[i] \in OrderRow
  BY DEF RowsTyped
<1> QED BY <1>1, FS_Interval

LEMMA OfIsFinite ==
  ASSUME RowsTyped, NEW q, NEW statuses
  PROVE  IsFiniteSet(Of(q, statuses)) /\ Cardinality(Of(q, statuses)) \in Nat
BY OrdersAre, FS_Subset, FS_CardinalityType DEF Of

LEMMA PartOfSeq ==
  ASSUME NEW X, NEW s \in Seq(X), NEW T \in SUBSET DOMAIN s
  PROVE  IsFiniteSet(T) /\ Cardinality(T) \in Nat
<1>1. DOMAIN s = 1 .. Len(s) /\ Len(s) \in Nat
  OBVIOUS
<1>2. IsFiniteSet(DOMAIN s)
  BY <1>1, FS_Interval
<1>3. IsFiniteSet(T)
  BY <1>2, FS_Subset
<1> QED BY <1>3, FS_CardinalityType

LEMMA LimitsAreNat ==
  ASSUME RowsTyped
  PROVE  /\ \A c \in Calls : call[c].limit \in Nat
         /\ \A i \in 1..MaxOrders : accepting[i].limit \in Nat
<1>1. Limits \cup {0} \subseteq Nat
  BY MarketIsSane
<1>2. \A c \in Calls : call[c] \in CallRow
  BY DEF RowsTyped
<1>3. \A i \in 1..MaxOrders : accepting[i] \in AcceptRow
  BY DEF RowsTyped
<1>4. \A r \in CallRow : r.limit \in Limits \cup {0}
  BY DEF CallRow
<1>5. \A r \in AcceptRow : r.limit \in Limits \cup {0}
  BY DEF AcceptRow
<1> QED BY <1>1, <1>2, <1>3, <1>4, <1>5

\* What writing one field of a request, or two, makes of it.
LEMMA StageWritten ==
  ASSUME RowsTyped, NEW c \in Calls, NEW s \in Stage, call' = [call EXCEPT ![c].stage = s]
  PROVE  /\ call' \in [Calls -> CallRow] /\ \A d \in Calls \ {c} : call'[d] = call[d]
         /\ call'[c].stage = s /\ call'[c].order = call[c].order /\ call'[c].key = call[c].key
         /\ call'[c].details = call[c].details /\ call'[c].price = call[c].price /\ call'[c].limit = call[c].limit
<1> DEFINE new == [call[c] EXCEPT !.stage = s]
<1>1. call[c] \in CallRow
  BY DEF RowsTyped
<1>2. /\ new \in CallRow /\ new.stage = s /\ new.order = call[c].order /\ new.key = call[c].key
      /\ new.details = call[c].details /\ new.price = call[c].price /\ new.limit = call[c].limit
  BY <1>1 DEF CallRow
<1>3. call' = [call EXCEPT ![c] = new]
  OBVIOUS
<1> HIDE DEF new
<1> QED BY <1>2, <1>3 DEF RowsTyped

Answer(c, s, o) == call' = [call EXCEPT ![c].stage = s, ![c].order = o]

LEMMA AnswerWritten ==
  ASSUME RowsTyped, NEW c \in Calls, NEW s \in Stage, NEW o \in 0..MaxOrders, Answer(c, s, o)
  PROVE  /\ call' \in [Calls -> CallRow] /\ \A d \in Calls \ {c} : call'[d] = call[d]
         /\ call'[c].stage = s /\ call'[c].order = o /\ call'[c].key = call[c].key
         /\ call'[c].details = call[c].details
<1> DEFINE new == [call[c] EXCEPT !.stage = s, !.order = o]
<1>1. call[c] \in CallRow
  BY DEF RowsTyped
<1>2. /\ new \in CallRow /\ new.stage = s /\ new.order = o /\ new.key = call[c].key
      /\ new.details = call[c].details
  BY <1>1 DEF CallRow
<1>3. call' = [call EXCEPT ![c] = new]
  BY DEF RowsTyped, Answer
<1> HIDE DEF new
<1> QED BY <1>2, <1>3 DEF RowsTyped

LEMMA PriceWritten ==
  ASSUME RowsTyped, NEW c \in Calls, NEW s \in Stage, NEW p \in Prices,
         call' = [call EXCEPT ![c].stage = s, ![c].price = p]
  PROVE  /\ call' \in [Calls -> CallRow] /\ \A d \in Calls \ {c} : call'[d] = call[d]
         /\ call'[c].stage = s /\ call'[c].price = p /\ call'[c].details = call[c].details
<1> DEFINE new == [call[c] EXCEPT !.stage = s, !.price = p]
<1>1. call[c] \in CallRow
  BY DEF RowsTyped
<1>2. new \in CallRow /\ new.stage = s /\ new.price = p /\ new.details = call[c].details
  BY <1>1 DEF CallRow
<1>3. call' = [call EXCEPT ![c] = new]
  BY DEF RowsTyped
<1> HIDE DEF new
<1> QED BY <1>2, <1>3 DEF RowsTyped

LEMMA LimitWritten ==
  ASSUME RowsTyped, NEW c \in Calls, NEW s \in Stage, NEW n \in Limits,
         call' = [call EXCEPT ![c].stage = s, ![c].limit = n]
  PROVE  /\ call' \in [Calls -> CallRow] /\ \A d \in Calls \ {c} : call'[d] = call[d]
         /\ call'[c].stage = s /\ call'[c].limit = n /\ call'[c].details = call[c].details
         /\ call'[c].price = call[c].price
<1> DEFINE new == [call[c] EXCEPT !.stage = s, !.limit = n]
<1>1. call[c] \in CallRow
  BY DEF RowsTyped
<1>2. new \in CallRow /\ new.stage = s /\ new.limit = n /\ new.details = call[c].details /\ new.price = call[c].price
  BY <1>1 DEF CallRow
<1>3. call' = [call EXCEPT ![c] = new]
  BY DEF RowsTyped
<1> HIDE DEF new
<1> QED BY <1>2, <1>3 DEF RowsTyped

\* What a status written to one order leaves as it was.
SameRows ==
  /\ DOMAIN orders' = DOMAIN orders
  /\ \A i \in DOMAIN orders : orders'[i].details = orders[i].details /\ orders'[i].key = orders[i].key

LEMMA StatusWritten ==
  ASSUME RowsTyped, NEW i \in DOMAIN orders, NEW s \in Status, SetStatus(i, s)
  PROVE  /\ orders' \in Seq(OrderRow) /\ Len(orders') = Len(orders) /\ SameRows
         /\ orders'[i].status = s /\ \A j \in DOMAIN orders \ {i} : orders'[j] = orders[j]
<1> DEFINE new == [orders[i] EXCEPT !.status = s]
<1>1. orders[i] \in OrderRow
  BY OrdersAre
<1>2. /\ new \in OrderRow /\ new.status = s
      /\ new.details = orders[i].details /\ new.key = orders[i].key
  BY <1>1 DEF OrderRow
<1>3. orders' = [orders EXCEPT ![i] = new]
  BY DEF SetStatus
<1> HIDE DEF new
<1>4. /\ orders' \in Seq(OrderRow) /\ Len(orders') = Len(orders) /\ DOMAIN orders' = DOMAIN orders
      /\ orders'[i] = new /\ \A j \in DOMAIN orders \ {i} : orders'[j] = orders[j]
  BY <1>2, <1>3 DEF RowsTyped
<1> QED BY <1>2, <1>4 DEF SameRows

LEMMA ManyWritten ==
  ASSUME RowsTyped, NEW S, Complete(S)
  PROVE  /\ orders' \in Seq(OrderRow) /\ Len(orders') = Len(orders) /\ SameRows
         /\ \A i \in DOMAIN orders : orders'[i] = orders[i] \/ orders'[i].status = "COMPLETED"
<1> DEFINE Done(i) == [orders[i] EXCEPT !.status = "COMPLETED"]
           new(i)  == IF i \in S THEN Done(i) ELSE orders[i]
<1>1. \A i \in DOMAIN orders : /\ Done(i) \in OrderRow /\ Done(i).status = "COMPLETED"
                               /\ Done(i).details = orders[i].details /\ Done(i).key = orders[i].key
  BY OrdersAre DEF OrderRow, Status
<1>2. \A i \in DOMAIN orders : orders[i] \in OrderRow
  BY OrdersAre
<1>3. \A i \in DOMAIN orders :
        /\ new(i) \in OrderRow /\ new(i).details = orders[i].details /\ new(i).key = orders[i].key
        /\ new(i) = orders[i] \/ new(i).status = "COMPLETED"
  BY <1>1, <1>2
<1>4. orders' = [i \in DOMAIN orders |-> new(i)]
  BY DEF Complete
<1>5. DOMAIN orders = 1 .. Len(orders) /\ Len(orders) \in Nat
  BY OrdersAre
<1> HIDE DEF new, Done
<1>6. orders' = [i \in 1 .. Len(orders) |-> new(i)]
  BY <1>4, <1>5
<1>7. orders' \in [1 .. Len(orders) -> OrderRow]
  BY <1>3, <1>5, <1>6
<1>8. orders' \in Seq(OrderRow) /\ Len(orders') = Len(orders)
  BY <1>5, <1>7
<1> QED BY <1>3, <1>4, <1>8 DEF SameRows

-----------------------------------------------------------------------------
(* The parts of the invariant *)

LEMMA MarketStarts == AllInit => MarketInv
<1> SUFFICES ASSUME AllInit PROVE MarketInv
  OBVIOUS
<1>1. RowsTyped
  <2>1. (CHOOSE d \in Details : TRUE) \in Details /\ (CHOOSE p \in Prices : TRUE) \in Prices /\ 0 \in 0..MaxOrders
    BY MarketIsSane
  <2>2. Unsent \in CallRow
    BY <2>1 DEF Unsent, CallRow, Stage
  <2>3. NotAccepting \in AcceptRow
    BY DEF NotAccepting, AcceptRow
  <2>4. orders = << >> /\ << >> \in Seq(OrderRow) /\ Len(orders) <= MaxOrders
    BY MarketIsSane DEF AllInit, Init
  <2> QED BY <2>1, <2>2, <2>3, <2>4 DEF AllInit, Init, RowsTyped
<1>2. DOMAIN orders = {}
  BY DEF AllInit, Init
<1>3. \A c \in Calls : call[c].stage = "new"
  BY DEF AllInit, Init, Unsent
<1>4. \A i \in 1..MaxOrders : accepting[i].stage = "no"
  BY DEF AllInit, Init, NotAccepting
<1>5. LockExclusive
  BY <1>2, <1>3 DEF LockExclusive, CallHolds, Holding
<1> QED BY <1>1, <1>2, <1>3, <1>4, <1>5
        DEF MarketInv, PricedRight, AnsweredRight, KeysUnique, AcceptingExists, RoomLeft

\* A step of one request that leaves the orders alone.
LEMMA CallFrame ==
  ASSUME MarketInv, NEW c \in Calls, call' \in [Calls -> CallRow],
         \A d \in Calls \ {c} : call'[d] = call[d],
         UNCHANGED <<offer, profile, orders, accepting>>,
         call'[c].stage \in {"priced", "locked", "counted"} => <<call'[c].details, call'[c].price>> \in Offerable,
         call'[c].stage = "answered" =>
           /\ call'[c].order \in DOMAIN orders /\ orders[call'[c].order].details = call'[c].details
           /\ call'[c].key # NoKey => orders[call'[c].order].key = call'[c].key,
         call'[c].stage \in Holding =>
           \/ call[c].stage \in Holding /\ call'[c].details = call[c].details
           \/ LockFree(ProviderOf[call'[c].details]),
         call'[c].stage = "counted" =>
           Cardinality(Pending(ProviderOf[call'[c].details])) < call'[c].limit
  PROVE  MarketInv'
<1>1. \A q : Pending(q)' = Pending(q) /\ Active(q)' = Active(q)
  BY DEF Pending, Active, Of
<1>2. RowsTyped' /\ PricedRight' /\ AnsweredRight' /\ KeysUnique' /\ AcceptingExists'
  BY DEF MarketInv, RowsTyped, PricedRight, AnsweredRight, KeysUnique, AcceptingExists
<1>3. LockExclusive'
  <2> SUFFICES ASSUME NEW q \in Providers
               PROVE  /\ \A d, e \in Calls : CallHolds(d, q)' /\ CallHolds(e, q)' => d = e
                      /\ \A i, j \in DOMAIN orders : AcceptHolds(i, q)' /\ AcceptHolds(j, q)' => i = j
                      /\ \A d \in Calls, i \in DOMAIN orders : ~(CallHolds(d, q)' /\ AcceptHolds(i, q)')
    BY DEF LockExclusive
  <2>1. \A d \in Calls \ {c} : CallHolds(d, q)' = CallHolds(d, q)
    BY DEF CallHolds
  <2>2. \A i \in DOMAIN orders : AcceptHolds(i, q)' = AcceptHolds(i, q)
    BY DEF AcceptHolds
  <2>3. CallHolds(c, q)' => CallHolds(c, q) \/ LockFree(q)
    BY DEF CallHolds
  <2>4. LockFree(q) => /\ \A d \in Calls : ~CallHolds(d, q)
                       /\ \A i \in DOMAIN orders : ~AcceptHolds(i, q)
    BY DEF LockFree, CallHolds, AcceptHolds
  <2>5. /\ \A d, e \in Calls : CallHolds(d, q) /\ CallHolds(e, q) => d = e
        /\ \A i, j \in DOMAIN orders : AcceptHolds(i, q) /\ AcceptHolds(j, q) => i = j
        /\ \A d \in Calls, i \in DOMAIN orders : ~(CallHolds(d, q) /\ AcceptHolds(i, q))
    BY DEF MarketInv, LockExclusive
  <2> QED BY <2>1, <2>2, <2>3, <2>4, <2>5
<1>4. RoomLeft'
  BY <1>1 DEF MarketInv, RoomLeft
<1> QED BY <1>2, <1>3, <1>4 DEF MarketInv

\* A step of one acceptance that leaves the orders alone.
LEMMA AcceptFrame ==
  ASSUME MarketInv, NEW i \in DOMAIN orders, NEW new \in AcceptRow,
         accepting' = [accepting EXCEPT ![i] = new],
         UNCHANGED <<offer, profile, orders, call>>,
         new.stage \in Holding => accepting[i].stage \in Holding \/ LockFree(ProviderOf[orders[i].details]),
         new.stage = "counted" => Cardinality(Active(ProviderOf[orders[i].details])) < new.limit
  PROVE  MarketInv'
<1>0. i \in 1..MaxOrders /\ DOMAIN orders \subseteq 1..MaxOrders
  BY OrdersAre, MarketIsSane DEF MarketInv, RowsTyped
<1>a. /\ accepting' \in [1..MaxOrders -> AcceptRow] /\ accepting'[i] = new
      /\ \A j \in 1..MaxOrders : j # i => accepting'[j] = accepting[j]
  BY <1>0 DEF MarketInv, RowsTyped
<1>1. \A q : Pending(q)' = Pending(q) /\ Active(q)' = Active(q)
  BY DEF Pending, Active, Of
<1>2. RowsTyped' /\ PricedRight' /\ AnsweredRight' /\ KeysUnique' /\ AcceptingExists'
  BY <1>a DEF MarketInv, RowsTyped, PricedRight, AnsweredRight, KeysUnique, AcceptingExists
<1>3. LockExclusive'
  <2> SUFFICES ASSUME NEW q \in Providers
               PROVE  /\ \A d, e \in Calls : CallHolds(d, q)' /\ CallHolds(e, q)' => d = e
                      /\ \A j, k \in DOMAIN orders : AcceptHolds(j, q)' /\ AcceptHolds(k, q)' => j = k
                      /\ \A d \in Calls, j \in DOMAIN orders : ~(CallHolds(d, q)' /\ AcceptHolds(j, q)')
    BY DEF LockExclusive
  <2>1. \A d \in Calls : CallHolds(d, q)' = CallHolds(d, q)
    BY DEF CallHolds
  <2>2. \A j \in DOMAIN orders : j # i => AcceptHolds(j, q)' = AcceptHolds(j, q)
    BY <1>0, <1>a DEF AcceptHolds
  <2>3. AcceptHolds(i, q)' => AcceptHolds(i, q) \/ LockFree(q)
    BY <1>a DEF AcceptHolds
  <2>4. LockFree(q) => /\ \A d \in Calls : ~CallHolds(d, q)
                       /\ \A j \in DOMAIN orders : ~AcceptHolds(j, q)
    BY DEF LockFree, CallHolds, AcceptHolds
  <2>5. /\ \A d, e \in Calls : CallHolds(d, q) /\ CallHolds(e, q) => d = e
        /\ \A j, k \in DOMAIN orders : AcceptHolds(j, q) /\ AcceptHolds(k, q) => j = k
        /\ \A d \in Calls, j \in DOMAIN orders : ~(CallHolds(d, q) /\ AcceptHolds(j, q))
    BY DEF MarketInv, LockExclusive
  <2> QED BY <2>1, <2>2, <2>3, <2>4, <2>5
<1>4. RoomLeft'
  BY <1>0, <1>a, <1>1 DEF MarketInv, RoomLeft
<1> QED BY <1>2, <1>3, <1>4 DEF MarketInv

\* Orders change their status and may leave a workload; the acceptance that put i
\* into one is over.
LEMMA StatusFrame ==
  ASSUME MarketInv, SameRows, orders' \in Seq(OrderRow), Len(orders') = Len(orders),
         UNCHANGED <<offer, profile, call>>,
         accepting' \in [1..MaxOrders -> AcceptRow],
         \A j \in 1..MaxOrders : accepting'[j] = accepting[j] \/ accepting'[j].stage = "no",
         \A q : Pending(q)' \subseteq Pending(q),
         \A q : \A j \in DOMAIN orders :
           accepting'[j].stage = "counted" /\ ProviderOf[orders[j].details] = q => Active(q)' \subseteq Active(q)
  PROVE  MarketInv'
<1>1. RowsTyped' /\ PricedRight' /\ AnsweredRight' /\ KeysUnique' /\ AcceptingExists'
  BY DEF MarketInv, RowsTyped, PricedRight, AnsweredRight, KeysUnique, AcceptingExists, SameRows
<1>2. DOMAIN orders \subseteq 1..MaxOrders
  BY OrdersAre, MarketIsSane DEF MarketInv, RowsTyped
<1>3. LockExclusive'
  <2> SUFFICES ASSUME NEW q \in Providers
               PROVE  /\ \A d, e \in Calls : CallHolds(d, q)' /\ CallHolds(e, q)' => d = e
                      /\ \A j, k \in DOMAIN orders' : AcceptHolds(j, q)' /\ AcceptHolds(k, q)' => j = k
                      /\ \A d \in Calls, j \in DOMAIN orders' : ~(CallHolds(d, q)' /\ AcceptHolds(j, q)')
    BY DEF LockExclusive
  <2>1. \A d \in Calls : CallHolds(d, q)' = CallHolds(d, q)
    BY DEF CallHolds
  <2>2. \A j \in DOMAIN orders : AcceptHolds(j, q)' => AcceptHolds(j, q)
    BY <1>2 DEF AcceptHolds, SameRows, Holding
  <2> QED BY <2>1, <2>2 DEF MarketInv, LockExclusive, SameRows
<1>4. \A q : Cardinality(Pending(q)') <= Cardinality(Pending(q))
  BY OfIsFinite, FS_Subset DEF MarketInv, Pending
<1>5. \A q : \A j \in DOMAIN orders :
        accepting'[j].stage = "counted" /\ ProviderOf[orders[j].details] = q =>
          Cardinality(Active(q)') <= Cardinality(Active(q))
  BY OfIsFinite, FS_Subset DEF MarketInv, Active
<1>6. \A q : /\ Cardinality(Pending(q)) \in Nat /\ Cardinality(Active(q)) \in Nat
             /\ Cardinality(Pending(q)') \in Nat /\ Cardinality(Active(q)') \in Nat
  <2>1. \A q : Cardinality(Pending(q)) \in Nat /\ Cardinality(Active(q)) \in Nat
    BY OfIsFinite DEF MarketInv, Pending, Active
  <2>2. \A q : Pending(q)' \in SUBSET DOMAIN orders' /\ Active(q)' \in SUBSET DOMAIN orders'
    BY DEF Pending, Active, Of
  <2> QED BY <2>1, <2>2, PartOfSeq
<1>7. RoomLeft'
  <2>1. ASSUME NEW c \in Calls, call'[c].stage = "counted", NEW q, ProviderOf[call[c].details] = q
        PROVE  Cardinality(Pending(q)') < call'[c].limit
    <3>1. Cardinality(Pending(q)) < call[c].limit
      BY <2>1 DEF MarketInv, RoomLeft
    <3>2. call[c].limit \in Nat
      BY LimitsAreNat DEF MarketInv
    <3> QED BY <3>1, <3>2, <1>4, <1>6
  <2>2. ASSUME NEW j \in DOMAIN orders, accepting'[j].stage = "counted", NEW q, ProviderOf[orders[j].details] = q
        PROVE  Cardinality(Active(q)') < accepting'[j].limit
    <3>1. j \in 1..MaxOrders
      BY <1>2
    <3>2. accepting'[j] = accepting[j]
      BY <2>2, <3>1
    <3>3. Cardinality(Active(q)) < accepting[j].limit
      BY <2>2, <3>2 DEF MarketInv, RoomLeft
    <3>4. accepting[j].limit \in Nat
      BY <3>1, LimitsAreNat DEF MarketInv
    <3>5. Cardinality(Active(q)') <= Cardinality(Active(q))
      BY <1>5, <2>2
    <3> QED BY <3>2, <3>3, <3>4, <3>5, <1>6
  <2> QED BY <2>1, <2>2 DEF RoomLeft, SameRows
<1> QED BY <1>1, <1>3, <1>7 DEF MarketInv

-----------------------------------------------------------------------------
(* The steps *)

LEMMA KnownAre ==
  ASSUME RowsTyped, NEW k, NEW i \in Known(k)
  PROVE  i \in DOMAIN orders /\ i \in 0..MaxOrders /\ orders[i].key = k
<1>1. i \in DOMAIN orders /\ orders[i].key = k
  BY DEF Known
<1>2. DOMAIN orders = 1 .. Len(orders) /\ Len(orders) \in Nat /\ Len(orders) <= MaxOrders
  BY OrdersAre DEF RowsTyped
<1> QED BY <1>1, <1>2, MarketIsSane

\* An identifier that is known is answered with its order, or not at all.
LEMMA RepeatKeeps ==
  ASSUME MarketInv, NEW c \in Calls, NEW i \in Known(call[c].key), Repeat(c, i),
         UNCHANGED <<shopVars, orders, accepting>>
  PROVE  MarketInv'
<1> DEFINE same == orders[i].details = call[c].details
           s    == IF same THEN "answered" ELSE "refused"
           o    == IF same THEN i ELSE 0
<1>1. RowsTyped /\ i \in DOMAIN orders /\ i \in 0..MaxOrders /\ orders[i].key = call[c].key
  BY KnownAre DEF MarketInv
<1>2. Answer(c, s, o)
  BY DEF Repeat, Answer
<1>3. /\ s \in Stage /\ o \in 0..MaxOrders
      /\ s \notin {"priced", "locked", "counted"} /\ s \notin Holding
      /\ s = "answered" => o = i /\ same
  BY <1>1, MarketIsSane DEF Stage, Holding
<1> HIDE DEF s, o
<1>4. /\ call' \in [Calls -> CallRow] /\ \A d \in Calls \ {c} : call'[d] = call[d]
      /\ call'[c].stage = s /\ call'[c].order = o /\ call'[c].key = call[c].key
      /\ call'[c].details = call[c].details
  BY <1>1, <1>2, <1>3, AnswerWritten
<1>5. UNCHANGED <<offer, profile, orders, accepting>>
  BY DEF shopVars
<1> QED BY <1>1, <1>3, <1>4, <1>5, CallFrame

\* A request that goes to a stage without a lock and without an answer.
LEMMA GotoKeeps ==
  ASSUME MarketInv, NEW c \in Calls, NEW s \in {"refused", "clashed"}, Goto(c, s),
         UNCHANGED <<shopVars, orders, accepting>>
  PROVE  MarketInv'
<1>1. /\ call' \in [Calls -> CallRow] /\ \A d \in Calls \ {c} : call'[d] = call[d]
      /\ call'[c].stage = s
  BY StageWritten DEF MarketInv, Goto, Stage
<1>2. s \notin {"priced", "locked", "counted", "answered"} /\ s \notin Holding
  BY DEF Holding
<1>3. UNCHANGED <<offer, profile, orders, accepting>>
  BY DEF shopVars
<1> QED BY <1>1, <1>2, <1>3, CallFrame

LEMMA SendKeeps ==
  ASSUME MarketInv, NEW c \in Calls, NEW d \in Details, NEW k \in Keys \cup {NoKey}, Send(c, d, k)
  PROVE  MarketInv'
<1> DEFINE new == [Unsent EXCEPT !.stage = "sent", !.key = k, !.details = d]
<1>1. new \in CallRow /\ new.stage = "sent"
  <2>1. 0 \in 0..MaxOrders
    BY MarketIsSane
  <2> QED BY <2>1 DEF Unsent, CallRow, Stage
<1>2. call' = [call EXCEPT ![c] = new]
  BY DEF Send
<1> HIDE DEF new
<1>3. call' \in [Calls -> CallRow] /\ (\A e \in Calls \ {c} : call'[e] = call[e]) /\ call'[c].stage = "sent"
  BY <1>1, <1>2 DEF MarketInv, RowsTyped
<1>4. UNCHANGED <<offer, profile, orders, accepting>>
  BY DEF Send, shopVars
<1> QED BY <1>3, <1>4, CallFrame DEF Holding

LEMMA LookKeeps ==
  ASSUME MarketInv, NEW c \in Calls, Look(c)
  PROVE  MarketInv'
<1> DEFINE d == call[c].details
<1>1. UNCHANGED <<shopVars, orders, accepting>>
  BY DEF Look
<1>2. CASE \E i \in Known(call[c].key) : Repeat(c, i)
  BY <1>1, <1>2, RepeatKeeps
<1>3. CASE Goto(c, "refused")
  BY <1>1, <1>3, GotoKeeps
<1>4. CASE /\ offer[d] > 0 /\ Orderable(d)
           /\ call' = [call EXCEPT ![c].stage = "priced", ![c].price = offer[d]]
  <2>1. d \in Details
    BY DEF MarketInv, RowsTyped, CallRow
  <2>2. offer[d] \in Prices /\ <<d, offer[d]>> \in Offerable
    BY <1>4, <2>1 DEF MarketInv, RowsTyped, Orderable, Offerable
  <2>3. /\ call' \in [Calls -> CallRow] /\ \A e \in Calls \ {c} : call'[e] = call[e]
        /\ call'[c].stage = "priced" /\ call'[c].price = offer[d] /\ call'[c].details = d
    BY <1>4, <2>2, PriceWritten DEF MarketInv, Stage
  <2>4. UNCHANGED <<offer, profile, orders, accepting>>
    BY <1>1 DEF shopVars
  <2> HIDE DEF d
  <2> QED BY <2>2, <2>3, <2>4, CallFrame DEF Holding
<1> QED BY <1>2, <1>3, <1>4 DEF Look

LEMMA LockKeeps ==
  ASSUME MarketInv, NEW c \in Calls, Lock(c)
  PROVE  MarketInv'
<1>1. /\ call' \in [Calls -> CallRow] /\ \A d \in Calls \ {c} : call'[d] = call[d]
      /\ call'[c].stage = "locked" /\ call'[c].details = call[c].details /\ call'[c].price = call[c].price
  BY StageWritten DEF MarketInv, Lock, Goto, Stage
<1>2. UNCHANGED <<offer, profile, orders, accepting>> /\ LockFree(ProviderOf[call[c].details])
  BY DEF Lock, shopVars
<1>3. <<call[c].details, call[c].price>> \in Offerable
  BY DEF MarketInv, PricedRight, Lock
<1> QED BY <1>1, <1>2, <1>3, CallFrame

LEMMA CountPendingKeeps ==
  ASSUME MarketInv, NEW c \in Calls, CountPending(c)
  PROVE  MarketInv'
<1> DEFINE q == ProviderOf[call[c].details]
<1>1. UNCHANGED <<shopVars, orders, accepting>> /\ call[c].stage = "locked"
  BY DEF CountPending
<1>2. CASE \E i \in Known(call[c].key) : Repeat(c, i)
  BY <1>1, <1>2, RepeatKeeps
<1>3. CASE Goto(c, "refused")
  BY <1>1, <1>3, GotoKeeps
<1>4. CASE /\ Cardinality(Pending(q)) < profile[q].pending
           /\ call' = [call EXCEPT ![c].stage = "counted", ![c].limit = profile[q].pending]
  <2>1. q \in Providers
    BY DEF MarketInv, RowsTyped, CallRow, Providers
  <2>2. profile[q].pending \in Limits
    BY <2>1 DEF MarketInv, RowsTyped
  <2>3. /\ call' \in [Calls -> CallRow] /\ \A e \in Calls \ {c} : call'[e] = call[e]
        /\ call'[c].stage = "counted" /\ call'[c].limit = profile[q].pending
        /\ call'[c].details = call[c].details /\ call'[c].price = call[c].price
    BY <1>4, <2>2, LimitWritten DEF MarketInv, Stage
  <2>4. UNCHANGED <<offer, profile, orders, accepting>>
    BY <1>1 DEF shopVars
  <2>5. <<call[c].details, call[c].price>> \in Offerable
    BY <1>1 DEF MarketInv, PricedRight
  <2>6. call[c].stage \in Holding
    BY <1>1 DEF Holding
  <2>7. Cardinality(Pending(ProviderOf[call'[c].details])) < call'[c].limit
    BY <1>4, <2>3
  <2> HIDE DEF q
  <2> QED BY <2>3, <2>4, <2>5, <2>6, <2>7, CallFrame
<1> QED BY <1>2, <1>3, <1>4 DEF CountPending

LEMMA FindAgainKeeps ==
  ASSUME MarketInv, NEW c \in Calls, FindAgain(c)
  PROVE  MarketInv'
BY RepeatKeeps DEF FindAgain

LEMMA CrashCallKeeps ==
  ASSUME MarketInv, NEW c \in Calls, CrashCall(c)
  PROVE  MarketInv'
BY GotoKeeps DEF CrashCall

LEMMA LockAcceptKeeps ==
  ASSUME MarketInv, NEW i \in DOMAIN orders, LockAccept(i)
  PROVE  MarketInv'
<1> DEFINE new == [accepting[i] EXCEPT !.stage = "locked"]
<1>1. i \in 1..MaxOrders
  BY OrdersAre, MarketIsSane DEF MarketInv, RowsTyped
<1>2. new \in AcceptRow /\ new.stage = "locked"
  BY <1>1 DEF MarketInv, RowsTyped, AcceptRow
<1>3. accepting' = [accepting EXCEPT ![i] = new]
  BY DEF LockAccept
<1>4. UNCHANGED <<offer, profile, orders, call>> /\ LockFree(ProviderOf[orders[i].details])
  BY DEF LockAccept, shopVars
<1> HIDE DEF new
<1> QED BY <1>2, <1>3, <1>4, AcceptFrame

LEMMA NotAcceptingIsRow == NotAccepting \in AcceptRow /\ NotAccepting.stage = "no" /\ "no" \notin Holding
BY DEF NotAccepting, AcceptRow, Holding

LEMMA CountActiveKeeps ==
  ASSUME MarketInv, NEW i \in DOMAIN orders, CountActive(i)
  PROVE  MarketInv'
<1> DEFINE q   == ProviderOf[orders[i].details]
           counted == [stage |-> "counted", limit |-> profile[q].active]
           room == orders[i].status = "REQUESTED" /\ Cardinality(Active(q)) < profile[q].active
<1>1. q \in Providers
  BY OrdersAre DEF MarketInv, OrderRow, Providers
<1>2. counted \in AcceptRow /\ counted.limit = profile[q].active
  BY <1>1 DEF MarketInv, RowsTyped, AcceptRow
<1>3. UNCHANGED <<offer, profile, orders, call>> /\ accepting[i].stage \in Holding
  BY DEF CountActive, shopVars, Holding
<1>4. accepting' = [accepting EXCEPT ![i] = IF room THEN counted ELSE NotAccepting]
  BY DEF CountActive
<1>5. CASE room
  <2>1. accepting' = [accepting EXCEPT ![i] = counted] /\ Cardinality(Active(q)) < counted.limit
    BY <1>2, <1>4, <1>5
  <2> HIDE DEF counted
  <2> QED BY <1>2, <1>3, <2>1, AcceptFrame
<1>6. CASE ~room
  <2>1. accepting' = [accepting EXCEPT ![i] = NotAccepting]
    BY <1>4, <1>6
  <2> QED BY <1>3, <2>1, NotAcceptingIsRow, AcceptFrame
<1> QED BY <1>5, <1>6

\* The accepted order joins the workload of the transaction that held the lock.
LEMMA AcceptKeeps ==
  ASSUME MarketInv, NEW i \in DOMAIN orders, Accept(i)
  PROVE  MarketInv'
<1>1. UNCHANGED <<offer, profile, call>> /\ accepting' = [accepting EXCEPT ![i] = NotAccepting]
  BY DEF Accept, shopVars
<1>2. CASE orders[i].status # "REQUESTED"
  BY <1>1, <1>2, NotAcceptingIsRow, AcceptFrame DEF Accept
<1>3. CASE orders[i].status = "REQUESTED"
  <2>1. SetStatus(i, "ACCEPTED") /\ accepting[i].stage = "counted"
    BY <1>3 DEF Accept
  <2>2. /\ orders' \in Seq(OrderRow) /\ Len(orders') = Len(orders) /\ SameRows
        /\ orders'[i].status = "ACCEPTED" /\ \A j \in DOMAIN orders \ {i} : orders'[j] = orders[j]
    BY <2>1, StatusWritten DEF MarketInv, Status
  <2>3. i \in 1..MaxOrders /\ DOMAIN orders \subseteq 1..MaxOrders
    BY OrdersAre, MarketIsSane DEF MarketInv, RowsTyped
  <2>4. /\ accepting' \in [1..MaxOrders -> AcceptRow] /\ accepting'[i].stage = "no"
        /\ \A j \in 1..MaxOrders : j # i => accepting'[j] = accepting[j]
    BY <1>1, <2>3, NotAcceptingIsRow DEF MarketInv, RowsTyped
  <2>5. \A q : Pending(q)' \subseteq Pending(q)
    BY <2>2 DEF Pending, Of, SameRows
  <2>6. \A q : q # ProviderOf[orders[i].details] => Active(q)' \subseteq Active(q)
    BY <2>2 DEF Active, Of, SameRows
  <2>7. \A j \in DOMAIN orders : accepting'[j].stage = "counted" =>
          ProviderOf[orders[j].details] # ProviderOf[orders[i].details]
    <3> SUFFICES ASSUME NEW j \in DOMAIN orders, accepting'[j].stage = "counted",
                        ProviderOf[orders[j].details] = ProviderOf[orders[i].details]
                 PROVE  FALSE
      OBVIOUS
    <3> DEFINE q == ProviderOf[orders[i].details]
    <3>1. j # i /\ accepting[j].stage = "counted"
      BY <2>3, <2>4
    <3>2. q \in Providers
      BY OrdersAre DEF MarketInv, OrderRow, Providers
    <3>3. AcceptHolds(i, q) /\ AcceptHolds(j, q)
      BY <2>1, <3>1 DEF AcceptHolds, Holding
    <3> QED BY <3>1, <3>2, <3>3 DEF MarketInv, LockExclusive
  <2>8. \A j \in 1..MaxOrders : accepting'[j] = accepting[j] \/ accepting'[j].stage = "no"
    BY <2>4
  <2> QED BY <1>1, <2>2, <2>4, <2>5, <2>6, <2>7, <2>8, StatusFrame
<1> QED BY <1>2, <1>3

LEMMA DeclineKeeps ==
  ASSUME MarketInv, NEW i \in DOMAIN orders, Reject(i) \/ Cancel(i)
  PROVE  MarketInv'
<1>1. PICK s \in {"REJECTED", "CANCELLED"} : SetStatus(i, s)
  BY DEF Reject, Cancel
<1>2. UNCHANGED <<offer, profile, call, accepting>>
  BY DEF Reject, Cancel, shopVars
<1>3. /\ orders' \in Seq(OrderRow) /\ Len(orders') = Len(orders) /\ SameRows
      /\ orders'[i].status = s /\ \A j \in DOMAIN orders \ {i} : orders'[j] = orders[j]
  BY <1>1, StatusWritten DEF MarketInv, Status
<1>4. \A q : Pending(q)' \subseteq Pending(q) /\ Active(q)' \subseteq Active(q)
  BY <1>3 DEF Pending, Active, Of, SameRows
<1> QED BY <1>2, <1>3, <1>4, StatusFrame DEF MarketInv, RowsTyped

LEMMA CompleteKeeps ==
  ASSUME MarketInv, NEW S, Complete(S)
  PROVE  MarketInv'
<1>1. UNCHANGED <<offer, profile, call, accepting>>
  BY DEF Complete, shopVars
<1>2. /\ orders' \in Seq(OrderRow) /\ Len(orders') = Len(orders) /\ SameRows
      /\ \A i \in DOMAIN orders : orders'[i] = orders[i] \/ orders'[i].status = "COMPLETED"
  BY ManyWritten DEF MarketInv
<1>3. \A q : Pending(q)' \subseteq Pending(q) /\ Active(q)' \subseteq Active(q)
  BY <1>2 DEF Pending, Active, Of, SameRows
<1> QED BY <1>1, <1>2, <1>3, StatusFrame DEF MarketInv, RowsTyped

\* Of the requests with one identifier for several providers, the first to be
\* written gets it; its order joins the requests that wait under the lock it holds.
LEMMA InsertKeeps ==
  ASSUME MarketInv, NEW c \in Calls, Insert(c)
  PROVE  MarketInv'
<1>1. CASE Known(call[c].key) # {}
  BY <1>1, GotoKeeps DEF Insert
<1>2. CASE Known(call[c].key) = {}
  <2> DEFINE row == NewOrder(c)
  <2>0. PICK new : new = Len(orders) + 1
    OBVIOUS
  <2>1. /\ Len(orders) < MaxOrders /\ orders' = Append(orders, row)
        /\ Answer(c, "answered", new) /\ call[c].stage = "counted"
        /\ UNCHANGED <<offer, profile, accepting>>
    BY <1>2, <2>0 DEF Insert, shopVars, Answer
  <2>2. RowsTyped /\ Len(orders) \in Nat /\ MaxOrders \in Nat
    BY OrdersAre, MarketIsSane DEF MarketInv
  <2>3. /\ row \in OrderRow /\ row.details = call[c].details /\ row.key = call[c].key
        /\ row.status = "REQUESTED"
    <3>1. call[c] \in CallRow /\ <<call[c].details, call[c].price>> \in Offerable
      BY <2>1 DEF MarketInv, RowsTyped, PricedRight
    <3>2. QuoteOf(call[c].details, call[c].price) \in {QuoteOf(o[1], o[2]) : o \in Offerable}
      BY <3>1
    <3> QED BY <3>1, <3>2 DEF NewOrder, OrderRow, CallRow, Status
  <2> HIDE DEF row
  <2>4. /\ orders' \in Seq(OrderRow) /\ Len(orders') = new
        /\ DOMAIN orders = 1 .. Len(orders) /\ DOMAIN orders' = 1 .. new
        /\ orders'[new] = row /\ \A i \in DOMAIN orders : orders'[i] = orders[i]
    BY <2>0, <2>1, <2>2, <2>3 DEF RowsTyped
  <2>5. /\ new \in 0..MaxOrders /\ new \in 1..MaxOrders /\ new \in DOMAIN orders' /\ new \notin DOMAIN orders
        /\ DOMAIN orders' = DOMAIN orders \cup {new} /\ DOMAIN orders \subseteq 1..MaxOrders
        /\ new <= MaxOrders
    BY <2>0, <2>1, <2>2, <2>4
  <2>6. /\ call' \in [Calls -> CallRow] /\ \A d \in Calls \ {c} : call'[d] = call[d]
        /\ call'[c].stage = "answered" /\ call'[c].order = new /\ call'[c].key = call[c].key
        /\ call'[c].details = call[c].details
    BY <2>1, <2>2, <2>5, AnswerWritten DEF Stage
  <2>7. accepting[new].stage = "no"
    BY <2>5 DEF MarketInv, AcceptingExists
  <2>8. RowsTyped'
    BY <2>1, <2>4, <2>5, <2>6 DEF MarketInv, RowsTyped
  <2>9. PricedRight'
    BY <2>6 DEF MarketInv, PricedRight
  <2>10. AnsweredRight'
    BY <2>3, <2>4, <2>5, <2>6 DEF MarketInv, AnsweredRight
  <2>11. KeysUnique'
    <3>1. \A i \in DOMAIN orders : row.key # NoKey => orders[i].key # row.key
      BY <1>2, <2>3 DEF Known
    <3> QED BY <2>4, <2>5, <3>1 DEF MarketInv, KeysUnique
  <2>12. AcceptingExists'
    BY <2>1, <2>5 DEF MarketInv, AcceptingExists
  <2>13. LockExclusive'
    <3> SUFFICES ASSUME NEW q \in Providers
                 PROVE  /\ \A d, e \in Calls : CallHolds(d, q)' /\ CallHolds(e, q)' => d = e
                        /\ \A i, j \in DOMAIN orders' : AcceptHolds(i, q)' /\ AcceptHolds(j, q)' => i = j
                        /\ \A d \in Calls, i \in DOMAIN orders' : ~(CallHolds(d, q)' /\ AcceptHolds(i, q)')
      BY DEF LockExclusive
    <3>1. \A d \in Calls : CallHolds(d, q)' => CallHolds(d, q)
      BY <2>6 DEF CallHolds, Holding
    <3>2. \A i \in DOMAIN orders : AcceptHolds(i, q)' = AcceptHolds(i, q)
      BY <2>1, <2>4 DEF AcceptHolds
    <3>3. ~AcceptHolds(new, q)'
      BY <2>1, <2>7 DEF AcceptHolds, Holding
    <3>4. /\ \A d, e \in Calls : CallHolds(d, q) /\ CallHolds(e, q) => d = e
          /\ \A i, j \in DOMAIN orders : AcceptHolds(i, q) /\ AcceptHolds(j, q) => i = j
          /\ \A d \in Calls, i \in DOMAIN orders : ~(CallHolds(d, q) /\ AcceptHolds(i, q))
      BY DEF MarketInv, LockExclusive
    <3> QED BY <2>5, <3>1, <3>2, <3>3, <3>4
  <2>14. \A q : Active(q)' = Active(q)
    BY <2>3, <2>4, <2>5 DEF Active, Of
  <2>15. \A q : q # ProviderOf[call[c].details] => Pending(q)' = Pending(q)
    BY <2>3, <2>4, <2>5 DEF Pending, Of
  <2>16. ASSUME NEW d \in Calls, call'[d].stage = "counted"
         PROVE  d # c /\ ProviderOf[call[d].details] # ProviderOf[call[c].details]
    <3>1. d # c /\ call[d].stage = "counted"
      BY <2>6, <2>16
    <3>2. ProviderOf[call[c].details] \in Providers
      BY DEF MarketInv, RowsTyped, CallRow, Providers
    <3> QED BY <2>1, <3>1, <3>2 DEF MarketInv, LockExclusive, CallHolds, Holding
  <2>17. RoomLeft'
    BY <2>1, <2>4, <2>5, <2>6, <2>7, <2>14, <2>15, <2>16 DEF MarketInv, RoomLeft
  <2> QED BY <2>8, <2>9, <2>10, <2>11, <2>12, <2>13, <2>17 DEF MarketInv
<1> QED BY <1>1, <1>2

LEMMA ShopKeeps ==
  ASSUME MarketInv, UNCHANGED <<orders, call, accepting>>,
         offer' \in [Details -> Prices \cup {0}],
         profile' \in [Providers -> [available : BOOLEAN, pending : Limits, active : Limits]]
  PROVE  MarketInv'
<1>1. RowsTyped' /\ PricedRight' /\ AnsweredRight' /\ KeysUnique' /\ AcceptingExists'
  BY DEF MarketInv, RowsTyped, PricedRight, AnsweredRight, KeysUnique, AcceptingExists
<1>2. LockExclusive'
  BY DEF MarketInv, LockExclusive, CallHolds, AcceptHolds
<1>3. RoomLeft'
  BY DEF MarketInv, RoomLeft, Pending, Active, Of
<1> QED BY <1>1, <1>2, <1>3 DEF MarketInv

LEMMA SetOfferKeeps ==
  ASSUME MarketInv, NEW d \in Details, NEW p \in Prices \cup {0}, SetOffer(d, p)
  PROVE  MarketInv'
BY ShopKeeps DEF SetOffer, Change, MarketInv, RowsTyped

LEMMA SetProfileKeeps ==
  ASSUME MarketInv, NEW q \in Providers, NEW new \in [available : BOOLEAN, pending : Limits, active : Limits],
         SetProfile(q, new)
  PROVE  MarketInv'
BY ShopKeeps DEF SetProfile, Change, MarketInv, RowsTyped

LEMMA ProfileKeeps ==
  ASSUME MarketInv, NEW q \in Providers,
         \/ \E l, m \in Limits : UpdateProfile(q, l, m)
         \/ \E b \in BOOLEAN : UpdateAvailability(q, b)
  PROVE  MarketInv'
<1>1. ASSUME NEW l \in Limits, NEW m \in Limits, UpdateProfile(q, l, m)
      PROVE  MarketInv'
  <2>1. [available |-> TRUE, pending |-> l, active |-> m] \in [available : BOOLEAN, pending : Limits, active : Limits]
    OBVIOUS
  <2> QED BY <1>1, <2>1, SetProfileKeeps DEF UpdateProfile
<1>2. ASSUME NEW b \in BOOLEAN, UpdateAvailability(q, b)
      PROVE  MarketInv'
  <2> DEFINE new == [profile[q] EXCEPT !.available = b]
  <2>1. new \in [available : BOOLEAN, pending : Limits, active : Limits]
    BY DEF MarketInv, RowsTyped
  <2>2. SetProfile(q, new)
    BY <1>2 DEF UpdateAvailability
  <2> HIDE DEF new
  <2> QED BY <2>1, <2>2, SetProfileKeeps
<1> QED BY <1>1, <1>2

LEMMA IntakeKeeps ==
  ASSUME MarketInv, IntakeNext
  PROVE  MarketInv'
<1>1. CASE \E c \in Calls : \E d \in Details, k \in Keys \cup {NoKey} : Send(c, d, k)
  BY <1>1, SendKeeps
<1>2. CASE \E c \in Calls : CallStep(c) \/ CrashCall(c)
  BY <1>2, LookKeeps, LockKeeps, CountPendingKeeps, InsertKeeps, FindAgainKeeps, CrashCallKeeps DEF CallStep
<1>3. CASE \E i \in DOMAIN orders : LockAccept(i) \/ CountActive(i) \/ Accept(i) \/ Reject(i) \/ Cancel(i)
  BY <1>3, LockAcceptKeeps, CountActiveKeeps, AcceptKeeps, DeclineKeeps
<1>4. CASE \E d \in Details, p \in Prices \cup {0} : SetOffer(d, p)
  BY <1>4, SetOfferKeeps
<1>5. CASE \E q \in Providers : \/ \E l, m \in Limits : UpdateProfile(q, l, m)
                                \/ \E b \in BOOLEAN : UpdateAvailability(q, b)
  BY <1>5, ProfileKeeps
<1> QED BY <1>1, <1>2, <1>3, <1>4, <1>5 DEF IntakeNext

\* The reconciler, the lists and the client change the orders only by completing them.
LEMMA WorkloadSteps ==
  ASSUME Next
  PROVE  IntakeNext \/ (\E S : Complete(S)) \/ UNCHANGED vars
BY DEF Next, Expire, ClientAccepts, Poll, Examine, StopProcess, ReadList

LEMMA MarketKept == MarketInv /\ [Next]_allVars => MarketInv'
<1> SUFFICES ASSUME MarketInv, [Next]_allVars PROVE MarketInv'
  OBVIOUS
<1>1. CASE IntakeNext
  BY <1>1, IntakeKeeps
<1>2. CASE \E S : Complete(S)
  BY <1>2, CompleteKeeps
<1>3. CASE UNCHANGED vars
  BY <1>3, ShopKeeps DEF vars, shopVars, MarketInv, RowsTyped
<1> QED BY <1>1, <1>2, <1>3, WorkloadSteps DEF allVars

-----------------------------------------------------------------------------
(* The limits *)

\* Only the insertion of an order answers a request that has counted.
LEMMA OthersDoNotAnswer ==
  ASSUME MarketInv, IntakeNext, NEW c \in Calls, call[c].stage = "counted", call'[c].stage = "answered"
  PROVE  Insert(c)
<1>1. ASSUME NEW d \in Calls, NEW e \in Details, NEW k \in Keys \cup {NoKey}, Send(d, e, k) PROVE FALSE
  BY <1>1 DEF Send, MarketInv, RowsTyped
<1>2. ASSUME NEW d \in Calls, CallStep(d) \/ CrashCall(d) PROVE Insert(c)
  <2>1. d # c => call'[c] = call[c]
    BY <1>2 DEF CallStep, Look, Lock, CountPending, Insert, FindAgain, CrashCall, Goto, Repeat, MarketInv, RowsTyped
  <2>2. d = c
    BY <2>1
  <2>3. ~CrashCall(c)
    BY StageWritten DEF CrashCall, Goto, MarketInv, Stage
  <2> QED BY <1>2, <2>2, <2>3 DEF CallStep, Look, Lock, CountPending, FindAgain
<1>3. ~UNCHANGED call
  OBVIOUS
<1> QED BY <1>1, <1>2, <1>3
        DEF IntakeNext, LockAccept, CountActive, Accept, Reject, Cancel, SetOffer, Change,
            UpdateProfile, UpdateAvailability, SetProfile

LEMMA InsertAnswers ==
  ASSUME MarketInv, NEW c \in Calls, Insert(c), call'[c].stage = "answered"
  PROVE  /\ Known(call[c].key) = {} /\ call[c].stage = "counted"
         /\ call'[c].details = call[c].details
<1>1. Known(call[c].key) = {}
  <2> SUFFICES ASSUME Known(call[c].key) # {} PROVE FALSE
    OBVIOUS
  <2>1. call' = [call EXCEPT ![c].stage = "clashed"]
    BY DEF Insert, Goto
  <2>2. "clashed" \in Stage
    BY DEF Stage
  <2> QED BY <2>1, <2>2, StageWritten DEF MarketInv
<1>2. Answer(c, "answered", Len(orders) + 1) /\ Len(orders) < MaxOrders /\ call[c].stage = "counted"
  BY <1>1 DEF Insert, Answer
<1>3. Len(orders) + 1 \in 0..MaxOrders /\ "answered" \in Stage
  BY <1>2, OrdersAre, MarketIsSane DEF MarketInv, Stage
<1> QED BY <1>1, <1>2, <1>3, AnswerWritten DEF MarketInv

LEMMA OneMoreWaits ==
  ASSUME MarketInv, NEW c \in Calls, Insert(c), call'[c].stage = "answered",
         NEW q, q = ProviderOf[call[c].details]
  PROVE  Cardinality(Pending(q)') <= call[c].limit
<1> DEFINE new == Len(orders) + 1
<1>1. Known(call[c].key) = {} /\ call[c].stage = "counted"
  BY InsertAnswers
<1>2. orders' = Append(orders, NewOrder(c))
  BY <1>1 DEF Insert
<1>3. /\ DOMAIN orders = 1 .. Len(orders) /\ Len(orders) \in Nat /\ orders \in Seq(OrderRow)
      /\ IsFiniteSet(Pending(q)) /\ Cardinality(Pending(q)) \in Nat /\ call[c].limit \in Nat
  BY OrdersAre, OfIsFinite, LimitsAreNat DEF MarketInv, RowsTyped, Pending
<1>4. /\ DOMAIN orders' = DOMAIN orders \cup {new} /\ new \notin DOMAIN orders
      /\ \A i \in DOMAIN orders : orders'[i] = orders[i]
  BY <1>2, <1>3
<1> HIDE DEF new
<1>5. Pending(q)' \subseteq Pending(q) \cup {new} /\ new \notin Pending(q)
  BY <1>4 DEF Pending, Of
<1>6. /\ IsFiniteSet(Pending(q) \cup {new})
      /\ Cardinality(Pending(q) \cup {new}) = Cardinality(Pending(q)) + 1
  BY <1>3, <1>5, FS_AddElement
<1>7. Cardinality(Pending(q)') <= Cardinality(Pending(q) \cup {new})
  BY <1>5, <1>6, FS_Subset
<1>8. Cardinality(Pending(q)) < call[c].limit
  BY <1>1 DEF MarketInv, RoomLeft
<1>9. Cardinality(Pending(q)') \in Nat
  <2>1. IsFiniteSet(Pending(q)')
    BY <1>5, <1>6, FS_Subset
  <2> QED BY <2>1, FS_CardinalityType
<1> QED BY <1>3, <1>6, <1>7, <1>8, <1>9

\* Only the acceptance of an order lets its work begin.
LEMMA OthersDoNotAccept ==
  ASSUME MarketInv, IntakeNext, NEW i \in DOMAIN orders, orders[i].status = "REQUESTED",
         orders'[i].status = "ACCEPTED"
  PROVE  Accept(i)
<1>1. ASSUME NEW c \in Calls, Insert(c) PROVE FALSE
  <2>1. UNCHANGED orders \/ orders' = Append(orders, NewOrder(c))
    BY <1>1 DEF Insert
  <2>2. orders \in Seq(OrderRow)
    BY DEF MarketInv, RowsTyped
  <2>3. orders'[i] = orders[i]
    BY <2>1, <2>2
  <2> QED BY <2>3
<1>2. ASSUME NEW j \in DOMAIN orders, Reject(j) \/ Cancel(j) \/ Accept(j) PROVE Accept(i)
  <2>1. \/ UNCHANGED orders
        \/ \E s \in {"REJECTED", "CANCELLED"} : SetStatus(j, s)
        \/ Accept(j) /\ SetStatus(j, "ACCEPTED")
    BY <1>2 DEF Reject, Cancel, Accept
  <2>2. ASSUME NEW s \in {"REJECTED", "CANCELLED"}, SetStatus(j, s) PROVE FALSE
    BY <2>2, StatusWritten DEF MarketInv, Status
  <2>3. ASSUME SetStatus(j, "ACCEPTED") PROVE j = i
    BY <2>3, StatusWritten DEF MarketInv, Status
  <2> QED BY <2>1, <2>2, <2>3
<1>3. ~UNCHANGED orders
  OBVIOUS
<1> QED BY <1>1, <1>2, <1>3
        DEF IntakeNext, Send, CallStep, Look, Lock, CountPending, FindAgain, CrashCall, LockAccept, CountActive,
            SetOffer, Change, UpdateProfile, UpdateAvailability, SetProfile

LEMMA OneMoreAtWork ==
  ASSUME MarketInv, NEW i \in DOMAIN orders, Accept(i), orders[i].status = "REQUESTED",
         NEW q, q = ProviderOf[orders[i].details]
  PROVE  Cardinality(Active(q)') <= accepting[i].limit
<1>1. SetStatus(i, "ACCEPTED") /\ accepting[i].stage = "counted"
  BY DEF Accept
<1>2. SameRows /\ \A j \in DOMAIN orders \ {i} : orders'[j] = orders[j]
  BY <1>1, StatusWritten DEF MarketInv, Status
<1>3. i \in 1..MaxOrders
  BY OrdersAre, MarketIsSane DEF MarketInv, RowsTyped
<1>4. IsFiniteSet(Active(q)) /\ Cardinality(Active(q)) \in Nat /\ accepting[i].limit \in Nat
  BY <1>3, OfIsFinite, LimitsAreNat DEF MarketInv, Active
<1>5. Active(q)' \subseteq Active(q) \cup {i} /\ i \notin Active(q)
  BY <1>2 DEF Active, Of, SameRows
<1>6. /\ IsFiniteSet(Active(q) \cup {i})
      /\ Cardinality(Active(q) \cup {i}) = Cardinality(Active(q)) + 1
  BY <1>4, <1>5, FS_AddElement
<1>7. Cardinality(Active(q)') <= Cardinality(Active(q) \cup {i})
  BY <1>5, <1>6, FS_Subset
<1>8. Cardinality(Active(q)) < accepting[i].limit
  BY <1>1 DEF MarketInv, RoomLeft
<1>9. Cardinality(Active(q)') \in Nat
  <2>1. IsFiniteSet(Active(q)')
    BY <1>5, <1>6, FS_Subset
  <2> QED BY <2>1, FS_CardinalityType
<1> QED BY <1>4, <1>6, <1>7, <1>8, <1>9

-----------------------------------------------------------------------------
\* The rows, keys, locks and limits of the orders that come in.
THEOREM MarketInvariance == Spec => []MarketInv
<1> QED BY MarketStarts, MarketKept, PTL DEF Spec

\* However requests, repeats, decisions, changes of terms and the reconciler
\* interleave, two answers for one identifier name the same order, and it is the
\* order that was asked for.
THEOREM RepeatsGetTheSameOrder == Spec => []RepeatsAgree
<1>1. MarketInv => RepeatsAgree
  BY DEF MarketInv, AnsweredRight, KeysUnique, RepeatsAgree
<1> QED BY <1>1, MarketInvariance, PTL

\* The limit a transaction read under the workload lock holds when it commits.
THEOREM LimitsHold == Spec => WithinLimits
<1> DEFINE Room ==
      /\ \A c \in Calls : call[c].stage = "counted" /\ call'[c].stage = "answered" =>
           Cardinality(Pending(ProviderOf[call[c].details])') <= call[c].limit
      /\ \A i \in DOMAIN orders : orders[i].status = "REQUESTED" /\ orders'[i].status = "ACCEPTED" =>
           Cardinality(Active(ProviderOf[orders[i].details])') <= accepting[i].limit
<1>1. MarketInv /\ [Next]_allVars => [Room]_allVars
  <2> SUFFICES ASSUME MarketInv, Next PROVE Room
    OBVIOUS
  <2>1. CASE IntakeNext
    <3>1. ASSUME NEW c \in Calls, call[c].stage = "counted", call'[c].stage = "answered"
          PROVE  Cardinality(Pending(ProviderOf[call[c].details])') <= call[c].limit
      <4>1. Insert(c)
        BY <2>1, <3>1, OthersDoNotAnswer
      <4>2. call'[c].details = call[c].details
        BY <3>1, <4>1, InsertAnswers
      <4> QED BY <3>1, <4>1, <4>2, OneMoreWaits
    <3>2. ASSUME NEW i \in DOMAIN orders, orders[i].status = "REQUESTED", orders'[i].status = "ACCEPTED"
          PROVE  Cardinality(Active(ProviderOf[orders[i].details])') <= accepting[i].limit
      <4>1. Accept(i)
        BY <2>1, <3>2, OthersDoNotAccept
      <4>2. orders'[i].details = orders[i].details
        BY <3>2, <4>1, StatusWritten DEF Accept, SameRows, MarketInv, Status
      <4> QED BY <3>2, <4>1, <4>2, OneMoreAtWork
    <3> QED BY <3>1, <3>2
  <2>2. CASE \E S : Complete(S)
    <3>1. UNCHANGED call
      BY <2>2 DEF Complete
    <3>2. \A i \in DOMAIN orders : orders'[i] = orders[i] \/ orders'[i].status = "COMPLETED"
      BY <2>2, ManyWritten DEF MarketInv
    <3> QED BY <3>1, <3>2
  <2>3. CASE UNCHANGED vars
    BY <2>3 DEF vars
  <2> QED BY <2>1, <2>2, <2>3, WorkloadSteps
<1> QED BY <1>1, MarketInvariance, PTL DEF Spec, WithinLimits

\* The total of every order in the database is that of the prices and rates that
\* were in force, and it is payable.
THEOREM OrdersCanBePaid == Spec => []OrdersPayable
<1>1. ASSUME NEW subtotal \in Nat
      PROVE  Fee(subtotal) \in Nat /\ Fee(subtotal) * 10000 >= subtotal * FeeRate
  <2>1. FeeRate \in Rate /\ FeeRate \in Nat /\ FeeMinimum \in Nat
    BY RatesAreRates DEF Rate
  <2>2. CeilRate(subtotal, FeeRate) \in Nat /\ CeilRate(subtotal, FeeRate) * 10000 >= subtotal * FeeRate
    <3> DEFINE Covers(rate) ==
          CeilRate(subtotal, rate) \in Nat /\ CeilRate(subtotal, rate) * 10000 >= subtotal * rate
    <3>1. \A rate \in Rate : Covers(rate)
      BY RoundedUp
    <3> HIDE DEF Covers
    <3>2. Covers(FeeRate)
      BY <2>1, <3>1
    <3> QED BY <3>2 DEF Covers
  <2> DEFINE r == CeilRate(subtotal, FeeRate)
             x == subtotal * FeeRate
  <2>3. x \in Nat /\ (FeeRate = 0 => x = 0)
    BY <2>1
  <2>4. Fee(subtotal) = IF FeeRate = 0 THEN 0 ELSE IF FeeMinimum >= r THEN FeeMinimum ELSE r
    BY DEF Fee, AtLeast
  <2> HIDE DEF r, x
  <2>5. r \in Nat /\ r * 10000 >= x
    BY <2>2 DEF r, x
  <2>6. Fee(subtotal) \in Nat /\ Fee(subtotal) * 10000 >= x
    BY <2>1, <2>3, <2>4, <2>5
  <2> QED BY <2>6 DEF x
<1>2. ASSUME NEW d \in Details, NEW p \in Prices, <<d, p>> \in Offerable
      PROVE  LET q == QuoteOf(d, p) IN
               /\ Payable(q) /\ q.subtotal \in Nat /\ q.fee = Fee(q.subtotal) /\ q.total = q.subtotal + q.fee
               /\ q.subtotal >= p
  <2>1. p \in Nat \ {0}
    BY MarketIsSane
  <2>2. CASE OptionOf[d] = "PACKAGE"
    <3>1. QuoteOf(d, p) = [subtotal |-> p, fee |-> Fee(p), total |-> p + Fee(p)]
      BY <2>2 DEF QuoteOf, PackageQuote
    <3>2. Fee(p) \in Nat
      BY <2>1, FeeIsNat
    <3> QED BY <2>1, <3>1, <3>2 DEF Payable
  <2>3. CASE OptionOf[d] # "PACKAGE"
    <3> DEFINE t == TermsAt(d, p)
               o == OptionOf[d]
    <3>1. SpeedOf[d] \in [normal : Nat \ {0}, fastest : Rush \cup {"none"}]
      BY MarketIsSane
    <3>2. t \in Terms /\ t.base = p
      BY <2>1, <3>1 DEF TermsAt, Terms
    <3>3. o \in Eligible(t)
      BY <1>2, <2>3 DEF Offerable
    <3>4. QuoteOf(d, p) = Quote(t, o)
      BY <2>3 DEF QuoteOf
    <3> HIDE DEF t, o
    <3>5. /\ Payable(Quote(t, o)) /\ p <= Quote(t, o).subtotal
      BY <3>2, <3>3, QuotesArePayable
    <3>6. Quote(t, o).subtotal \in Nat
      BY <2>1, <3>2, <3>3, SubtotalIsNat
    <3>7. Quote(t, o).fee = Fee(Quote(t, o).subtotal)
      BY DEF Quote
    <3> QED BY <2>1, <3>4, <3>5, <3>6, <3>7 DEF Payable
  <2> QED BY <2>2, <2>3
<1>3. MarketInv => OrdersPayable
  <2> SUFFICES ASSUME MarketInv, NEW i \in DOMAIN orders
               PROVE  LET q == orders[i].quote IN
                        /\ Payable(q) /\ (q.total - q.subtotal) * 10000 >= q.subtotal * FeeRate
                        /\ \E p \in Prices : q.subtotal >= p
    BY DEF OrdersPayable
  <2> DEFINE q == orders[i].quote
  <2>1. orders[i] \in OrderRow
    BY OrdersAre DEF MarketInv
  <2>2. q \in {QuoteOf(o[1], o[2]) : o \in Offerable}
    BY <2>1 DEF OrderRow
  <2>3. PICK d \in Details, p \in Prices : <<d, p>> \in Offerable /\ q = QuoteOf(d, p)
    BY <2>2 DEF Offerable
  <2>4. /\ Payable(q) /\ q.subtotal \in Nat /\ q.fee = Fee(q.subtotal) /\ q.total = q.subtotal + q.fee
        /\ q.subtotal >= p
    BY <1>2, <2>3
  <2> HIDE DEF q
  <2>5. Fee(q.subtotal) \in Nat /\ Fee(q.subtotal) * 10000 >= q.subtotal * FeeRate
    BY <1>1, <2>4
  <2>6. q.total - q.subtotal = Fee(q.subtotal)
    BY <2>4, <2>5
  <2>7. (q.total - q.subtotal) * 10000 >= q.subtotal * FeeRate
    BY <2>5, <2>6
  <2> QED BY <2>4, <2>7 DEF q
<1> QED BY <1>3, MarketInvariance, PTL

-----------------------------------------------------------------------------
(* The shelf: tabs *)

LEMMA Moves ==
  /\ DOMAIN Move = {"revise", "pause", "resume", "archive", "restore"}
  /\ \A op \in DOMAIN Move :
       /\ Move[op].from \subseteq Shown /\ Move[op].to \in ListingStatus
       /\ op = "revise" => Move[op].to \notin Shown
BY DEF Move, Shown, ListingStatus

TabRow == [op : Ops, listing : Listing \cup {"none"}, was : ListingStatus,
           files : SUBSET File, old : SUBSET File]

LEMMA OpsKnown ==
  /\ Idle \in TabRow
  /\ Ops = {"idle", "edit", "submit", "upload", "clean", "remove", "apply",
            "revise", "pause", "resume", "archive", "restore"}
BY Moves DEF Ops, Idle, TabRow, ListingStatus

\* What each way to write a tab's row keeps.
TabsInv == tab \in [Tab -> TabRow] /\ TabsKnow

LEMMA BeginKeeps ==
  ASSUME CatalogueTypeOK, TabsInv, NEW t \in Tab, NEW op \in Ops, NEW l \in Listing, NEW files \in SUBSET File,
         NEW old \in SUBSET File, Begin(t, op, l, files, old),
         op \in DOMAIN Move => status[l] \in Move[op].from
  PROVE  TabsInv'
<1> DEFINE new == [op |-> op, listing |-> l, was |-> status[l], files |-> files, old |-> old]
<1>1. status[l] \in ListingStatus
  BY DEF CatalogueTypeOK
<1>2. new \in TabRow /\ new.op = op /\ new.listing = l /\ new.was = status[l]
  BY <1>1 DEF TabRow
<1>3. tab' = [tab EXCEPT ![t] = new]
  BY DEF Begin
<1> HIDE DEF new
<1>4. tab' \in [Tab -> TabRow] /\ tab'[t] = new /\ \A u \in Tab \ {t} : tab'[u] = tab[u]
  BY <1>2, <1>3 DEF TabsInv
<1> QED BY <1>2, <1>4 DEF TabsInv, TabsKnow

LEMMA EndKeeps ==
  ASSUME TabsInv, NEW t \in Tab, End(t)
  PROVE  TabsInv'
<1>1. tab' \in [Tab -> TabRow] /\ tab'[t] = Idle /\ \A u \in Tab \ {t} : tab'[u] = tab[u]
  BY OpsKnown DEF End, TabsInv
<1>2. Idle.op = "idle" /\ "idle" \notin DOMAIN Move
  BY Moves DEF Idle
<1> QED BY <1>1, <1>2 DEF TabsInv, TabsKnow

LEMMA RenameKeeps ==
  ASSUME TabsInv, NEW t \in Tab, NEW op \in {"clean", "apply"}, tab' = [tab EXCEPT ![t].op = op],
         op = "clean" => tab[t].listing \in Listing
  PROVE  TabsInv'
<1> DEFINE new == [tab[t] EXCEPT !.op = op]
<1>1. tab[t] \in TabRow /\ op \in Ops /\ op \notin DOMAIN Move
  BY OpsKnown, Moves DEF TabsInv
<1>2. new \in TabRow /\ new.op = op /\ new.listing = tab[t].listing
  BY <1>1 DEF TabRow
<1>3. tab' = [tab EXCEPT ![t] = new]
  OBVIOUS
<1> HIDE DEF new
<1>4. tab' \in [Tab -> TabRow] /\ tab'[t] = new /\ \A u \in Tab \ {t} : tab'[u] = tab[u]
  BY <1>2, <1>3 DEF TabsInv
<1> QED BY <1>1, <1>2, <1>4 DEF TabsInv, TabsKnow

-----------------------------------------------------------------------------
(* The rest, by what it reads. *)

TypesButTabs ==
  /\ status \in [Listing -> ListingStatus]
  /\ media \in [Listing -> SUBSET File] /\ stored \subseteq File /\ lost \subseteq File
  /\ cleared \in [Listing -> BOOLEAN] /\ late \subseteq Listing /\ seen \in [Listing -> BOOLEAN]
  /\ admin \in [Admin -> [of : {"none", "listing", "student"}, id : Listing \cup Request \cup {"none"},
                          stale : BOOLEAN]]
  /\ request \in [Request -> Verdict]
  /\ verification \in Verdict /\ provider \in BOOLEAN

AdminRow == [of : {"none", "listing", "student"}, id : Listing \cup Request \cup {"none"}, stale : BOOLEAN]

ShelfInv ==
  /\ TypesButTabs /\ TabsInv /\ AdminsKnow
  /\ DraftStaysPrivate /\ FilesApart /\ RowsHaveFiles /\ VerdictStands

LEMMA ShelfInvIsInv == CatalogueInv <=> ShelfInv
BY DEF CatalogueInv, ShelfInv, CatalogueTypeOK, TabsInv, TabRow, TypesButTabs

LEMMA ShelfStarts == CatalogueInit => ShelfInv
<1> SUFFICES ASSUME CatalogueInit PROVE ShelfInv
  OBVIOUS
<1>1. TypesButTabs /\ AdminsKnow
  BY DEF CatalogueInit, TypesButTabs, AdminsKnow, ListingStatus, Verdict, Nothing
<1>2. TabsInv
  BY OpsKnown, Moves DEF CatalogueInit, TabsInv, TabsKnow, Idle
<1>3. DraftStaysPrivate /\ RowsHaveFiles /\ VerdictStands
  BY DEF CatalogueInit, DraftStaysPrivate, RowsHaveFiles, VerdictStands, Shown
<1>4. FilesApart
  BY DEF CatalogueInit, FilesApart, InHand, Idle
<1> QED BY <1>1, <1>2, <1>3, <1>4 DEF ShelfInv

\* What a step that leaves the variables of a part alone keeps.
LEMMA PrivateFrame ==
  ASSUME DraftStaysPrivate, UNCHANGED <<status, cleared, late>>
  PROVE  DraftStaysPrivate'
BY DEF DraftStaysPrivate

LEMMA StudentsFrame ==
  ASSUME VerdictStands, UNCHANGED studentVars
  PROVE  VerdictStands'
BY DEF VerdictStands, studentVars

LEMMA AdminsFrame ==
  ASSUME AdminsKnow, UNCHANGED admin
  PROVE  AdminsKnow'
BY DEF AdminsKnow

\* A tab that takes nothing new in hand.
LEMMA FilesFrame ==
  ASSUME FilesApart, RowsHaveFiles, UNCHANGED <<media, fileVars>>,
         \A t \in Tab : InHand(t)' = InHand(t) \/ InHand(t)' = {}
  PROVE  FilesApart' /\ RowsHaveFiles'
BY DEF FilesApart, RowsHaveFiles, fileVars

LEMMA HandFrame ==
  ASSUME UNCHANGED tab
  PROVE  \A t \in Tab : InHand(t)' = InHand(t)
BY DEF InHand

LEMMA HandOfEnd ==
  ASSUME TabsInv, NEW t \in Tab, End(t)
  PROVE  InHand(t)' = {} /\ \A u \in Tab \ {t} : InHand(u)' = InHand(u)
<1>1. tab'[t] = Idle /\ \A u \in Tab \ {t} : tab'[u] = tab[u]
  BY DEF End, TabsInv
<1> QED BY <1>1 DEF InHand, Idle

LEMMA HandOfBegin ==
  ASSUME TabsInv, NEW t \in Tab, NEW op, NEW l, NEW files, NEW old, op # "clean",
         Begin(t, op, l, files, old)
  PROVE  /\ InHand(t) = {} /\ InHand(t)' = IF op = "upload" THEN files ELSE {}
         /\ \A u \in Tab \ {t} : InHand(u)' = InHand(u)
<1> DEFINE new == [op |-> op, listing |-> l, was |-> status[l], files |-> files, old |-> old]
<1>1. /\ tab[t] = Idle /\ tab'[t] = new
      /\ \A u \in Tab \ {t} : tab'[u] = tab[u]
  BY DEF Begin, TabsInv
<1>2. new.op = op /\ new.files = files
  OBVIOUS
<1> HIDE DEF new
<1> QED BY <1>1, <1>2 DEF InHand, Idle

LEMMA HandOfRename ==
  ASSUME TabsInv, NEW t \in Tab, NEW op \in {"clean", "apply"}, tab' = [tab EXCEPT ![t].op = op]
  PROVE  /\ InHand(t)' = IF op = "clean" THEN tab[t].old ELSE {}
         /\ \A u \in Tab \ {t} : InHand(u)' = InHand(u)
<1> DEFINE new == [tab[t] EXCEPT !.op = op]
<1>1. tab[t] \in TabRow
  BY DEF TabsInv
<1>2. new.op = op /\ new.old = tab[t].old
  BY <1>1 DEF TabRow
<1>3. tab' = [tab EXCEPT ![t] = new]
  OBVIOUS
<1> HIDE DEF new
<1>4. tab'[t] = new /\ \A u \in Tab \ {t} : tab'[u] = tab[u]
  BY <1>2, <1>3 DEF TabsInv
<1> QED BY <1>2, <1>4 DEF InHand

-----------------------------------------------------------------------------
(* The listings *)

LEMMA CreateKeeps ==
  ASSUME ShelfInv, NEW t \in Tab, NEW l \in Listing, Create(t, l)
  PROVE  ShelfInv'
<1>1. UNCHANGED <<media, cleared, late, seen, fileVars, tab, admin, studentVars>>
  BY DEF Create
<1>2. TypesButTabs'
  BY DEF ShelfInv, TypesButTabs, Create, studentVars, ListingStatus, fileVars
<1>3. TabsInv'
  BY <1>1 DEF ShelfInv, TabsInv, TabsKnow
<1>4. DraftStaysPrivate'
  BY DEF ShelfInv, DraftStaysPrivate, Create, TypesButTabs, Shown
<1>5. FilesApart' /\ RowsHaveFiles'
  BY <1>1, HandFrame, FilesFrame DEF ShelfInv
<1> QED BY <1>1, <1>2, <1>3, <1>4, <1>5, AdminsFrame, StudentsFrame DEF ShelfInv

LEMMA ShelfLookKeeps ==
  ASSUME ShelfInv, NEW t \in Tab, NEW l \in Listing, NEW op \in {"edit", "submit"} \cup DOMAIN Move,
         LookUp(t, op, l)
  PROVE  ShelfInv'
<1>1. UNCHANGED <<listingVars, fileVars, admin, studentVars>> /\ Begin(t, op, l, {}, {})
  BY DEF LookUp
<1>2. UNCHANGED <<status, media, cleared, late, seen, fileVars>>
  BY <1>1 DEF listingVars
<1>3. TypesButTabs'
  BY <1>1, <1>2 DEF ShelfInv, TypesButTabs, studentVars, fileVars
<1>4. op \in Ops /\ op # "upload" /\ op # "clean" /\ (op \in DOMAIN Move => status[l] \in Move[op].from)
  BY OpsKnown, Moves DEF LookUp
<1>5. TabsInv'
  BY <1>1, <1>4, BeginKeeps, ShelfInvIsInv DEF ShelfInv, CatalogueInv
<1>6. FilesApart' /\ RowsHaveFiles'
  BY <1>1, <1>2, <1>4, HandOfBegin, FilesFrame DEF ShelfInv
<1> QED BY <1>1, <1>2, <1>3, <1>5, <1>6, AdminsFrame, PrivateFrame, StudentsFrame DEF ShelfInv

LEMMA EditKeeps ==
  ASSUME ShelfInv, NEW t \in Tab, Edit(t)
  PROVE  ShelfInv'
<1>1. UNCHANGED <<status, media, cleared, late, fileVars, admin, studentVars>> /\ End(t)
  BY DEF Edit
<1>2. TypesButTabs'
  BY <1>1 DEF ShelfInv, TypesButTabs, studentVars, Edit, fileVars
<1>3. FilesApart' /\ RowsHaveFiles'
  BY <1>1, HandOfEnd, FilesFrame DEF ShelfInv
<1> QED BY <1>1, <1>2, <1>3, EndKeeps, AdminsFrame, PrivateFrame, StudentsFrame DEF ShelfInv

LEMMA SubmitKeeps ==
  ASSUME ShelfInv, NEW t \in Tab, Submit(t)
  PROVE  ShelfInv'
<1>1. UNCHANGED <<media, cleared, late, seen, fileVars, admin, studentVars>> /\ End(t)
  BY DEF Submit
<1>2. TypesButTabs'
  BY <1>1 DEF ShelfInv, TypesButTabs, studentVars, Submit, ListingStatus, fileVars
<1>3. FilesApart' /\ RowsHaveFiles'
  BY <1>1, HandOfEnd, FilesFrame DEF ShelfInv
<1>4. DraftStaysPrivate'
  BY DEF ShelfInv, DraftStaysPrivate, Submit, TypesButTabs, Shown
<1> QED BY <1>1, <1>2, <1>3, <1>4, EndKeeps, AdminsFrame, StudentsFrame DEF ShelfInv

LEMMA Outdated ==
  ASSUME ShelfInv, NEW l,
         admin' = [a \in Admin |-> IF admin[a].of = "listing" /\ admin[a].id = l
                                  THEN [admin[a] EXCEPT !.stale = TRUE] ELSE admin[a]]
  PROVE  AdminsKnow' /\ admin' \in [Admin -> AdminRow]
<1>1. ASSUME NEW a \in Admin
      PROVE  admin'[a] \in AdminRow /\ admin'[a].of = admin[a].of /\ admin'[a].id = admin[a].id
  <2>1. admin[a] \in AdminRow
    BY DEF ShelfInv, TypesButTabs, AdminRow
  <2> DEFINE new == [admin[a] EXCEPT !.stale = TRUE]
  <2>2. new \in AdminRow /\ new.of = admin[a].of /\ new.id = admin[a].id
    BY <2>1 DEF AdminRow
  <2>3. admin'[a] \in {new, admin[a]}
    OBVIOUS
  <2> HIDE DEF new
  <2> QED BY <2>1, <2>2, <2>3
<1>2. admin' \in [Admin -> AdminRow]
  BY <1>1
<1> QED BY <1>1, <1>2 DEF ShelfInv, AdminsKnow

\* A move that takes place starts at a public status, so at a listing that is cleared.
LEMMA MovedKeeps ==
  ASSUME ShelfInv, NEW l \in Listing, NEW op \in DOMAIN Move, status[l] \in Move[op].from,
         Moved(l, op), UNCHANGED <<media, seen, fileVars, studentVars>>
  PROVE  TypesButTabs' /\ DraftStaysPrivate' /\ AdminsKnow'
<1>1. /\ Move[op].from \subseteq Shown /\ Move[op].to \in ListingStatus
      /\ op = "revise" => Move[op].to \notin Shown
  BY Moves
<1>2. status' = [status EXCEPT ![l] = Move[op].to]
  BY DEF Moved
<1>3. cleared[l] \/ l \in late
  BY <1>1 DEF ShelfInv, DraftStaysPrivate
<1>4. AdminsKnow' /\ admin' \in [Admin -> AdminRow]
  BY Outdated, AdminsFrame DEF Moved, ShelfInv, TypesButTabs, AdminRow
<1>5. cleared' \in [Listing -> BOOLEAN] /\ late' \subseteq Listing
  BY DEF Moved, ShelfInv, TypesButTabs
<1>6. TypesButTabs'
  BY <1>1, <1>2, <1>4, <1>5 DEF ShelfInv, TypesButTabs, AdminRow, studentVars, fileVars
<1>7. /\ status'[l] = Move[op].to
      /\ \A m \in Listing \ {l} :
           status'[m] = status[m] /\ cleared'[m] = cleared[m] /\ (m \in late => m \in late')
      /\ op # "revise" => cleared'[l] \/ l \in late'
  <2>1. status'[l] = Move[op].to /\ \A m \in Listing \ {l} : status'[m] = status[m]
    BY <1>2 DEF ShelfInv, TypesButTabs
  <2>2. \A m \in Listing \ {l} : cleared'[m] = cleared[m] /\ (m \in late => m \in late')
    BY DEF Moved, ShelfInv, TypesButTabs
  <2>3. op # "revise" => cleared'[l] \/ l \in late'
    BY <1>3 DEF Moved
  <2> QED BY <2>1, <2>2, <2>3
<1>8. DraftStaysPrivate'
  <2>1. ASSUME NEW m \in Listing \ {l}, status'[m] \in Shown PROVE cleared'[m] \/ m \in late'
    <3>1. cleared[m] \/ m \in late
      BY <1>7, <2>1 DEF ShelfInv, DraftStaysPrivate
    <3> QED BY <1>7, <3>1
  <2>2. status'[l] \in Shown => cleared'[l] \/ l \in late'
    BY <1>1, <1>7
  <2> QED BY <2>1, <2>2 DEF DraftStaysPrivate
<1> QED BY <1>4, <1>6, <1>8

LEMMA MoveListingKeeps ==
  ASSUME ShelfInv, NEW t \in Tab, MoveListing(t)
  PROVE  ShelfInv'
<1> DEFINE l == tab[t].listing
           op == tab[t].op
<1>1. UNCHANGED <<media, seen, fileVars, studentVars>> /\ End(t) /\ op \in DOMAIN Move
  BY DEF MoveListing
<1>2. l \in Listing /\ tab[t].was \in Move[op].from
  BY <1>1, Moves DEF ShelfInv, TabsInv, TabsKnow
<1>3. FilesApart' /\ RowsHaveFiles'
  BY <1>1, HandOfEnd, FilesFrame DEF ShelfInv
<1>4. TypesButTabs' /\ DraftStaysPrivate' /\ AdminsKnow'
  <2>1. CASE status[l] # tab[t].was
    <3>1. UNCHANGED <<status, cleared, late, admin>>
      BY <2>1 DEF MoveListing
    <3> QED BY <1>1, <3>1, PrivateFrame, AdminsFrame DEF ShelfInv, TypesButTabs, studentVars, fileVars
  <2>2. CASE status[l] = tab[t].was
    <3>1. Moved(l, op)
      BY <2>2 DEF MoveListing
    <3> HIDE DEF l, op
    <3> QED BY <1>1, <1>2, <2>2, <3>1, MovedKeeps
  <2> QED BY <2>1, <2>2
<1> QED BY <1>1, <1>3, <1>4, EndKeeps, StudentsFrame DEF ShelfInv

-----------------------------------------------------------------------------
(* The files *)

\* What an upload has in hand was free: no other tab and no row has it.
LEMMA UploadKeeps ==
  ASSUME ShelfInv, NEW t \in Tab, NEW l \in Listing, NEW files \in SUBSET Free, Upload(t, l, files)
  PROVE  ShelfInv'
<1>1. UNCHANGED <<listingVars, admin, studentVars>> /\ stored' = stored \cup files /\ lost' = lost \ files
  BY DEF Upload
<1>2. UNCHANGED <<status, media, cleared, late, seen>>
  BY <1>1 DEF listingVars
<1>3. files \subseteq File /\ files \cap stored = {} /\ \A m \in Listing : files \cap media[m] = {}
  BY DEF Free
<1>4. PICK old \in SUBSET (media[l] \cap Cover) : Begin(t, "upload", l, files, old)
  BY DEF Upload
<1>5. old \in SUBSET File /\ "upload" \in Ops /\ "upload" \notin DOMAIN Move
  BY OpsKnown, Moves DEF ShelfInv, TypesButTabs, File, fileVars
<1>6. TabsInv'
  BY <1>3, <1>4, <1>5, BeginKeeps, ShelfInvIsInv DEF ShelfInv, CatalogueInv
<1>7. TypesButTabs'
  BY <1>1, <1>2, <1>3 DEF ShelfInv, TypesButTabs, studentVars, fileVars
<1>8. InHand(t)' = files /\ \A u \in Tab \ {t} : InHand(u)' = InHand(u)
  BY <1>4, HandOfBegin DEF ShelfInv
<1>9. FilesApart'
  <2>1. stored' \cup lost' = stored \cup lost \cup files
    BY <1>1
  <2>2. \A u \in Tab \ {t} : InHand(u) \cap files = {}
    <3>1. \A u \in Tab : InHand(u) \subseteq tab[u].files \cup tab[u].old
      BY DEF InHand
    <3> QED BY <3>1 DEF Free
  <2>3. \A u \in Tab : InHand(u)' \subseteq stored' \cup lost' /\ \A m \in Listing : InHand(u)' \cap media[m] = {}
    BY <1>3, <1>8, <2>1 DEF ShelfInv, FilesApart
  <2>4. \A u, v \in Tab : u # v => InHand(u)' \cap InHand(v)' = {}
    BY <1>8, <2>2 DEF ShelfInv, FilesApart
  <2>5. \A m, n \in Listing : m # n => media[m] \cap media[n] = {}
    BY DEF ShelfInv, FilesApart
  <2> QED BY <1>2, <2>3, <2>4, <2>5 DEF FilesApart
<1>10. RowsHaveFiles'
  BY <1>1, <1>2 DEF ShelfInv, RowsHaveFiles
<1> QED BY <1>1, <1>2, <1>6, <1>7, <1>9, <1>10, AdminsFrame, PrivateFrame, StudentsFrame DEF ShelfInv

\* The rows of an upload take its files over, and the tab is left with the old cover.
LEMMA ShelfInsertKeeps ==
  ASSUME ShelfInv, NEW t \in Tab, InsertMedia(t)
  PROVE  ShelfInv'
<1> DEFINE l == tab[t].listing
           files == tab[t].files
           old == tab[t].old
<1>1. UNCHANGED <<status, cleared, late, lost, admin, studentVars>> /\ tab[t].op = "upload"
  BY DEF InsertMedia
<1>2. l \in Listing /\ tab[t] \in TabRow
  BY <1>1, Moves DEF ShelfInv, TabsInv, TabsKnow
<1>3. files \subseteq File /\ old \subseteq File /\ InHand(t) = files
  BY <1>1, <1>2 DEF TabRow, InHand
<1>4. files \subseteq stored \cup lost /\ \A m \in Listing : files \cap media[m] = {}
  BY <1>3 DEF ShelfInv, FilesApart
<1>5. CASE ~(old \subseteq media[l])
  <2>1. UNCHANGED <<media, seen>> /\ stored' = stored \ files /\ End(t)
    BY <1>5 DEF InsertMedia
  <2>2. TypesButTabs'
    BY <1>1, <2>1 DEF ShelfInv, TypesButTabs, studentVars, fileVars
  <2>3. InHand(t)' = {} /\ \A u \in Tab \ {t} : InHand(u)' = InHand(u)
    BY <2>1, HandOfEnd DEF ShelfInv
  <2>4. \A u \in Tab \ {t} : InHand(u) \cap files = {}
    BY <1>3 DEF ShelfInv, FilesApart
  <2> HIDE DEF files, old, l
  <2>5. FilesApart'
    BY <1>1, <2>1, <2>3, <2>4 DEF ShelfInv, FilesApart
  <2>6. RowsHaveFiles'
    BY <1>1, <1>4, <2>1 DEF ShelfInv, RowsHaveFiles
  <2> QED BY <1>1, <2>1, <2>2, <2>5, <2>6, EndKeeps, AdminsFrame, PrivateFrame, StudentsFrame DEF ShelfInv
<1>6. CASE old \subseteq media[l]
  <2>1. /\ media' = [media EXCEPT ![l] = (media[l] \ old) \cup files]
        /\ seen' = [seen EXCEPT ![l] = FALSE]
        /\ tab' = [tab EXCEPT ![t].op = "clean"] /\ UNCHANGED stored
    BY <1>6 DEF InsertMedia
  <2>2. TypesButTabs'
    BY <1>1, <1>2, <1>3, <2>1 DEF ShelfInv, TypesButTabs, studentVars, fileVars
  <2>3. TabsInv'
    BY <1>2, <2>1, RenameKeeps DEF ShelfInv
  <2>4. InHand(t)' = old /\ \A u \in Tab \ {t} : InHand(u)' = InHand(u)
    BY <2>1, HandOfRename DEF ShelfInv
  <2>5. \A u \in Tab \ {t} : InHand(u) \cap files = {} /\ InHand(u) \cap media[l] = {}
    BY <1>2, <1>3 DEF ShelfInv, FilesApart
  <2>6. \A m \in Listing \ {l} : media[m] \cap media[l] = {}
    BY <1>2 DEF ShelfInv, FilesApart
  <2>7. media[l] \subseteq stored \cup lost
    BY <1>2 DEF ShelfInv, RowsHaveFiles
  <2> HIDE DEF files, old, l
  <2>8. media'[l] = (media[l] \ old) \cup files /\ \A m \in Listing \ {l} : media'[m] = media[m]
    BY <1>2, <2>1 DEF ShelfInv, TypesButTabs, fileVars
  <2>9. RowsHaveFiles'
    BY <1>1, <1>4, <2>1, <2>7, <2>8 DEF ShelfInv, RowsHaveFiles
  <2>10. \A m, n \in Listing : m # n => media'[m] \cap media'[n] = {}
    BY <1>4, <2>6, <2>8 DEF ShelfInv, FilesApart
  <2>11. old \cap files = {} /\ old \subseteq stored \cup lost
    BY <1>2, <1>4, <1>6, <2>7
  <2>12. \A m \in Listing : old \cap media'[m] = {}
    BY <1>6, <2>6, <2>8, <2>11
  <2>13. \A u \in Tab \ {t} : InHand(u) \subseteq stored \cup lost /\ InHand(u) \cap old = {}
    BY <1>6, <2>5 DEF ShelfInv, FilesApart
  <2>14. \A u \in Tab \ {t} : \A m \in Listing : InHand(u) \cap media'[m] = {}
    BY <2>5, <2>8 DEF ShelfInv, FilesApart
  <2>15. \A u, v \in Tab \ {t} : u # v => InHand(u) \cap InHand(v) = {}
    BY DEF ShelfInv, FilesApart
  <2>16. FilesApart'
    BY <1>1, <2>1, <2>4, <2>10, <2>11, <2>12, <2>13, <2>14, <2>15 DEF FilesApart
  <2> QED BY <1>1, <2>2, <2>3, <2>9, <2>16, AdminsFrame, PrivateFrame, StudentsFrame DEF ShelfInv
<1> QED BY <1>5, <1>6

\* What a tab deletes is in its hand, or is known to be lost.
LEMMA DeletionKeeps ==
  ASSUME ShelfInv, NEW t \in Tab, tab[t].op = "clean", NEW gone \in SUBSET (tab[t].old \cup tab[t].files),
         stored' = stored \ gone, lost \subseteq lost', gone \cap tab[t].files \subseteq lost',
         lost' \subseteq lost \cup gone, End(t), UNCHANGED <<listingVars, admin, studentVars>>
  PROVE  ShelfInv'
<1> DEFINE old == tab[t].old  files == tab[t].files
<1>1. UNCHANGED <<status, media, cleared, late, seen>>
  BY DEF listingVars
<1>2. old \subseteq File /\ files \subseteq File
  <2>1. tab[t] \in TabRow
    BY DEF ShelfInv, TabsInv
  <2> QED BY <2>1 DEF TabRow
<1>3. TypesButTabs'
  BY <1>1, <1>2 DEF ShelfInv, TypesButTabs, studentVars
<1>4. InHand(t)' = {} /\ \A u \in Tab \ {t} : InHand(u)' = InHand(u)
  BY HandOfEnd DEF ShelfInv
<1>5. InHand(t) = old
  BY DEF InHand
<1>6. gone \subseteq old \cup lost'
  OBVIOUS
<1> HIDE DEF old, files
<1>7. \A m \in Listing : media[m] \cap old = {}
  BY <1>5 DEF ShelfInv, FilesApart
<1>8. \A u \in Tab \ {t} : InHand(u) \cap old = {}
  BY <1>5 DEF ShelfInv, FilesApart
<1>9. \A f \in stored \cup lost : f \in stored' \cup lost' \/ f \in old
  BY <1>6
<1>10. RowsHaveFiles'
  BY <1>1, <1>7, <1>9 DEF ShelfInv, RowsHaveFiles
<1>11. FilesApart'
  <2>1. \A u \in Tab \ {t} : InHand(u) \subseteq stored' \cup lost'
    BY <1>8, <1>9 DEF ShelfInv, FilesApart
  <2> QED BY <1>1, <1>4, <2>1 DEF ShelfInv, FilesApart
<1> QED BY <1>1, <1>3, <1>10, <1>11, EndKeeps, AdminsFrame, PrivateFrame, StudentsFrame DEF ShelfInv

LEMMA CleanKeeps ==
  ASSUME ShelfInv, NEW t \in Tab, Clean(t)
  PROVE  ShelfInv'
<1>1. /\ UNCHANGED <<listingVars, lost, admin, studentVars>> /\ tab[t].op = "clean"
      /\ stored' = stored \ tab[t].old /\ End(t)
  BY DEF Clean
<1> DEFINE old == tab[t].old
<1>3. UNCHANGED <<status, media, cleared, late, seen>>
  BY <1>1 DEF listingVars
<1>4. TypesButTabs'
  BY <1>1, <1>3 DEF ShelfInv, TypesButTabs, studentVars
<1>5. InHand(t)' = {} /\ \A u \in Tab \ {t} : InHand(u)' = InHand(u)
  BY <1>1, HandOfEnd DEF ShelfInv
<1>6. InHand(t) = old
  BY <1>1 DEF InHand
<1> HIDE DEF old
<1>7. FilesApart' /\ RowsHaveFiles'
  BY <1>1, <1>3, <1>5, <1>6 DEF ShelfInv, FilesApart, RowsHaveFiles, old
<1> QED BY <1>1, <1>3, <1>4, <1>7, EndKeeps, AdminsFrame, PrivateFrame, StudentsFrame DEF ShelfInv

LEMMA CleanFailsKeeps ==
  ASSUME ShelfInv, NEW t \in Tab, CleanFails(t)
  PROVE  ShelfInv'
<1>1. PICK gone \in SUBSET (tab[t].old \cup tab[t].files) :
        stored' = stored \ gone /\ lost' = lost \cup (gone \cap tab[t].files)
  BY DEF CleanFails
<1>2. tab[t].op = "clean" /\ End(t) /\ UNCHANGED <<listingVars, admin, studentVars>>
  BY DEF CleanFails
<1> QED BY <1>1, <1>2, DeletionKeeps

LEMMA LookRemoveKeeps ==
  ASSUME ShelfInv, NEW t \in Tab, NEW l \in Listing, NEW f \in media[l], LookRemove(t, l, f)
  PROVE  ShelfInv'
<1>1. UNCHANGED <<listingVars, fileVars, admin, studentVars>> /\ Begin(t, "remove", l, {}, {f})
  BY DEF LookRemove
<1>2. UNCHANGED <<status, media, cleared, late, seen, fileVars>>
  BY <1>1 DEF listingVars
<1>3. TypesButTabs'
  BY <1>1, <1>2 DEF ShelfInv, TypesButTabs, studentVars, fileVars
<1>4. {f} \in SUBSET File /\ "remove" \in Ops /\ "remove" \notin DOMAIN Move
  BY OpsKnown, Moves DEF ShelfInv, TypesButTabs, fileVars
<1>5. TabsInv'
  BY <1>1, <1>4, BeginKeeps, ShelfInvIsInv DEF ShelfInv, CatalogueInv
<1>6. FilesApart' /\ RowsHaveFiles'
  BY <1>1, <1>2, HandOfBegin, FilesFrame DEF ShelfInv
<1> QED BY <1>1, <1>2, <1>3, <1>5, <1>6, AdminsFrame, PrivateFrame, StudentsFrame DEF ShelfInv

LEMMA RemoveKeeps ==
  ASSUME ShelfInv, NEW t \in Tab, Remove(t)
  PROVE  ShelfInv'
<1> DEFINE l == tab[t].listing
           old == tab[t].old
<1>1. UNCHANGED <<status, cleared, late, fileVars, admin, studentVars>> /\ tab[t].op = "remove"
  BY DEF Remove
<1>2. l \in Listing /\ tab[t] \in TabRow
  BY <1>1, Moves DEF ShelfInv, TabsInv, TabsKnow
<1>3. CASE ~(old \subseteq media[l])
  <2>1. UNCHANGED <<media, seen>> /\ End(t)
    BY <1>3 DEF Remove
  <2>2. TypesButTabs'
    BY <1>1, <2>1 DEF ShelfInv, TypesButTabs, studentVars, fileVars
  <2>3. FilesApart' /\ RowsHaveFiles'
    BY <1>1, <2>1, HandOfEnd, FilesFrame DEF ShelfInv
  <2> QED BY <1>1, <2>1, <2>2, <2>3, EndKeeps, AdminsFrame, PrivateFrame, StudentsFrame DEF ShelfInv
<1>4. CASE old \subseteq media[l]
  <2>1. /\ media' = [media EXCEPT ![l] = media[l] \ old]
        /\ seen' = [seen EXCEPT ![l] = FALSE]
        /\ tab' = [tab EXCEPT ![t].op = "clean"]
    BY <1>4 DEF Remove
  <2>2. TypesButTabs'
    BY <1>1, <1>2, <2>1 DEF ShelfInv, TypesButTabs, studentVars, fileVars
  <2>3. TabsInv'
    BY <1>2, <2>1, RenameKeeps DEF ShelfInv
  <2>4. InHand(t)' = old /\ \A u \in Tab \ {t} : InHand(u)' = InHand(u)
    BY <2>1, HandOfRename DEF ShelfInv
  <2>5. \A m \in Listing \ {l} : media[m] \cap media[l] = {}
    BY <1>2 DEF ShelfInv, FilesApart
  <2>6. media[l] \subseteq stored \cup lost
    BY <1>2 DEF ShelfInv, RowsHaveFiles
  <2> HIDE DEF old, l
  <2>7. media'[l] = media[l] \ old /\ \A m \in Listing \ {l} : media'[m] = media[m]
    BY <1>2, <2>1 DEF ShelfInv, TypesButTabs, fileVars
  <2>8. RowsHaveFiles'
    BY <1>1, <2>6, <2>7 DEF ShelfInv, RowsHaveFiles, fileVars
  <2>9. \A m, n \in Listing : m # n => media'[m] \cap media'[n] = {}
    BY <2>5, <2>7 DEF ShelfInv, FilesApart
  <2>10. old \subseteq stored \cup lost /\ \A m \in Listing : old \cap media'[m] = {}
    BY <1>4, <2>5, <2>6, <2>7
  <2>11. \A u \in Tab \ {t} : /\ InHand(u) \subseteq stored \cup lost /\ InHand(u) \cap old = {}
                              /\ \A m \in Listing : InHand(u) \cap media'[m] = {}
    BY <1>2, <1>4, <2>7 DEF ShelfInv, FilesApart
  <2>12. \A u, v \in Tab \ {t} : u # v => InHand(u) \cap InHand(v) = {}
    BY DEF ShelfInv, FilesApart
  <2>13. FilesApart'
    BY <1>1, <2>4, <2>9, <2>10, <2>11, <2>12 DEF FilesApart, fileVars
  <2> QED BY <1>1, <2>2, <2>3, <2>8, <2>13, AdminsFrame, PrivateFrame, StudentsFrame DEF ShelfInv
<1> QED BY <1>3, <1>4

LEMMA AbandonKeeps ==
  ASSUME ShelfInv, NEW t \in Tab, Abandon(t)
  PROVE  ShelfInv'
<1>1. UNCHANGED <<listingVars, fileVars, admin, studentVars>> /\ End(t)
  BY DEF Abandon
<1>2. UNCHANGED <<status, media, cleared, late, seen, fileVars>>
  BY <1>1 DEF listingVars
<1>3. TypesButTabs'
  BY <1>1, <1>2 DEF ShelfInv, TypesButTabs, studentVars, fileVars
<1>4. FilesApart' /\ RowsHaveFiles'
  BY <1>1, <1>2, HandOfEnd, FilesFrame DEF ShelfInv
<1> QED BY <1>1, <1>2, <1>3, <1>4, EndKeeps, AdminsFrame, PrivateFrame, StudentsFrame DEF ShelfInv

-----------------------------------------------------------------------------
(* The verification *)

LEMMA LookApplyKeeps ==
  ASSUME ShelfInv, NEW t \in Tab, LookApply(t)
  PROVE  ShelfInv'
<1>1. /\ UNCHANGED <<listingVars, fileVars, admin, studentVars>>
      /\ tab' = [tab EXCEPT ![t].op = "apply"]
  BY DEF LookApply
<1>2. UNCHANGED <<status, media, cleared, late, seen, fileVars>>
  BY <1>1 DEF listingVars
<1>3. TypesButTabs'
  BY <1>1, <1>2 DEF ShelfInv, TypesButTabs, studentVars, fileVars
<1>4. TabsInv'
  BY <1>1, RenameKeeps DEF ShelfInv
<1>5. FilesApart' /\ RowsHaveFiles'
  BY <1>1, <1>2, HandOfRename, FilesFrame DEF ShelfInv
<1> QED BY <1>1, <1>2, <1>3, <1>4, <1>5, AdminsFrame, PrivateFrame, StudentsFrame DEF ShelfInv

LEMMA ApplyKeeps ==
  ASSUME ShelfInv, NEW t \in Tab, NEW r \in Request, Apply(t, r)
  PROVE  ShelfInv'
<1>1. UNCHANGED <<listingVars, fileVars, admin, provider>> /\ End(t)
  BY DEF Apply
<1>2. UNCHANGED <<status, media, cleared, late, seen, fileVars>>
  BY <1>1 DEF listingVars
<1>3. TypesButTabs'
  BY <1>1, <1>2 DEF ShelfInv, TypesButTabs, Apply, Verdict, fileVars
<1>4. FilesApart' /\ RowsHaveFiles'
  BY <1>1, <1>2, HandOfEnd, FilesFrame DEF ShelfInv
<1>5. VerdictStands'
  BY DEF ShelfInv, TypesButTabs, VerdictStands, Apply, fileVars
<1> QED BY <1>1, <1>2, <1>3, <1>4, <1>5, EndKeeps, AdminsFrame, PrivateFrame DEF ShelfInv

LEMMA DecidesAbout ==
  ASSUME ShelfInv, NEW a \in Admin, NEW new \in AdminRow, admin' = [admin EXCEPT ![a] = new],
         new.of = "listing" => new.id \in Listing,
         new.of = "student" => new.id \in Request
  PROVE  AdminsKnow' /\ admin' \in [Admin -> AdminRow]
<1>1. admin' \in [Admin -> AdminRow] /\ admin'[a] = new /\ \A b \in Admin \ {a} : admin'[b] = admin[b]
  BY DEF ShelfInv, TypesButTabs, AdminRow, fileVars
<1> QED BY <1>1 DEF ShelfInv, AdminsKnow

LEMMA NothingIsRow == Nothing \in AdminRow /\ Nothing.of = "none"
BY DEF Nothing, AdminRow

LEMMA LookListingKeeps ==
  ASSUME ShelfInv, NEW a \in Admin, NEW l \in Listing, LookListing(a, l)
  PROVE  ShelfInv'
<1>1. UNCHANGED <<status, media, cleared, late, fileVars, tab, studentVars>>
  BY DEF LookListing
<1>2. AdminsKnow' /\ admin' \in [Admin -> AdminRow]
  <2> DEFINE new == [of |-> "listing", id |-> l, stale |-> FALSE]
  <2>1. new \in AdminRow /\ new.of = "listing" /\ new.id = l /\ admin' = [admin EXCEPT ![a] = new]
    BY DEF AdminRow, LookListing
  <2> HIDE DEF new
  <2> QED BY <2>1, DecidesAbout
<1>3. TypesButTabs'
  BY <1>1, <1>2 DEF ShelfInv, TypesButTabs, AdminRow, studentVars, LookListing, fileVars
<1>4. TabsInv'
  BY <1>1 DEF ShelfInv, TabsInv, TabsKnow
<1>5. FilesApart' /\ RowsHaveFiles'
  BY <1>1, HandFrame, FilesFrame DEF ShelfInv
<1> QED BY <1>1, <1>2, <1>3, <1>4, <1>5, PrivateFrame, StudentsFrame DEF ShelfInv

LEMMA LookStudentKeeps ==
  ASSUME ShelfInv, NEW a \in Admin, NEW r \in Request, LookStudent(a, r)
  PROVE  ShelfInv'
<1>1. UNCHANGED <<listingVars, fileVars, tab, studentVars>>
  BY DEF LookStudent
<1>2. UNCHANGED <<status, media, cleared, late, seen, fileVars, tab, studentVars>>
  BY <1>1 DEF listingVars
<1>3. AdminsKnow' /\ admin' \in [Admin -> AdminRow]
  <2> DEFINE new == [of |-> "student", id |-> r, stale |-> FALSE]
  <2>1. new \in AdminRow /\ new.of = "student" /\ new.id = r /\ admin' = [admin EXCEPT ![a] = new]
    BY DEF AdminRow, LookStudent
  <2> HIDE DEF new
  <2> QED BY <2>1, DecidesAbout
<1>4. TypesButTabs'
  BY <1>2, <1>3 DEF ShelfInv, TypesButTabs, AdminRow, studentVars, fileVars
<1>5. TabsInv'
  BY <1>2 DEF ShelfInv, TabsInv, TabsKnow
<1>6. FilesApart' /\ RowsHaveFiles'
  BY <1>2, HandFrame, FilesFrame DEF ShelfInv
<1> QED BY <1>2, <1>3, <1>4, <1>5, <1>6, PrivateFrame, StudentsFrame DEF ShelfInv

LEMMA ReviewServiceKeeps ==
  ASSUME ShelfInv, NEW a \in Admin, NEW approved \in BOOLEAN, ReviewService(a, approved)
  PROVE  ShelfInv'
<1> DEFINE l == admin[a].id
<1>1. UNCHANGED <<media, seen, fileVars, tab, studentVars>>
  BY DEF ReviewService
<1>2. l \in Listing
  BY DEF ReviewService, ShelfInv, AdminsKnow
<1>3. AdminsKnow' /\ admin' \in [Admin -> AdminRow]
  BY NothingIsRow, DecidesAbout DEF ReviewService
<1>4. TabsInv'
  BY <1>1 DEF ShelfInv, TabsInv, TabsKnow
<1>5. FilesApart' /\ RowsHaveFiles'
  BY <1>1, HandFrame, FilesFrame DEF ShelfInv
<1>6. /\ status' = [status EXCEPT ![l] = IF approved THEN "PUBLISHED" ELSE "REJECTED"]
      /\ \/ approved /\ late' = late \cup {l} /\ UNCHANGED cleared
         \/ approved /\ cleared' = [cleared EXCEPT ![l] = TRUE] /\ UNCHANGED late
         \/ ~approved /\ UNCHANGED <<cleared, late>>
  <2>1. cleared[l] \in BOOLEAN /\ cleared = [m \in Listing |-> cleared[m]]
    BY <1>2 DEF ShelfInv, TypesButTabs
  <2>2. CASE approved /\ admin[a].stale
    BY <2>2 DEF ReviewService
  <2>3. CASE ~(approved /\ admin[a].stale)
    <3>1. /\ status' = [status EXCEPT ![l] = IF approved THEN "PUBLISHED" ELSE "REJECTED"]
          /\ cleared' = [cleared EXCEPT ![l] = cleared[l] \/ approved] /\ UNCHANGED late
      BY <2>3 DEF ReviewService
    <3>2. CASE approved
      BY <3>1, <3>2
    <3>3. CASE ~approved
      <4>1. (cleared[l] \/ approved) = cleared[l]
        BY <2>1, <3>3
      <4>2. cleared' = cleared
        BY <2>1, <3>1, <4>1
      <4> QED BY <3>1, <3>3, <4>2
    <3> QED BY <3>2, <3>3
  <2> QED BY <2>2, <2>3
<1>7. cleared' \in [Listing -> BOOLEAN] /\ late' \subseteq Listing
  BY <1>2, <1>6 DEF ShelfInv, TypesButTabs
<1>8. TypesButTabs'
  BY <1>1, <1>3, <1>6, <1>7 DEF ShelfInv, TypesButTabs, AdminRow, studentVars, ListingStatus, fileVars
<1> HIDE DEF l
<1>9. DraftStaysPrivate'
  BY <1>2, <1>6 DEF ShelfInv, TypesButTabs, DraftStaysPrivate, Shown
<1> QED BY <1>1, <1>3, <1>4, <1>5, <1>8, <1>9, StudentsFrame DEF ShelfInv

LEMMA ReviewStudentKeeps ==
  ASSUME ShelfInv, NEW a \in Admin, NEW approved \in BOOLEAN, ReviewStudent(a, approved)
  PROVE  ShelfInv'
<1> DEFINE r == admin[a].id
           verdict == IF approved THEN "APPROVED" ELSE "REJECTED"
<1>1. UNCHANGED <<listingVars, fileVars, tab>>
  BY DEF ReviewStudent
<1>2. UNCHANGED <<status, media, cleared, late, seen, fileVars, tab>>
  BY <1>1 DEF listingVars
<1>3. r \in Request
  BY DEF ReviewStudent, ShelfInv, AdminsKnow
<1>4. AdminsKnow' /\ admin' \in [Admin -> AdminRow]
  BY NothingIsRow, DecidesAbout DEF ReviewStudent
<1>5. TabsInv'
  BY <1>2 DEF ShelfInv, TabsInv, TabsKnow
<1>6. FilesApart' /\ RowsHaveFiles'
  BY <1>2, HandFrame, FilesFrame DEF ShelfInv
<1>7. /\ request' = [request EXCEPT ![r] = verdict] /\ verification' = verdict
      /\ provider' = (provider \/ approved)
  BY DEF ReviewStudent
<1>8. verdict \in Verdict /\ (verdict = "APPROVED" => approved)
  BY DEF Verdict
<1> HIDE DEF r, verdict
<1>9. provider' \in BOOLEAN
  BY <1>7
<1>10. TypesButTabs'
  BY <1>2, <1>4, <1>7, <1>8, <1>9 DEF ShelfInv, TypesButTabs, AdminRow, fileVars
<1>11. VerdictStands'
  <2>1. request'[r] = verification'
    BY <1>3, <1>7 DEF ShelfInv, TypesButTabs, fileVars
  <2>2. verification' = "APPROVED" => provider'
    BY <1>7, <1>8
  <2> QED BY <1>3, <2>1, <2>2 DEF VerdictStands
<1> QED BY <1>2, <1>4, <1>5, <1>6, <1>10, <1>11, PrivateFrame DEF ShelfInv

-----------------------------------------------------------------------------
LEMMA TabStepKeeps ==
  ASSUME ShelfInv, NEW t \in Tab, TabStep(t)
  PROVE  ShelfInv'
<1>1. CASE \E l \in Listing : Create(t, l)
  BY <1>1, CreateKeeps
<1>2. CASE \E l \in Listing : \E op \in {"edit", "submit"} \cup DOMAIN Move : LookUp(t, op, l)
  BY <1>2, ShelfLookKeeps
<1>3. CASE \E l \in Listing : \E files \in SUBSET Free : Upload(t, l, files)
  BY <1>3, UploadKeeps
<1>4. CASE \E l \in Listing : \E f \in media[l] : LookRemove(t, l, f)
  BY <1>4, LookRemoveKeeps
<1>5. CASE \E r \in Request : Apply(t, r)
  BY <1>5, ApplyKeeps
<1> QED BY <1>1, <1>2, <1>3, <1>4, <1>5, EditKeeps, SubmitKeeps, MoveListingKeeps, ShelfInsertKeeps, CleanKeeps,
           CleanFailsKeeps, RemoveKeeps, LookApplyKeeps, AbandonKeeps DEF TabStep

LEMMA ShelfStepKeeps == ShelfInv /\ [CatalogueNext]_catalogueVars => ShelfInv'
<1> SUFFICES ASSUME ShelfInv, [CatalogueNext]_catalogueVars PROVE ShelfInv'
  OBVIOUS
<1>1. CASE \E t \in Tab : TabStep(t)
  BY <1>1, TabStepKeeps
<1>2. CASE \E a \in Admin : AdminStep(a)
  BY <1>2, LookListingKeeps, LookStudentKeeps, ReviewServiceKeeps, ReviewStudentKeeps DEF AdminStep
<1>3. CASE UNCHANGED catalogueVars
  <2>1. UNCHANGED <<status, media, cleared, late, seen, fileVars, tab, admin, studentVars>>
    BY <1>3 DEF catalogueVars, listingVars
  <2>2. TypesButTabs' /\ TabsInv'
    BY <2>1 DEF ShelfInv, TypesButTabs, TabsInv, TabsKnow, studentVars, fileVars
  <2>3. FilesApart' /\ RowsHaveFiles'
    BY <2>1, HandFrame, FilesFrame DEF ShelfInv
  <2> QED BY <2>1, <2>2, <2>3, AdminsFrame, PrivateFrame, StudentsFrame DEF ShelfInv
<1> QED BY <1>1, <1>2, <1>3 DEF CatalogueNext

LEMMA ShelfAlways == CatalogueSpec => []ShelfInv
<1> QED BY ShelfStarts, ShelfStepKeeps, PTL DEF CatalogueSpec

\* What the tabs and administrators know, the files in their hands, and the three
\* properties they serve.
THEOREM CatalogueInvariance == CatalogueSpec => []CatalogueInv
<1> QED BY ShelfAlways, ShelfInvIsInv, PTL

\* A listing that was taken back for revision (reviseService) is public again only
\* after it was submitted and approved again, whatever the provider's other tabs had
\* begun, or if an administrator approves what was waiting before it was taken back.
THEOREM RevisionIsPrivate == CatalogueSpec => []DraftStaysPrivate
<1>1. CatalogueInv => DraftStaysPrivate
  BY DEF CatalogueInv
<1> QED BY <1>1, CatalogueInvariance, PTL

\* The files a listing names are in storage, wherever uploads and removals in
\* several tabs overlap or stop (uploadServiceMedia, removeServiceMedia), but for
\* those an upload deleted that failed after its rows were stored.
THEOREM NoRowWithoutFile == CatalogueSpec => []RowsHaveFiles
<1>1. CatalogueInv => RowsHaveFiles
  BY DEF CatalogueInv
<1> QED BY <1>1, CatalogueInvariance, PTL

\* The student's verification status is that of one of the requests, and whoever is
\* approved is a provider (VerificationService.submit, review).
THEOREM NobodyWaitsInVain == CatalogueSpec => []VerdictStands
<1>1. CatalogueInv => VerdictStands
  BY DEF CatalogueInv
<1> QED BY <1>1, CatalogueInvariance, PTL
=============================================================================
