------------------------------- MODULE Pricing -------------------------------
(***************************************************************************)
(* The arithmetic of the marketplace: the quote of a service with rush     *)
(* delivery, the fee of a package, and the price and the time of an extra  *)
(* revision.  Amounts are centavos, times are minutes, rates are           *)
(* ten-thousandths.                                                        *)
(***************************************************************************)
EXTENDS Integers

CONSTANTS
  FeeRate, FeeMinimum,  \* PLATFORM_FEE_BASIS_POINTS, PLATFORM_FEE_MIN_CENTAVOS
  RushRate              \* the rate of each rush option

Rush     == {"RUSH_24_HOURS", "RUSH_12_HOURS", "RUSH_6_HOURS", "RUSH_3_HOURS"}
Delivery == Rush \cup {"NORMAL"}
Rate     == 0..10000

ASSUME RatesAreRates ==
  /\ FeeRate \in Rate /\ FeeMinimum \in Nat
  /\ RushRate \in [Rush -> Rate]

\* deliveryMinutes and fastestMinutes, whose tiers are named like the options
Minutes(o) ==
  IF o = "RUSH_24_HOURS" THEN 1440 ELSE IF o = "RUSH_12_HOURS" THEN 720
  ELSE IF o = "RUSH_6_HOURS" THEN 360 ELSE 180

AtLeast(a, b) == IF a >= b THEN a ELSE b

\* Exact for the prices a listing may have: their products stay below 2^53.
CeilRate(amount, rate) == (amount * rate + 9999) \div 10000

\* The terms of a service: fastest is "none" when it takes no rush orders.
Terms == [base : Nat \ {0}, normal : Nat \ {0}, fastest : Rush \cup {"none"}]

\* What a provider may save: validateProviderRushSettings.
Sellable(terms) == terms.fastest # "none" => Minutes(terms.fastest) < terms.normal

Eligible(terms) ==
  {"NORMAL"} \cup
  {o \in Rush : /\ terms.fastest # "none"
                /\ Minutes(o) < terms.normal /\ Minutes(o) >= Minutes(terms.fastest)}

Fee(subtotal) == IF FeeRate = 0 THEN 0 ELSE AtLeast(FeeMinimum, CeilRate(subtotal, FeeRate))

Surcharge(base, o) == IF o = "NORMAL" THEN 0 ELSE CeilRate(base, RushRate[o])

Quote(terms, o) ==
  LET subtotal == terms.base + Surcharge(terms.base, o) IN
  [subtotal |-> subtotal,
   fee      |-> Fee(subtotal),
   total    |-> subtotal + Fee(subtotal),
   minutes  |-> IF o = "NORMAL" THEN terms.normal ELSE Minutes(o)]

\* A package: no surcharge, and its days count from the order.
PackageQuote(price) == [subtotal |-> price, fee |-> Fee(price), total |-> price + Fee(price)]

\* paidExtraRevisionQuote, on the subtotal of its order
ExtraRevision(subtotal) ==
  LET part == AtLeast(2000, CeilRate(subtotal, 1000)) IN
  [subtotal |-> part, fee |-> CeilRate(part, 500), total |-> part + CeilRate(part, 500)]

\* revisionTurnaroundMinutes
Turnaround(minutes) ==
  LET half == (minutes + 1) \div 2 IN
  IF AtLeast(180, half) > 4320 THEN 4320 ELSE AtLeast(180, half)

\* What createPending stores and providerEarningPrincipal expects.
Payable(q) == q.total > 0 /\ q.total = q.subtotal + q.fee
=============================================================================
