------------------------------- MODULE Custody -------------------------------
(***************************************************************************)
(* What the marketplace promises about recognized earnings, with no word   *)
(* of holds, disputes, destinations or approvals: the money of an earning  *)
(* is in the marketplace's hands until it goes, for good, to the provider  *)
(* or back to the client, and what is set aside for the provider cannot    *)
(* go to the client without being taken back first.                        *)
(***************************************************************************)
CONSTANT Earning
VARIABLE money

CustodyTypeOK == money \in [Earning -> {"ours", "reserved", "provider", "client"}]
CustodyInit   == money = [e \in Earning |-> "ours"]

Shift(S, from, to) ==
  /\ S # {} /\ \A e \in S : money[e] = from
  /\ money' = [e \in Earning |-> IF e \in S THEN to ELSE money[e]]

\* A payout moves all of its earnings together; a refund returns one.
CustodyNext ==
  \/ \E S \in SUBSET Earning :
       \/ Shift(S, "ours", "reserved")
       \/ Shift(S, "reserved", "ours")
       \/ Shift(S, "reserved", "provider")
  \/ \E e \in Earning : Shift({e}, "ours", "client")

CustodySpec == CustodyInit /\ [][CustodyNext]_money
=============================================================================
