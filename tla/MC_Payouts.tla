----------------------------- MODULE MC_Payouts -----------------------------
\* Two earnings of two orders.  Nothing tells the earnings, or the payouts, apart.
EXTENDS Payouts, TLC
TwoOrders == [e \in Earning |-> e]
Symmetry  == Permutations(Earning) \cup Permutations(Payout)
=============================================================================
