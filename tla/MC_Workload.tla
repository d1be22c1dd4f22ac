---------------------------- MODULE MC_Workload ----------------------------
\* One service of each of two providers, one ordered with rush delivery, the other
\* as a package.
EXTENDS Workload
TwoProviders == [d \in Details |-> d]
OneRush      == [d \in Details |-> IF d = CHOOSE e \in Details : TRUE THEN "RUSH_12_HOURS" ELSE "PACKAGE"]
Speeds       == [d \in Details |-> [normal |-> 2880, fastest |-> "RUSH_6_HOURS"]]
RushRates    == [o \in Rush |-> IF o = "RUSH_12_HOURS" THEN 3000 ELSE 5000]
=============================================================================
