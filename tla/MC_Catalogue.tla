---------------------------- MODULE MC_Catalogue ----------------------------
\* One listing, two tabs, two administrators.  Nothing tells the tabs, administrators,
\* files or requests apart.  While there is a listing no request is left to decide.
EXTENDS Catalogue, TLC

Symmetry == Permutations(Tab) \cup Permutations(Admin) \cup Permutations(Cover)
            \cup Permutations(Portfolio) \cup Permutations(Request)

StudentFirst ==
  (\E l \in Listing : status[l] # "NONE") =>
     /\ \A r \in Request : request[r] # "PENDING"
     /\ \A a \in Admin : admin[a].of # "student"
     /\ \A t \in Tab : tab[t].op # "apply"
=============================================================================
