------------------------- MODULE MCBillingReports --------------------------
EXTENDS BillingReports, TLC
Symmetry == Permutations(Workers) \cup Permutations(Clients) \cup Permutations(Files)
=============================================================================
