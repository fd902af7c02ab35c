--------------------------- MODULE MCUnbookedWatch ---------------------------
(***************************************************************************)
(* An instance of UnbookedWatch: an invoice of each kind, and two runs.    *)
(***************************************************************************)
EXTENDS UnbookedWatch

CONSTANTS n1, n2, i1, j1

OneRun == {n1}
TwoRuns == {n1, n2}
OnePayable == {i1}
OneReceivable == {j1}
=============================================================================
