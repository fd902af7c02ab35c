------------------------- MODULE MCCompanyConnection -------------------------
(***************************************************************************)
(* An instance of CompanyConnection: two companies that share the only     *)
(* organisation number, one spare name for a rename, and a sandbox that    *)
(* does not allow the second company by its first name.                    *)
(***************************************************************************)
EXTENDS CompanyConnection, TLC

CONSTANTS p1, p2, c1, c2, o1, n1, n2, n3, sandbox, production

TwoTabs == {p1, p2}
TwoModes == {sandbox, production}
TwoCompanies == {c1, c2}
OneOrg == {o1}
SharedOrg == c1 :> o1 @@ c2 :> o1
ThreeNames == {n1, n2, n3}
Named == c1 :> n1 @@ c2 :> n2
RenamedInSandbox == sandbox :> {n1, n3} @@ production :> ThreeNames

\* Two states are one when they differ only in what a finished request read.
Live ==
  <<fortnox, database, cookie, consent, issued, used, pc, history,
    [p \in TwoTabs |-> IF pc[p] = "idle" THEN <<>> ELSE <<snap[p], auth[p]>>],
    [p \in TwoTabs |-> IF pc[p] \in {"lookup", "upsert", "save"} THEN <<name[p]>> ELSE <<>>]>>

TabSymmetry == Permutations(TwoTabs)
=============================================================================
