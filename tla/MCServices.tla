----------------------------- MODULE MCServices -----------------------------
(***************************************************************************)
(* An instance of Services: eleven small units in one exploration, each    *)
(* with bounds of its own.                                                 *)
(***************************************************************************)
EXTENDS Services, TLC

CONSTANTS s1, c1, j1, d1, a1, k1, k2, b1, b2, h1, h2, l1, l2, v1, v2, t1, ghost,
          p1, p2, i1, i2, ap1, ar1

\* SandboxBooks: a fixture of each kind.
OneSupplier == {s1}
OneCustomer == {c1}
OneProject == {j1}
OneCostCentre == {d1}
OneAsset == {a1}
\* BorrowedToken, OwnerLogin: two jobs; two browsers, callbacks and people.
TwoJobs == {k1, k2}
TwoBrowsers == {b1, b2}
TwoCallbacks == {h1, h2}
ThreeSpellings == {"eva", "Eva", "nils"}
Lower(s) == IF s = "Eva" THEN "eva" ELSE s
\* SupplierCache, ReceiptsClient, ChatLoop.
OneKey == {"acme"}
TwoLookups == {l1, l2}
TwoPosts == {v1, v2}
OneTool == {t1}
\* ReviewPost: one rule that blocks and one that does not.
TwoRules == {"high", "low"}
Sev(r) == IF r = "high" THEN 3 ELSE 1

\* InvoiceTools: two invoices of one supplier in two currencies, one without a
\* due date; the days that pass take invoices over the bounds of the buckets.
ThreeSupplierInvoices == 1..3
TwoCustomerInvoices == 4..5
Party(i) == IF i \in {1, 2} THEN "acme" ELSE IF i = 3 THEN "nord" ELSE "kund"
Money(i) == IF i \in {1, 3, 4} THEN "EUR" ELSE "SEK"
Worth(i) == IF i \in {1, 4} THEN 2 ELSE 1
Due(i) == <<101, 71, 0, 10, 40>>[i]
Dated(i) == <<1, 1, 2, 10, 12>>[i]

\* PaymentFile: two invoices of one supplier in one currency, a credit note of
\* his in SEK, which the file has no place for, and one of another supplier.
FourBills == 1..4
TwoPayees == {p1, p2}
Payee(b) == IF b < 4 THEN p1 ELSE p2
Ccy(b) == <<"EUR", "EUR", "SEK", "USD">>[b]
BillTotal(b) == <<2, 1, 0, 0>>[b]
TwoAccounts == {i1, i2}

\* LedgerFigures: a sale that is corrected, a cost, the closing voucher of the
\* first year; a cost of the second, whose tax is split off by its correction, on
\* an account the chart leaves out.
FourEntries == 1..4
DayOf(v) == <<1, 4, 4, 6>>[v]
CorrectionsOf(v) == <<1, 0, 0, 1>>[v]
Row(n, a, d, c, centre) ==
  [id |-> n, account |-> a, debit |-> d, credit |-> c, centre |-> centre,
   project |-> IF n > 9 THEN "p" ELSE "-"]
RowsOf(v, n) ==
  CASE v = 1 /\ n = 0 -> {Row(1, 1930, 2, 0, "-"), Row(2, 3001, 0, 2, "-")}
    [] v = 1 /\ n = 1 -> {Row(1, 1930, 2, 0, "-"), Row(3, 3002, 0, 1, "c"), Row(4, 2611, 0, 1, "-")}
    [] v = 2 -> {Row(5, 4010, 1, 0, "c"), Row(6, 1930, 0, 1, "-")}
    [] v = 3 -> {Row(7, 8999, 1, 0, "-"), Row(8, 2099, 0, 1, "-")}
    [] v = 4 /\ n = 0 -> {Row(9, 4010, 3, 0, "-"), Row(10, 2440, 0, 3, "-")}
    [] v = 4 /\ n = 1 -> {Row(11, 4010, 2, 0, "c"), Row(12, 2611, 1, 0, "-"), Row(10, 2440, 0, 3, "-")}
TwoYears == <<7, 3>>
FirstOf(y) == IF y = 3 THEN 1 ELSE 5
LastOf(y) == IF y = 3 THEN 4 ELSE 8
SomeAccounts == {1930, 2440, 3001, 3002, 4010, 2099}

\* OverviewRun: one invoice in each ledger, one of them without a due date.
OnePayable == {ap1}
OneReceivable == {ar1}
NoDay == 9999
DaysDue(i) == IF i = ap1 THEN NoDay ELSE 31

\* Only where it pays: a permutation costs every state of every unit.
Symmetry == Permutations(TwoJobs) \cup Permutations(TwoAccounts)

\* What is explored of the sandbox: a listing that shows less than there is ends
\* a behaviour, as most of its properties excuse what follows; so does a seed in
\* books somebody was warned about, and a second warning; and what another job
\* does is followed to the end of the run it came into, where nobody was warned.
Sighted ==
  /\ ~blind /\ Cardinality(warned) <= 1 /\ (warned # {} => program # "seed")
  /\ beside["seed"] + beside["teardown"] > 0 => program # "none" /\ warned = {}
=============================================================================
