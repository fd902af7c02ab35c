----------------------------- MODULE InvoiceTools -----------------------------
(***************************************************************************)
(* The tools of internal/mcp that answer about invoices: payables          *)
(* (tools_ap.go), receivables (tools_ar.go) and the part of                *)
(* tools_analytics.go that reads both. A tool reads the unpaid invoices of *)
(* the moment and keeps nothing; the two "detail" tools read twice, with   *)
(* the books open in between. The same figures come out of several tools,  *)
(* grouped in different ways.                                              *)
(***************************************************************************)
EXTENDS Integers, FiniteSetsExt

CONSTANTS
  SupplierInvoices, CustomerInvoices, \* invoice numbers, in the order of a list
  PartyOf(_), MoneyOf(_), AmountOf(_), \* supplier or customer, currency, total
  DueOf(_), DatedOf(_), \* days, or
  Unread,               \* no date: the empty string, before every day
  FirstDay, LastDay     \* bound: the days that pass

ASSUME InvoiceNumbersAssumption ==
  SupplierInvoices \cup CustomerInvoices \subseteq Nat /\ IsFiniteSet(SupplierInvoices \cup CustomerInvoices)
ASSUME LedgersDisjoint == SupplierInvoices \cap CustomerInvoices = {}
ASSUME AmountsAssumption == \A i \in SupplierInvoices \cup CustomerInvoices :
  AmountOf(i) \in Nat \ {0} /\ DueOf(i) \in Nat /\ DatedOf(i) \in Nat
ASSUME DaysAssumption == Unread = 0 /\ FirstDay \in Nat \ {0} /\ LastDay \in Nat /\ FirstDay <= LastDay

Invoices == SupplierInvoices \cup CustomerInvoices

VARIABLES
  today,   \* the clock
  posted,  \* Fortnox: the invoices in its books,
  balance, \*   and what is left to pay of each
  detail,  \* a detail tool under way: the invoice asked for, and what was read
  changed  \* history: that invoice was paid on since

toolVars == <<today, posted, balance, detail, changed>>
NoDetail == <<>>
Details == [number : Invoices, found : BOOLEAN, left : Nat, paid : Int, done : BOOLEAN]

ToolTypeOK ==
  /\ today \in FirstDay..LastDay
  /\ posted \subseteq Invoices
  /\ \A i \in Invoices : balance[i] \in 0..AmountOf(i)
  /\ detail # NoDetail => detail \in Details
  /\ changed \in BOOLEAN

ToolInit ==
  /\ today = FirstDay /\ posted = {} /\ balance = [i \in Invoices |-> 0]
  /\ detail = NoDetail /\ changed = FALSE

(***************************************************************************)
(* The books (external)                                                    *)
(***************************************************************************)
Post(i) ==
  /\ i \notin posted
  /\ posted' = posted \cup {i} /\ balance' = [balance EXCEPT ![i] = AmountOf(i)]
  /\ changed' = (changed \/ (detail # NoDetail /\ detail.number = i))
  /\ UNCHANGED <<today, detail>>

Pay(i) ==
  /\ balance[i] > 0
  /\ \E left \in 0..(balance[i] - 1) : balance' = [balance EXCEPT ![i] = left]
  /\ changed' = (changed \/ (detail # NoDetail /\ detail.number = i))
  /\ UNCHANGED <<today, posted, detail>>

NextDay ==
  /\ today < LastDay /\ today' = today + 1
  /\ UNCHANGED <<posted, balance, detail, changed>>

UnpaidInvoices(ledger) == {i \in ledger \cap posted : balance[i] > 0}
InvoicePayments(i) == IF i \in posted THEN AmountOf(i) - balance[i] ELSE 0
AP == UnpaidInvoices(SupplierInvoices)
AR == UnpaidInvoices(CustomerInvoices)

(***************************************************************************)
(* internal/analyst                                                        *)
(***************************************************************************)
currencyOf == [i \in Invoices |-> MoneyOf(i)]
partyOf == [i \in Invoices |-> PartyOf(i)]
GroupBy(rows, key) == [k \in {key[i] : i \in rows} |-> {i \in rows : key[i] = k}]

SumMinorUnits(rows) == MapThenSumSet(AmountOf, rows)

MutDueToday(i) == IF DueOf(i) = Unread THEN 0 ELSE Max({today - DueOf(i) + 1, 0})
DaysOverdue(i) == IF DueOf(i) = Unread THEN 0 ELSE Max({today - DueOf(i), 0})

WithoutDate(rows) == {i \in rows : DueOf(i) = Unread}

\* A date that cannot be read is skipped.
bucketOf(i) ==
  LET days == today - DueOf(i) IN
  IF DueOf(i) = Unread THEN "skipped"
  ELSE IF days <= 0 THEN "current" ELSE IF days <= 30 THEN "1-30"
  ELSE IF days <= 60 THEN "31-60" ELSE IF days <= 90 THEN "61-90" ELSE "90+"
AgingBuckets(rows) ==
  [b \in {"current", "1-30", "31-60", "61-90", "90+"} |->
     Cardinality({i \in rows : bucketOf(i) = b})]

(***************************************************************************)
(* Grouping                                                                *)
(***************************************************************************)
\* One total for each currency, never one over several.
sumCurrencyTotals(rows) ==
  LET of == GroupBy(rows, currencyOf) IN [c \in DOMAIN of |-> SumMinorUnits(of[c])]

\* The due date that is least as text, but that a list starts over after an empty
\* one: the least of those after the last that is empty.
oldestDue(rows) ==
  LET dates == {DueOf(i) : i \in {j \in rows : \A k \in WithoutDate(rows) : k < j}} IN
  IF dates = {} THEN Unread ELSE Min(dates)

Summary(rows) ==
  LET of == GroupBy(rows, currencyOf) IN
  [count |-> Cardinality(rows),
   currencies |-> [c \in DOMAIN of |-> [count |-> Cardinality(of[c]), total |-> SumMinorUnits(of[c]),
                                        oldest |-> oldestDue(of[c])]]]

Overdue(rows, threshold) ==
  {[number |-> i, days |-> DaysOverdue(i)] :
     i \in {j \in rows : DaysOverdue(j) >= threshold /\ DaysOverdue(j) > 0}}

ByParty(rows) ==
  LET of == GroupBy(rows, partyOf) IN
  [p \in DOMAIN of |-> [count |-> Cardinality(of[p]), currencies |-> sumCurrencyTotals(of[p])]]

\* A party is ranked by the total in the currency of its first invoice.
Rank(rows, p) ==
  LET its == GroupBy(rows, partyOf)[p] IN sumCurrencyTotals(its)[MoneyOf(Min(its))]
\* The first of them, be two of equal rank in either order.
Limited(answer, limit, rank) ==
  IF limit = 0 \/ limit >= Cardinality(DOMAIN answer) THEN {DOMAIN answer}
  ELSE {kept \in kSubset(limit, DOMAIN answer) :
          \A p \in kept, q \in DOMAIN answer \ kept : rank[p] >= rank[q]}

History(rows, p) == {i \in rows : PartyOf(i) = p}

(***************************************************************************)
(* The tools                                                               *)
(***************************************************************************)
apSummary == Summary(AP)
apOverdue(threshold) == Overdue(AP, threshold)
apBySupplier == ByParty(AP)
apByCurrency ==
  LET of == GroupBy(AP, currencyOf) IN
  [c \in DOMAIN of |-> [count |-> Cardinality(of[c]), total |-> SumMinorUnits(of[c])]]
apAging == AgingBuckets(AP)
apSupplierHistory(s) == History(AP, s)

arSummary == Summary(AR)
arOverdue(threshold) == Overdue(AR, threshold)
arByCustomer == ByParty(AR)
arAging == AgingBuckets(AR)
arCustomerHistory(c) == History(AR, c)
\* With or without the customer's address: an invoice is reported either way.
arUnpaidReport ==
  {[number |-> i, days |-> DaysOverdue(i)] : i \in {j \in AR : DaysOverdue(j) > 0}}

Within(i, days) == DueOf(i) # Unread /\ DueOf(i) <= today + days
\* Of a supplier's invoice the amount, of a customer's what is left of it.
cashFlowForecast(days) ==
  LET outgoing == {i \in AP : Within(i, days)}
      incoming == {i \in AR : Within(i, days)}
      inflows == MapThenSumSet(LAMBDA i : balance[i], incoming) IN
  [outflows |-> SumMinorUnits(outgoing), outflowCount |-> Cardinality(outgoing),
   inflows |-> inflows, inflowCount |-> Cardinality(incoming),
   net |-> inflows - SumMinorUnits(outgoing)]

\* Ranked over all currencies together.
Ranks(rows) ==
  LET of == GroupBy(rows, partyOf) IN
  [p \in DOMAIN of |-> [count |-> Cardinality(of[p]), total |-> SumMinorUnits(of[p])]]
topCustomers(from, to) == Ranks({i \in AR : DatedOf(i) # Unread /\ DatedOf(i) \in from..to})
topSuppliers(from, to) == Ranks({i \in AP : DueOf(i) # Unread /\ DueOf(i) \in from..to})

(***************************************************************************)
(* ap_invoice_detail, ar_invoice_detail                                    *)
(***************************************************************************)
InvoiceDetail(i, ledger) ==
  /\ i \in ledger
  /\ detail # NoDetail => detail.done
  /\ detail' = [number |-> i, found |-> i \in UnpaidInvoices(ledger), left |-> balance[i],
                paid |-> 0, done |-> FALSE]
  /\ changed' = FALSE
  /\ UNCHANGED <<today, posted, balance>>

apInvoiceDetail(i) == InvoiceDetail(i, SupplierInvoices)
arInvoiceDetail(i) == InvoiceDetail(i, CustomerInvoices)

\* The second read, or an error that ends the tool.
ReadPayments ==
  /\ detail # NoDetail /\ ~detail.done
  /\ \/ detail' = [detail EXCEPT !.paid = InvoicePayments(detail.number), !.done = TRUE]
     \/ detail' = NoDetail
  /\ UNCHANGED <<today, posted, balance, changed>>

-----------------------------------------------------------------------------
ToolNext ==
  \/ \E i \in Invoices : Post(i) \/ Pay(i) \/ apInvoiceDetail(i) \/ arInvoiceDetail(i)
  \/ ReadPayments \/ NextDay

ToolSpec == ToolInit /\ [][ToolNext]_toolVars

-----------------------------------------------------------------------------
(***************************************************************************)
(* Properties                                                              *)
(***************************************************************************)
SumOver(figures) == MapThenSumSet(LAMBDA k : figures[k], DOMAIN figures)
Count(answer) == MapThenSumSet(LAMBDA k : answer[k].count, DOMAIN answer)
In(answer, p, c) == IF c \in DOMAIN answer[p].currencies THEN answer[p].currencies[c] ELSE 0

\* The summary, the totals of each party and the histories are of the same
\* invoices and the same money, whichever way they are grouped; no total is
\* over two currencies; and the oldest date is the oldest, unless one is empty.
GroupsAgree(summary, parties, HistoryOf(_), rows) ==
  /\ summary.count = Count(parties) /\ summary.count = Count(summary.currencies)
  /\ \A c \in DOMAIN summary.currencies :
       summary.currencies[c].total = MapThenSumSet(LAMBDA p : In(parties, p, c), DOMAIN parties)
  /\ \A p \in DOMAIN parties :
       /\ Cardinality(HistoryOf(p)) = parties[p].count
       /\ DOMAIN parties[p].currencies = {MoneyOf(i) : i \in HistoryOf(p)}
  /\ UNION {HistoryOf(p) : p \in DOMAIN parties} = rows
  /\ \A c \in DOMAIN summary.currencies : WithoutDate(rows) = {} =>
       \A i \in rows : MoneyOf(i) = c => summary.currencies[c].oldest <= DueOf(i)

\* The ages: every invoice whose date can be read is in one bucket, and those
\* past the first are the overdue ones.
AgesAgree(aging, overdue, rows) ==
  /\ SumOver(aging) = Cardinality(rows \ WithoutDate(rows))
  /\ Cardinality(overdue) = SumOver(aging) - aging["current"]

\* What a reader may add up: answers that a model gets from several tools about
\* the same books, each with code of its own, agree in every state of them.
AnswersReconcile ==
  /\ GroupsAgree(apSummary, apBySupplier, apSupplierHistory, AP)
  /\ GroupsAgree(arSummary, arByCustomer, arCustomerHistory, AR)
  /\ \A c \in DOMAIN apByCurrency :
       /\ apByCurrency[c].total = apSummary.currencies[c].total
       /\ apByCurrency[c].count = apSummary.currencies[c].count
  /\ AgesAgree(apAging, apOverdue(0), AP) /\ AgesAgree(arAging, arOverdue(0), AR)
  /\ arUnpaidReport = arOverdue(1)
  /\ cashFlowForecast(0).outflowCount =
       Cardinality(apOverdue(0)) + Cardinality({i \in AP : DueOf(i) = today})
  /\ Count(topSuppliers(1, today)) + Count(topSuppliers(today + 1, LastDay)) =
       Cardinality({i \in AP : DueOf(i) \in 1..LastDay})
  /\ Count(topCustomers(1, today)) + Count(topCustomers(today + 1, LastDay)) =
       Cardinality({i \in AR : DatedOf(i) \in 1..LastDay})
  /\ LET rank == [p \in DOMAIN apBySupplier |-> Rank(AP, p)] IN
     \A kept \in Limited(apBySupplier, 1, rank), p \in DOMAIN rank :
       \E q \in kept : rank[q] >= rank[p]

\* A detail answer read from books that stood still for that invoice adds up;
\* otherwise balance and payments may be of two moments.
DetailAddsUp ==
  (detail # NoDetail /\ detail.done /\ ~changed) =>
    IF detail.found THEN detail.left + detail.paid = AmountOf(detail.number)
    ELSE detail.paid \in {0, AmountOf(detail.number)}

\* The lists and totals, and the details of the invoices in them.
AnswersAddUp == AnswersReconcile /\ DetailAddsUp
=============================================================================
