------------------------------ MODULE OverviewRun ------------------------------
(***************************************************************************)
(* The invoice side of cmd/overview: one run lists the unpaid invoices of  *)
(* both ledgers, counts every status of either, one request each, gives    *)
(* its verdict, and lists the unbooked invoices unless the verdict is that *)
(* nothing is outstanding. The books move between any two requests.        *)
(***************************************************************************)
EXTENDS Integers, Sequences, FiniteSets, FiniteSetsExt

CONSTANTS
  Payables, Receivables, \* invoices
  Amount,   \* what an invoice is over, in the currency of the books
  Age(_),   \* days since an invoice was due, or
  Undated   \* that its due date cannot be read

ASSUME LedgersAssumption ==
  Payables \cap Receivables = {} /\ IsFiniteSet(Payables) /\ IsFiniteSet(Receivables)
ASSUME AmountAssumption == Amount \in Nat \ {0}

LedgerInvoices == Payables \cup Receivables

\* Every status filter Fortnox documents, in the order they are counted.
SupplierInvoiceFilters ==
  <<"unpaid", "unpaidoverdue", "unbooked", "pendingpayment", "authorizepending",
    "fullypaid", "cancelled">>
CustomerInvoiceFilters == <<"unpaid", "unpaidoverdue", "unbooked", "fullypaid", "cancelled">>
Filters == {SupplierInvoiceFilters[i] : i \in DOMAIN SupplierInvoiceFilters}
Statuses == (Filters \ {"unpaidoverdue"}) \cup {"none"}

\* The order of the counts of one run: the suppliers' first.
Counts == [i \in DOMAIN SupplierInvoiceFilters |-> <<Payables, SupplierInvoiceFilters[i]>>]
          \o [i \in DOMAIN CustomerInvoiceFilters |-> <<Receivables, CustomerInvoiceFilters[i]>>]

VARIABLES
  status,  \* Fortnox: each invoice,
  left,    \*   and what is left to pay of it
  doing,   \* the run: the request it makes next,
  unpaid,  \*   the unpaid invoices it read, each with its balance,
  counted, \*   the counts it has,
  toBook,  \*   and the unbooked invoices it lists
  report,  \* what it printed last, if anything
  moved    \* history: the books changed since the run began

run == <<doing, unpaid, counted, toBook, report>>
overviewVars == <<status, left, run, moved>>

NoReport == [verdict |-> "no report"]
RunSteps == {"idle", "receivables", "payables", "unbooked payables", "unbooked receivables",
             "print"} \cup {"count"}

Outstanding(s) == s \in {"unpaid", "unbooked", "pendingpayment", "authorizepending"}

OverviewTypeOK ==
  /\ status \in [LedgerInvoices -> Statuses] /\ left \in [LedgerInvoices -> 0..Amount]
  /\ doing \in RunSteps
  /\ unpaid \subseteq LedgerInvoices \X (1..Amount)
  /\ Len(counted) \in 0..Len(Counts)
  /\ \A k \in DOMAIN counted : counted[k] \in 0..Cardinality(Counts[k][1])
  /\ toBook \subseteq LedgerInvoices
  /\ moved \in BOOLEAN

OverviewInit ==
  /\ status = [i \in LedgerInvoices |-> "none"] /\ left = [i \in LedgerInvoices |-> 0]
  /\ doing = "idle" /\ unpaid = {} /\ counted = <<>> /\ toBook = {}
  /\ report = NoReport
  /\ moved = FALSE

(***************************************************************************)
(* The books (external)                                                    *)
(***************************************************************************)
Becomes(i, s, b) ==
  /\ status' = [status EXCEPT ![i] = s] /\ left' = [left EXCEPT ![i] = b]
  /\ moved' = TRUE
  /\ UNCHANGED run

Move(i) ==
  \/ status[i] = "none" /\ Becomes(i, "unbooked", Amount)
  \/ status[i] = "unbooked" /\ Becomes(i, "unpaid", left[i])
  \/ status[i] = "unbooked" /\ i \in Payables /\ Becomes(i, "authorizepending", left[i])
  \/ status[i] = "authorizepending" /\ Becomes(i, "unpaid", left[i])
  \/ status[i] = "unpaid" /\ i \in Payables /\ Becomes(i, "pendingpayment", left[i])
  \/ status[i] \in {"unpaid", "pendingpayment"} /\ Becomes(i, "fullypaid", 0)
  \/ status[i] = "unpaid" /\ left[i] > 1 /\ Becomes(i, "unpaid", left[i] - 1)
  \/ status[i] \in {"unbooked", "unpaid"} /\ Becomes(i, "cancelled", 0)

(***************************************************************************)
(* The run                                                                 *)
(***************************************************************************)
\* An error of any request ends it: nothing is printed.
Start ==
  /\ doing = "idle"
  /\ doing' = "receivables" /\ unpaid' = {} /\ counted' = <<>> /\ toBook' = {}
  /\ report' = NoReport
  /\ moved' = FALSE
  /\ UNCHANGED <<status, left>>

Fail ==
  /\ doing # "idle"
  /\ doing' = "idle" /\ unpaid' = {} /\ counted' = <<>> /\ toBook' = {}
  /\ UNCHANGED <<status, left, report, moved>>

Unpaid(ledger) == {<<i, left[i]>> : i \in {j \in ledger : status[j] = "unpaid"}}

ListUnpaid(request, ledger, next) ==
  /\ doing = request /\ doing' = next
  /\ unpaid' = unpaid \cup Unpaid(ledger)
  /\ UNCHANGED <<status, left, counted, toBook, report, moved>>

Matches(i, filter) ==
  \/ status[i] = filter
  \/ filter = "unpaidoverdue" /\ status[i] = "unpaid" /\ Age(i) # Undated /\ Age(i) > 0

Counter(k) == Cardinality({i \in Counts[k][1] : Matches(i, Counts[k][2])})
IsFound(k) == counted[k] > 0

MutOnlyUnpaid == {"unpaid", "pendingpayment", "authorizepending"}
obligationFilters == {"unpaid", "unbooked", "pendingpayment", "authorizepending"}
\* A count that fails ends the run, so nothing is left uncounted here.
Assess ==
  LET found == {Counts[k][2] : k \in {n \in DOMAIN counted : IsFound(n)}} \cap obligationFilters IN
  IF found \ {"unbooked"} # {} THEN "open"
  ELSE IF found # {} THEN "hidden"
  ELSE "none"

StateCounts ==
  /\ doing = "count"
  /\ counted' = Append(counted, Counter(Len(counted) + 1))
  /\ doing' = (IF Len(counted') < Len(Counts) THEN "count"
            ELSE IF Assess' = "none" THEN "print"
            ELSE "unbooked payables")
  /\ UNCHANGED <<status, left, unpaid, toBook, report, moved>>

UnbookedInvoices(request, ledger, next) ==
  /\ doing = request /\ doing' = next
  /\ toBook' = toBook \cup {i \in ledger : status[i] = "unbooked"}
  /\ UNCHANGED <<status, left, unpaid, counted, report, moved>>

SumOf(rows) == MapThenSumSet(LAMBDA row : row[2], rows)
Of(ledger) == {row \in unpaid : row[1] \in ledger}

\* A date that cannot be read is taken for the oldest.
bucket(row) ==
  IF Age(row[1]) = Undated THEN "90+"
  ELSE IF Age(row[1]) <= 0 THEN "not yet due"
  ELSE IF Age(row[1]) <= 30 THEN "1-30"
  ELSE IF Age(row[1]) <= 90 THEN "31-90"
  ELSE "90+"

Buckets == {"not yet due", "1-30", "31-90", "90+"}
WithAgeing(ledger) == [b \in Buckets |-> SumOf({row \in Of(ledger) : bucket(row) = b})]

\* What remains, not what the invoice was over.
InvoiceFigures ==
  [receivables |-> SumOf(Of(Receivables)), payables |-> SumOf(Of(Payables)),
   receivableAges |-> WithAgeing(Receivables), payableAges |-> WithAgeing(Payables),
   verdict |-> Assess, unbooked |-> toBook]

PrintReport ==
  /\ doing = "print" /\ doing' = "idle"
  /\ report' = InvoiceFigures
  /\ unpaid' = {} /\ counted' = <<>> /\ toBook' = {}
  /\ UNCHANGED <<status, left, moved>>

-----------------------------------------------------------------------------
OverviewNext ==
  \/ \E i \in LedgerInvoices : Move(i)
  \/ Start \/ Fail
  \/ ListUnpaid("receivables", Receivables, "payables")
  \/ ListUnpaid("payables", Payables, "count")
  \/ StateCounts
  \/ UnbookedInvoices("unbooked payables", Payables, "unbooked receivables")
  \/ UnbookedInvoices("unbooked receivables", Receivables, "print")
  \/ PrintReport

OverviewSpec == OverviewInit /\ [][OverviewNext]_overviewVars

-----------------------------------------------------------------------------
(***************************************************************************)
(* Properties                                                              *)
(***************************************************************************)
\* A run whose books stood still prints what they hold: the verdict, the sums,
\* the invoices no ledger shows; and every krona that is owed is in a bucket.
\* Once an invoice has moved the report is about no moment in particular.
QuietReportIsTrue ==
  (report # NoReport /\ doing = "idle" /\ ~moved) =>
    /\ report.verdict = "none" <=> \A i \in LedgerInvoices : ~Outstanding(status[i])
    /\ report.verdict = "hidden" <=>
         /\ \E i \in LedgerInvoices : status[i] = "unbooked"
         /\ \A i \in LedgerInvoices : Outstanding(status[i]) => status[i] = "unbooked"
    /\ report.unbooked = {i \in LedgerInvoices : status[i] = "unbooked"}
    /\ report.payables = SumOf(Unpaid(Payables)) /\ report.receivables = SumOf(Unpaid(Receivables))
    /\ report.payables = MapThenSumSet(LAMBDA b : report.payableAges[b], Buckets)
    /\ report.receivables = MapThenSumSet(LAMBDA b : report.receivableAges[b], Buckets)
=============================================================================
