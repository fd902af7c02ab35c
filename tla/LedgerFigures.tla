---------------------------- MODULE LedgerFigures ----------------------------
(***************************************************************************)
(* The figures this system takes from the general ledger. Fortnox lists    *)
(* the vouchers of a year without their rows, so they are read one by one, *)
(* while people post and correct them; from what was read come the tools   *)
(* of tools_gl.go, tools_costcenter.go, tools_project.go and               *)
(* tools_analytics.go, and the ledger side of the financial overview.      *)
(***************************************************************************)
EXTENDS Integers, Sequences, FiniteSets, FiniteSetsExt

CONSTANTS
  Entries,    \* vouchers
  Day(_),     \* the date of each,
  Corrections(_), \* how often it is corrected at most,
  RowsAt(_, _),   \* its rows after n of them, [id, account, debit, credit, centre, project]
  Years,      \* financial years in the order they are listed,
  From(_), To(_), \* first and last day of each
  Chart       \* the accounts of the chart

Listed == {Years[i] : i \in DOMAIN Years}
Covers(y, day) == From(y) <= day /\ day <= To(y)
AllRows(v) == UNION {RowsAt(v, n) : n \in 0..Corrections(v)}

\* A company has a financial year; they do not overlap, and a voucher has a day of one.
ASSUME YearsAssumption ==
  /\ Years \in Seq(Nat) /\ Years # <<>> /\ \A i, j \in DOMAIN Years : Years[i] = Years[j] => i = j
  /\ \A y \in Listed : From(y) \in Nat /\ To(y) \in Nat /\ From(y) <= To(y)
  /\ \A y, z \in Listed : y # z => To(y) < From(z) \/ To(z) < From(y)
  /\ \A v \in Entries : Day(v) \in Nat /\ \E y \in Listed : Covers(y, Day(v))
\* Fortnox takes no voucher, and no correction of one, that does not balance.
ASSUME BalanceAssumption == \A v \in Entries : \A n \in 0..Corrections(v) :
  MapThenSumSet(LAMBDA r : r.debit - r.credit, RowsAt(v, n)) = 0
\* A row is of one voucher, however often that is corrected.
ASSUME RowsAssumption ==
  /\ \A v, u \in Entries : v # u => AllRows(v) \cap AllRows(u) = {}
  /\ \A v \in Entries : Corrections(v) \in Nat /\ \A n \in 0..Corrections(v) : IsFiniteSet(RowsAt(v, n))
  /\ \A v \in Entries : \A r \in AllRows(v) : r.account \in Nat /\ r.debit \in Int /\ r.credit \in Int
ASSUME BooksAreFinite == IsFiniteSet(Entries) /\ IsFiniteSet(Chart) /\ Chart \subseteq Nat

VARIABLES
  version, \* Fortnox: corrections of each voucher, -1 before it is posted
  brought, \*   and the opening balances of each year
  wanted,  \* the reader: years to read,
  heads,   \*   vouchers to read of the one it is at,
  seen,    \*   the version it read of each, and
  opening  \*   the opening balances

reader == <<wanted, heads, seen, opening>>
ledgerVars == <<version, brought, reader>>

AccountsUsed == Chart \cup {r.account : r \in UNION {AllRows(v) : v \in Entries}}
YearOf(v) == CHOOSE y \in Listed : Covers(y, Day(v))

LedgerTypeOK ==
  /\ \A v \in Entries : version[v] \in -1..Corrections(v) /\ seen[v] \in -1..Corrections(v)
  /\ brought \in [Listed -> [AccountsUsed -> Int]] /\ opening \in [Listed -> [AccountsUsed -> Int]]
  /\ wanted \subseteq Listed /\ heads \subseteq Entries

Nothing == [y \in Listed |-> [a \in AccountsUsed |-> 0]]

LedgerInit ==
  /\ version = [v \in Entries |-> -1] /\ brought = Nothing
  /\ wanted = Listed /\ heads = {} /\ seen = [v \in Entries |-> -1] /\ opening = Nothing

Debits(rows) == MapThenSumSet(LAMBDA r : r.debit, rows)
Credits(rows) == MapThenSumSet(LAMBDA r : r.credit, rows)
Movement(rows) == Debits(rows) - Credits(rows)

(***************************************************************************)
(* Fortnox (external)                                                      *)
(***************************************************************************)
\* A voucher is posted, or rows of it are removed and others added.
EditVoucher(v) ==
  /\ version[v] < Corrections(v)
  /\ version' = [version EXCEPT ![v] = @ + 1]
  /\ UNCHANGED <<brought, reader>>

\* The balance-sheet accounts of a year, as they are, open the next one.
CarryForward(y, next) ==
  /\ To(y) + 1 = From(next)
  /\ brought' = [brought EXCEPT ![next] = [a \in AccountsUsed |-> IF a >= 3000 THEN 0 ELSE
       brought[y][a] + Movement({r \in UNION {RowsAt(v, version[v]) :
         v \in {u \in Entries : version[u] >= 0 /\ YearOf(u) = y}} : r.account = a})]]
  /\ brought' # brought
  /\ UNCHANGED <<version, reader>>

(***************************************************************************)
(* Reading                                                                 *)
(***************************************************************************)
StartReading ==
  /\ wanted = {} /\ heads = {}
  /\ wanted' = Listed /\ seen' = [v \in Entries |-> -1] /\ opening' = Nothing
  /\ UNCHANGED <<version, brought, heads>>

\* The chart of accounts, and then the heads of the year's vouchers. An account
\* that the chart leaves out opens at nothing, whatever the books say.
ListVouchers(y) ==
  /\ y \in wanted /\ heads = {}
  /\ wanted' = wanted \ {y}
  /\ heads' = {v \in Entries : version[v] >= 0 /\ YearOf(v) = y}
  /\ opening' = [opening EXCEPT ![y] = [a \in AccountsUsed |-> IF a \in Chart THEN brought[y][a] ELSE 0]]
  /\ UNCHANGED <<version, brought, seen>>

\* The detail of one. If it cannot be read there is no list at all.
GetVoucher(v) ==
  /\ v \in heads
  /\ \/ heads' = heads \ {v} /\ seen' = [seen EXCEPT ![v] = version[v]] /\ UNCHANGED <<wanted, opening>>
     \/ heads' = {} /\ wanted' = {} /\ seen' = [u \in Entries |-> -1] /\ opening' = Nothing
  /\ UNCHANGED <<version, brought>>

\* Removed rows are returned along with the others, and dropped here.
Returned(v) == UNION {RowsAt(v, n) : n \in 0..seen[v]}
Removed(v, r) == r \notin RowsAt(v, seen[v])
MutRemovedCounted(v) == Returned(v)
convertVoucher(v) == {r \in Returned(v) : ~Removed(v, r)}

MutUpperExclusive(y, from, to) ==
  {v \in Entries : seen[v] >= 0 /\ YearOf(v) = y /\ from <= Day(v) /\ Day(v) < to}
Vouchers(y, from, to) ==
  {v \in Entries : seen[v] >= 0 /\ YearOf(v) = y /\ from <= Day(v) /\ Day(v) <= to}
Rows(y, from, to) == UNION {convertVoucher(v) : v \in Vouchers(y, from, to)}

(***************************************************************************)
(* The tools                                                               *)
(***************************************************************************)
glVouchers(y, from, to) == [v \in Vouchers(y, from, to) |-> convertVoucher(v)]
AccountActivity(y, a, from, to) == {r \in Rows(y, from, to) : r.account = a}

\* Per voucher, not per row.
touchesAccount(v, a) == \E r \in convertVoucher(v) : r.account = a
SummariseAccount(vouchers, a) ==
  LET days == {Day(v) : v \in {u \in vouchers : touchesAccount(u, a)}} IN
  [count |-> Cardinality({v \in vouchers : touchesAccount(v, a)}),
   span |-> IF days = {} THEN {} ELSE {Min(days), Max(days)}]

latestYearID == CHOOSE y \in Listed : \A z \in Listed : To(z) <= To(y)
resolveYearID(asked) == IF asked \in Listed THEN asked ELSE latestYearID

\* The first of the list that contains the day; none is an error.
FirstYear(matching) ==
  LET found == {i \in DOMAIN Years : Years[i] \in matching} IN
  IF found = {} THEN {} ELSE {Years[Min(found)]}
findFinancialYear(day) == FirstYear({y \in Listed : Covers(y, day)})

CostCenterTransactions(code, from, to) ==
  UNION {{r \in Rows(y, from, to) : r.centre = code} : y \in findFinancialYear(from)}

\* Year by year, a row counted as often as it is found.
costCenterAnalysis(code) ==
  LET Found(y, a) == {r \in CostCenterTransactions(code, From(y), To(y)) : r.account = a} IN
  [a \in {b \in AccountsUsed : \E y \in Listed : Found(y, b) # {}} |->
     [debit |-> MapThenSumSet(LAMBDA y : Debits(Found(y, a)), Listed),
      credit |-> MapThenSumSet(LAMBDA y : Credits(Found(y, a)), Listed),
      net |-> 0 - MapThenSumSet(LAMBDA y : Movement(Found(y, a)), Listed),
      count |-> MapThenSumSet(LAMBDA y : Cardinality(Found(y, a)), Listed)]]

\* Of one year only: the first that the window touches.
ProjectTransactions(id, from, to) ==
  UNION {{r \in Rows(y, from, to) : r.project = id} :
           y \in FirstYear({z \in Listed : To(z) >= from /\ From(z) <= to})}
projectProfitability(id, from, to) ==
  LET rows == ProjectTransactions(id, from, to) IN
  [debit |-> Debits(rows), credit |-> Credits(rows), net |-> Credits(rows) - Debits(rows)]

\* Revenue is what was credited, costs of goods what was debited: nothing is
\* taken off for the other side.
periodMetrics(y, from, to) ==
  [revenue |-> Credits({r \in Rows(y, from, to) : r.account \in 3000..3999}),
   cogs |-> Debits({r \in Rows(y, from, to) : r.account \in 4000..4999})]
salesVsPurchases(from, to) ==
  LET m == periodMetrics(latestYearID, from, to) IN
  [revenue |-> m.revenue, cogs |-> m.cogs, net |-> m.revenue - m.cogs]
periodComparison(a, b, c, d) ==
  <<periodMetrics(latestYearID, a, b), periodMetrics(latestYearID, c, d)>>
grossMarginTrend(months) ==
  [i \in DOMAIN months |-> periodMetrics(latestYearID, months[i][1], months[i][2])]
expenseAnalysis(from, to) ==
  LET rows == {r \in Rows(latestYearID, from, to) : r.account \in 4000..7999} IN
  [a \in {r.account : r \in rows} |-> Debits({r \in rows : r.account = a})]

(***************************************************************************)
(* BuildFinancialOverview                                                  *)
(***************************************************************************)
resultTransferAccount == 8999
YearRows(y) == Rows(y, From(y), To(y))

Position(y, a) ==
  LET rows == {r \in YearRows(y) : r.account = a} IN
  [opening |-> opening[y][a], debit |-> Debits(rows), credit |-> Credits(rows),
   closing |-> opening[y][a] + Movement(rows)]

\* An account that was posted to is there whether or not the chart has it.
Positions(y) ==
  {a \in AccountsUsed : opening[y][a] # 0 \/ \E r \in YearRows(y) : r.account = a}

ClassSum(y, class) == MapThenSumSet(LAMBDA a : Position(y, a).closing, Positions(y) \cap class)

UnbalancedVouchers(y) ==
  {v \in Vouchers(y, From(y), To(y)) : Movement(convertVoucher(v)) # 0}

\* Debit is positive; equity, revenue and the result are shown the other way.
BuildFinancialOverview(y) ==
  LET revenue == ClassSum(y, 3000..3999)
      costs == ClassSum(y, {a \in AccountsUsed : a >= 4000} \ {resultTransferAccount}) IN
  [assets |-> ClassSum(y, 0..1999),
   eqLiab |-> 0 - ClassSum(y, 2000..2999),
   revenue |-> 0 - revenue, costs |-> costs, result |-> 0 - revenue - costs,
   transferred |-> ClassSum(y, {resultTransferAccount}),
   discrepancy |-> ClassSum(y, AccountsUsed),
   unbalanced |-> UnbalancedVouchers(y)]

-----------------------------------------------------------------------------
LedgerNext ==
  \/ \E v \in Entries : EditVoucher(v) \/ GetVoucher(v)
  \/ \E y, z \in Listed : CarryForward(y, z)
  \/ \E y \in Listed : ListVouchers(y)
  \/ StartReading

LedgerSpec == LedgerInit /\ [][LedgerNext]_ledgerVars

-----------------------------------------------------------------------------
(***************************************************************************)
(* Properties                                                              *)
(***************************************************************************)
Read == wanted = {} /\ heads = {}
Opened(y) == MapThenSumSet(LAMBDA a : opening[y][a], Chart)

\* Whatever was posted or corrected between two requests of one reading: no
\* voucher is out of balance, the year is out by what its opening balances are
\* out by and by nothing else, the two sides differ by the result that was not
\* transferred, and a closing voucher changes no result.
BooksExplained ==
  Read => \A y \in Listed :
    LET ov == BuildFinancialOverview(y) IN
    /\ ov.unbalanced = {}
    /\ ov.discrepancy = Opened(y)
    /\ ov.assets - ov.eqLiab = ov.result - ov.transferred + ov.discrepancy
    /\ LET earned == {r \in YearRows(y) : r.account >= 3000 /\ r.account # resultTransferAccount} IN
       ov.result = Credits(earned) - Debits(earned)

Plus(m, n) == [revenue |-> m.revenue + n.revenue, cogs |-> m.cogs + n.cogs]

\* Two periods that meet make up the period they cover, in both tools that compare.
MakeUpTheYear(y, d) ==
  LET parts == periodComparison(From(y), d, d + 1, To(y)) IN
  /\ periodMetrics(y, From(y), To(y)) = Plus(parts[1], parts[2])
  /\ grossMarginTrend(<< <<From(y), d>>, <<d + 1, To(y)>> >>) = parts

\* The costs of goods are the expenses on their accounts.
GoodsAreExpenses(y) ==
  LET spent == expenseAnalysis(From(y), To(y)) IN
  periodMetrics(y, From(y), To(y)).cogs = MapThenSumSet(LAMBDA a : spent[a], DOMAIN spent \cap 4000..4999)

\* No more vouchers touch an account than it has rows, and where none does there is
\* no row and nothing moved.
TouchedOncePerVoucher(y, a) ==
  LET all == SummariseAccount(DOMAIN glVouchers(resolveYearID(y), From(y), To(y)), a) IN
  /\ all.count <= Cardinality(AccountActivity(y, a, From(y), To(y)))
  /\ all.count = 0 <=> AccountActivity(y, a, From(y), To(y)) = {}
  /\ all.count = 0 => Position(y, a).debit = 0 /\ Position(y, a).credit = 0

\* Over years that are listed in any order, each row of a cost centre is there once.
CentreRowsOnce(code) ==
  LET found == costCenterAnalysis(code) IN
  MapThenSumSet(LAMBDA a : found[a].count, DOMAIN found)
    = Cardinality({r \in UNION {YearRows(y) : y \in Listed} : r.centre = code})

\* The projects, and the rows of none, leave nothing of a year out.
ProjectsCover(y) ==
  LET tags == {r.project : r \in UNION {AllRows(v) : v \in Entries}} IN
  MapThenSumSet(LAMBDA id : projectProfitability(id, From(y), To(y)).net, tags) = 0

\* The tools agree with each other on what was read: the parts of the latest year
\* make it up, and what one tool says of an account, a cost centre or a project is
\* what another says of the same rows.
FiguresAgree ==
  Read =>
    /\ \A d \in From(latestYearID)..(To(latestYearID) - 1) : MakeUpTheYear(latestYearID, d)
    /\ LET year == periodMetrics(latestYearID, From(latestYearID), To(latestYearID)) IN
       salesVsPurchases(From(latestYearID), To(latestYearID)).net = year.revenue - year.cogs
    /\ GoodsAreExpenses(latestYearID)
    /\ \A y \in Listed, a \in AccountsUsed : TouchedOncePerVoucher(y, a)
    /\ \A code \in {r.centre : r \in UNION {AllRows(v) : v \in Entries}} : CentreRowsOnce(code)
    /\ \A y \in Listed : ProjectsCover(y)
=============================================================================
