----------------------------- MODULE PaymentFile -----------------------------
(***************************************************************************)
(* One payment file: what loadPendingInvoices reads, the unpaid invoices   *)
(* page by page and their accounts supplier by supplier, while invoices    *)
(* are booked and paid and bank details are edited, and the pain.001       *)
(* document GeneratePAIN001 makes of it. PaymentBatch takes it from there. *)
(*                                                                         *)
(* An invoice is its place in the order Fortnox lists them in, which       *)
(* nobody asks to be that of booking.                                      *)
(***************************************************************************)
EXTENDS Naturals, FiniteSets, FiniteSetsExt

CONSTANTS
  Bills,        \* supplier invoices, 1..n in listing order
  PageRows,     \* invoices on a page of a listing
  Payees,       \* suppliers
  PayeeOf(_), CurrencyOf(_), \* of an invoice
  Total(_),     \* what it is over: 0 for a credit note
  Accounts      \* IBANs

ASSUME PayeesAssumption == \A b \in Bills : PayeeOf(b) \in Payees
ASSUME TotalAssumption == \A b \in Bills : Total(b) \in Nat
ASSUME ListingAssumption == Bills \subseteq Nat /\ IsFiniteSet(Bills) /\ PageRows \in Nat \ {0}

VARIABLES
  arrived, \* Fortnox: the invoices booked so far,
  owed,    \*   what is left to pay of each, and
  iban,    \*   the account of each supplier, NoAccount for none
  making,  \* the request: where it is,
  nextPage, \*  the page of the unpaid invoices it reads next,
  rows,    \*   the invoices it read, each with the page and its balance there,
  cache,   \*   the accounts it looked up,
  bare,    \*   the invoices it has yet to enrich
  pending, \*   and those it has, each with its account
  document, \* the file it made
  payable, \* history: the invoices owed for when the last page was read,
  unread,  \*   the suppliers edited since, and whether the pages already read
  shifted  \*   had an invoice come or go before

request == <<making, nextPage, rows, cache, bare, pending>>
reading == <<payable, unread, shifted>>
fileVars == <<arrived, owed, iban, request, document, reading>>

NoAccount == "no account"
NoFile == [blocks |-> {}, txs |-> 0, sum |-> 0]
Unasked == "unasked"
\* An invoice listed on two pages is two rows, and two payments.
ListRows == [bill : Bills, page : Nat, balance : Nat]
Payments == [row : ListRows, account : Accounts]

ASSUME AccountsAssumption == NoAccount \notin Accounts /\ Unasked \notin Accounts

FileTypeOK ==
  /\ arrived \subseteq Bills /\ bare \subseteq rows
  /\ \A b \in Bills : owed[b] \in 0..Total(b)
  /\ \A row \in rows : row \in ListRows /\ row.balance <= Total(row.bill)
  /\ nextPage \in Nat \ {0}
  /\ iban \in [Payees -> Accounts \cup {NoAccount}]
  /\ cache \in [Payees -> Accounts \cup {NoAccount, Unasked}]
  /\ making \in {"idle", "read", "enrich", "generate"}
  /\ pending \subseteq Payments
  /\ \A k \in document.blocks : k.payments \subseteq Payments
  /\ payable \subseteq Bills /\ unread \subseteq Payees /\ shifted \in BOOLEAN

Forget ==
  /\ making' = "idle" /\ nextPage' = 1 /\ rows' = {} /\ bare' = {} /\ pending' = {}
  /\ cache' = [s \in Payees |-> Unasked]

FileInit ==
  /\ arrived = {} /\ owed = [b \in Bills |-> 0] /\ iban = [s \in Payees |-> NoAccount]
  /\ making = "idle" /\ nextPage = 1 /\ rows = {} /\ bare = {} /\ pending = {}
  /\ cache = [s \in Payees |-> Unasked]
  /\ document = NoFile
  /\ payable = {} /\ unread = {} /\ shifted = FALSE

(***************************************************************************)
(* The books (external)                                                    *)
(***************************************************************************)
\* A credit note is owed nothing and is listed all the same.
Unsettled == {b \in arrived : owed[b] > 0 \/ Total(b) = 0}
Place(b) == Cardinality({a \in Unsettled : a <= b})
OnPage(k) == {b \in Unsettled : (k - 1) * PageRows < Place(b) /\ Place(b) <= k * PageRows}

\* One that comes or goes on the pages a request has read moves those behind it.
Moves(place) ==
  shifted' = (shifted \/ (making = "read" /\ place <= (nextPage - 1) * PageRows))

Arrives(b) ==
  /\ b \notin arrived
  /\ arrived' = arrived \cup {b} /\ owed' = [owed EXCEPT ![b] = Total(b)]
  /\ Moves(Place(b)')
  /\ UNCHANGED <<iban, request, document, payable, unread>>

\* A part, or all that is left, is paid by other means.
IsPaid(b) ==
  /\ owed[b] > 0
  /\ \E left \in 0..(owed[b] - 1) :
       /\ owed' = [owed EXCEPT ![b] = left]
       /\ IF left = 0 THEN Moves(Place(b)) ELSE UNCHANGED shifted
  /\ UNCHANGED <<arrived, iban, request, document, payable, unread>>

EditAccount(s, account) ==
  /\ iban[s] # account
  /\ iban' = [iban EXCEPT ![s] = account]
  /\ unread' = unread \cup {s}
  /\ UNCHANGED <<arrived, owed, request, document, payable, shifted>>

(***************************************************************************)
(* loadPendingInvoices                                                     *)
(***************************************************************************)
Gathered == rows \cup {[bill |-> b, page |-> nextPage, balance |-> owed[b]] : b \in OnPage(nextPage)}

IsForeignCurrency(b) == CurrencyOf(b) # "SEK"

Sync(list) == {row \in list : IsForeignCurrency(row.bill)}

\* What supplierInvoicesByFilter says of the fetch before it: page one only.
MutPageOneOnly == nextPage = 1
\* GetAllPages: the last page is the one the total it reports says is the last.
LastPage == nextPage * PageRows >= Cardinality(Unsettled)

\* Of the whole list the foreign invoices are kept: of none, an empty table and
\* no file.
Kept ==
  IF Sync(Gathered) = {} THEN Forget
  ELSE /\ making' = "enrich" /\ nextPage' = 1 /\ rows' = Sync(Gathered) /\ bare' = Sync(Gathered)
       /\ UNCHANGED <<cache, pending>>

\* One page of the unpaid invoices, the first of a request or one more.
UnpaidBills ==
  /\ making \in {"idle", "read"}
  /\ \/ LastPage /\ Kept
     \/ /\ ~LastPage
        /\ making' = "read" /\ nextPage' = nextPage + 1 /\ rows' = Gathered
        /\ UNCHANGED <<cache, bare, pending>>
  /\ document' = NoFile
  /\ payable' = {b \in Bills : owed[b] > 0} /\ unread' = {}
  /\ shifted' = (making = "read" /\ shifted)
  /\ UNCHANGED <<arrived, owed, iban>>

\* A page that cannot be read ends the request.
PageFails ==
  /\ making = "read"
  /\ Forget
  /\ UNCHANGED <<arrived, owed, iban, document, reading>>

\* One lookup for each supplier of a request, an empty answer included.
cachedLookup(s, answer) ==
  \/ cache[s] # Unasked /\ answer = cache[s] /\ UNCHANGED cache
  \/ cache[s] = Unasked /\ answer = iban[s] /\ cache' = [cache EXCEPT ![s] = answer]

\* An invoice whose supplier has no account is dropped. A lookup that fails
\* ends the request.
Enrich(row) ==
  /\ making = "enrich" /\ row \in bare
  /\ \/ /\ \E answer \in Accounts \cup {NoAccount} :
             /\ cachedLookup(PayeeOf(row.bill), answer)
             /\ pending' = IF answer = NoAccount THEN pending
                           ELSE pending \cup {[row |-> row, account |-> answer]}
        /\ bare' = bare \ {row}
        /\ making' = (IF bare' = {} THEN "generate" ELSE "enrich")
        /\ UNCHANGED <<nextPage, rows>>
     \/ Forget
  /\ UNCHANGED <<arrived, owed, iban, document, reading>>

(***************************************************************************)
(* GeneratePAIN001                                                         *)
(***************************************************************************)
\* The amount is that of the invoice, not the balance that was listed with it.
toPendingInvoice(p) == Total(p.row.bill)
sumAmounts(payments) == MapThenSumSet(toPendingInvoice, payments)

buildPmtInf(ccy, payments) ==
  [currency |-> ccy, payments |-> payments, txs |-> Cardinality(payments),
   sum |-> sumAmounts(payments), sepa |-> ccy = "EUR"]

Currencies(payments) == {CurrencyOf(p.row.bill) : p \in payments}
Blocks(payments) ==
  {buildPmtInf(c, {p \in payments : CurrencyOf(p.row.bill) = c}) : c \in Currencies(payments)}

PAIN001(payments) ==
  [blocks |-> Blocks(payments), txs |-> Cardinality(payments), sum |-> sumAmounts(payments)]

\* No file at all of no invoices, or when one amount is not positive.
GeneratePAIN001 ==
  /\ making = "generate"
  /\ \/ pending # {} /\ (\A p \in pending : toPendingInvoice(p) > 0) /\ document' = PAIN001(pending)
     \/ (pending = {} \/ \E p \in pending : toPendingInvoice(p) = 0) /\ UNCHANGED document
  /\ Forget
  /\ UNCHANGED <<arrived, owed, iban, reading>>

-----------------------------------------------------------------------------
FileNext ==
  \/ \E b \in Bills : Arrives(b) \/ IsPaid(b)
  \/ \E row \in bare : Enrich(row)
  \/ \E s \in Payees, a \in Accounts \cup {NoAccount} : EditAccount(s, a)
  \/ UnpaidBills \/ PageFails \/ GeneratePAIN001

FileSpec == FileInit /\ [][FileNext]_fileVars

-----------------------------------------------------------------------------
(***************************************************************************)
(* Properties                                                              *)
(***************************************************************************)

Instructed == UNION {k.payments : k \in document.blocks}

\* The file as the bank reads it: its totals are those of its blocks and theirs
\* those of its payments, a block for each currency and none in SEK; all invoices
\* of a supplier to one account, however often the details were edited while it
\* was made.
FileIsConsistent ==
  /\ document.txs = Cardinality(Instructed)
  /\ document.txs = MapThenSumSet(LAMBDA k : k.txs, document.blocks)
  /\ document.sum = MapThenSumSet(LAMBDA k : k.sum, document.blocks)
  /\ \A k, m \in document.blocks : k.currency = m.currency => k = m
  /\ \A k \in document.blocks : k.currency # "SEK" /\
       \A p \in k.payments : CurrencyOf(p.row.bill) = k.currency /\ Total(p.row.bill) > 0
  /\ \A p, q \in Instructed : PayeeOf(p.row.bill) = PayeeOf(q.row.bill) => p.account = q.account

\* The pages of a listing are read one by one: a file pays no invoice twice,
\* unless the pages it was read from shifted meanwhile. Those that came or went
\* behind the pages already read do not count.
NothingTwice == ~shifted => \A p, q \in Instructed : p.row.bill = q.row.bill => p = q

\* "A batch silently missing a payment leaves a supplier unpaid with nothing to
\* say so": a file that is made has every foreign invoice that was owed when the
\* last page was read, unless its supplier had no account, or got one since, or
\* the pages shifted.
NothingMissing ==
  (document # NoFile /\ making = "idle" /\ ~shifted) =>
    \A b \in payable : IsForeignCurrency(b) =>
      \/ b \in {p.row.bill : p \in Instructed}
      \/ iban[PayeeOf(b)] = NoAccount \/ PayeeOf(b) \in unread

\* domain/invoice.go: the Balance is "the figure a payment should instruct".
NeverOverpays == \A p \in Instructed : toPendingInvoice(p) <= p.row.balance

\* A file that can be handed to the bank: what is in it agrees and is in it once,
\* and what should be in it is.
FileIsRight == FileIsConsistent /\ NothingTwice /\ NothingMissing
=============================================================================
