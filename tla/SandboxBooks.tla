---------------------------- MODULE SandboxBooks ----------------------------
(***************************************************************************)
(* The fixtures of the test company: cmd/e2e-seed puts them into its books *)
(* and cmd/e2e-teardown takes them out as far as Fortnox allows, each run  *)
(* one program that may stop anywhere. Neither remembers anything between  *)
(* two runs but what the listings of Fortnox show. A listing is one page,  *)
(* whatever there is, and an error answer is read as an empty one: do      *)
(* returns every status, and the List functions of seed.go do not look at  *)
(* it. The runs of one CI job follow one another, and nothing keeps those  *)
(* of another job, on the same books, from coming between.                 *)
(***************************************************************************)
EXTENDS Naturals, FiniteSets

CONSTANTS
  Suppliers, Customers, Projects, CostCentres, Assets, \* names of fixtures
  Settled, \* the customers whose invoice the seed also pays
  Room,    \* how many fixtures of a kind one page of a listing holds at least
  Copies,  \* bound: records of one name that are ever created
  MaxOpen, \* bound: invoices of a record that are neither booked nor cancelled
  MaxBeside \* bound: requests of other jobs that are followed

ASSUME KindsAssumption ==
  /\ Suppliers \cap (Customers \cup Projects \cup CostCentres \cup Assets) = {}
  /\ Customers \cap (Projects \cup CostCentres \cup Assets) = {}
  /\ Projects \cap (CostCentres \cup Assets) = {} /\ CostCentres \cap Assets = {}
ASSUME SettledAssumption == Settled \subseteq Customers
ASSUME CopiesAssumption == Copies \in Nat \ {0}
ASSUME BoundsAssumption == MaxOpen \in Nat \ {0} /\ MaxBeside \in Nat /\ Room \in Nat

VARIABLES
  record,  \* Fortnox: the state of each record of a name
  open,    \* Fortnox: its invoices that are neither booked nor cancelled
  program, \* the running program, and
  step,    \*   where it is
  listed,  \*   the records its last listing showed, and
  inUse,   \*   those it showed as active
  number,  \*   the seed: the record it uses for a name, 0 for none
  todo,    \*   what is left of the loop
  hand,    \*   the record of the invoice in hand,
  paid,    \*   the records whose invoice it paid,
  said,    \*   and those whose invoice it reported as paid
  blind,   \* history: a listing showed less than there was, or an error was
           \*   read as paid
  warned,  \* history: records with an invoice a teardown could not cancel
  beside   \* history: requests of the programs of other jobs

books == <<record, open>>
loop == <<listed, inUse, number, todo>>
invoice == <<hand, paid, said>>
history == <<blind, warned, beside>>
sandboxVars == <<books, program, step, loop, invoice, history>>

Fixtures == Suppliers \cup Customers \cup Projects \cup CostCentres \cup Assets
Records == Fixtures \X (1..Copies)
NoRecord == <<>>
Programs == {"seed", "teardown"}

\* Where the programs are: listing, setting up or removing the records of one
\* kind, or at an invoice of one.
Sections == {"suppliers", "customers", "projects", "cost centres", "assets"}
Steps == Sections \X {"list", "records", "invoices", "bookkeep", "pay", "register",
                      "bookkeep payment"}
Rest == <<"none", "rest">>
Complete == <<"none", "complete">>

SandboxTypeOK ==
  /\ record \in [Records -> {"none", "active", "retired"}]
  /\ open \in [Records -> 0..MaxOpen]
  /\ program \in Programs \cup {"none"} /\ step \in Steps \cup {Rest, Complete}
  /\ listed \subseteq Records /\ inUse \subseteq listed
  /\ number \in [Fixtures -> 0..Copies]
  /\ todo \subseteq Fixtures \cup Records
  /\ hand \in Records \cup {NoRecord}
  /\ paid \subseteq Records /\ said \subseteq Records
  /\ blind \in BOOLEAN /\ warned \subseteq Records /\ beside \in [Programs -> Nat]

SandboxInit ==
  /\ record = [r \in Records |-> "none"]
  /\ open = [r \in Records |-> 0]
  /\ listed = {} /\ inUse = {} /\ todo = {} /\ paid = {} /\ said = {} /\ warned = {}
  /\ program = "none" /\ step = Rest /\ hand = NoRecord
  /\ number = [i \in Fixtures |-> 0]
  /\ blind = FALSE /\ beside = [p \in Programs |-> 0]

Present(names) == {r \in names \X (1..Copies) : record[r] # "none"}
Goto(section, at) == step' = <<section, at>>

(***************************************************************************)
(* seed.go: what a request does to the books.                              *)
(***************************************************************************)
Set(r, to) == record' = [record EXCEPT ![r] = to]

IsNew(r) == record[r] = "none" /\ \A n \in 1..(r[2] - 1) : record[<<r[1], n>>] # "none"

\* Fortnox numbers these itself: one more record of a name is never refused.
CreateSupplier(r) == IsNew(r) /\ Set(r, "active")
CreateCustomer(r) == IsNew(r) /\ Set(r, "active")
CreateProject(r) == IsNew(r) /\ Set(r, "active")
\* The code and the number are the caller's, and taken while in use.
CreateCostCenter(r) == Present({r[1]}) = {} /\ IsNew(r) /\ Set(r, "active")
CreateAsset(r) == Present({r[1]}) = {} /\ IsNew(r) /\ Set(r, "active")

ActivateSupplier(r) == Set(r, "active")
DeactivateSupplier(r) == Set(r, "retired")
SetCustomerActive(r, to) == Set(r, IF to THEN "active" ELSE "retired")
SetCostCenterActive(r, to) == Set(r, IF to THEN "active" ELSE "retired")
\* "active" stands for the status of the fixture, "retired" for COMPLETED.
SetProjectStatus(r, to) == Set(r, to)
\* Deleted or voided: it is listed no longer.
DeleteAsset(r) == Set(r, "none")

MutActiveSuppliers == {r \in Present(Suppliers) : record[r] = "active"}
ListSuppliers == Present(Suppliers)
\* Active ones only: Fortnox does not list the others.
ListCustomers == {r \in Present(Customers) : record[r] = "active"}
ListProjectsByPrefix == Present(Projects)
ListCostCentersByPrefix == Present(CostCentres)
ListAssetsByPrefix == Present(Assets)

Open(r) == open[r] < MaxOpen /\ open' = [open EXCEPT ![r] = @ + 1]
Closed(r) == open[r] > 0 /\ open' = [open EXCEPT ![r] = @ - 1]

CreateSupplierInvoice(r) == Open(r)
CreateCustomerInvoice(r) == Open(r)
BookkeepSupplierInvoice(r) == Closed(r)
BookkeepCustomerInvoice(r) == Closed(r)
\* How many of the open ones one page shows, which the booked and the cancelled
\* ones may fill: any number of them.
ListSupplierInvoicesBySupplier(r) == 0..open[r]
ListCustomerInvoicesByCustomer(r) == 0..open[r]
CancelSupplierInvoice(r) == Closed(r)
CancelCustomerInvoice(r) == Closed(r)

(***************************************************************************)
(* Both programs                                                           *)
(***************************************************************************)
\* The mode and the company are checked before a client that can write exists:
\* a run on any other company ends here.
Begin(p) ==
  /\ program = "none"
  /\ program' = p /\ Goto("suppliers", "list")
  /\ listed' = {} /\ inUse' = {} /\ todo' = {} /\ paid' = {} /\ said' = {}
  /\ number' = [i \in Fixtures |-> 0]
  /\ UNCHANGED <<books, hand, history>>

\* An error of the seed, or of a listing: os.Exit. Or the program is killed.
Exit ==
  /\ program # "none"
  /\ program' = "none" /\ step' = Rest /\ hand' = NoRecord
  /\ listed' = {} /\ inUse' = {} /\ todo' = {} /\ paid' = {} /\ said' = {}
  /\ number' = [i \in Fixtures |-> 0]
  /\ UNCHANGED <<books, history>>

\* What one page of a listing of all these shows: where they are more than it
\* has room for, no matter which.
OnePage(all) == {s \in SUBSET all : s = all \/ Cardinality(s) >= Room}

\* The answer to a listing: a page of what there is, or an error read as nothing.
Listing(section, next, all) ==
  /\ step = <<section, "list">>
  /\ listed' \in OnePage(all) \cup {{}}
  /\ inUse' = {r \in listed' : record[r] = "active"}
  /\ blind' = (blind \/ listed' # all)
  /\ Goto(section, next)
  /\ UNCHANGED <<books, program, number, invoice, warned, beside>>

(***************************************************************************)
(* cmd/e2e-seed                                                            *)
(***************************************************************************)
Seeding(section, at) == program = "seed" /\ step = <<section, at>>

\* The index name -> number: the last record of a name that is listed wins.
Found(i) == {n \in 1..Copies : <<i, n>> \in listed}
Use(i, n) == number' = [number EXCEPT ![i] = n]

Each(x) == x \in todo /\ todo' = todo \ {x}

\* The loop is over: on to the next one.
Through(section, at, next, names) ==
  /\ step = <<section, at>> /\ todo = {}
  /\ step' = next /\ todo' = names
  /\ UNCHANGED <<books, program, listed, inUse, number, invoice, history>>

\* One record of the loop: nothing but the books and the index changes.
SetUp(section, i) ==
  /\ Seeding(section, "records") /\ Each(i)
  /\ UNCHANGED <<open, program, step, listed, inUse, invoice, history>>

MutSkipFound(i) ==
  /\ SetUp("suppliers", i)
  /\ \/ \E n \in Found(i) : UNCHANGED record /\ Use(i, n)
     \/ Found(i) = {} /\ \E n \in 1..Copies : CreateSupplier(<<i, n>>) /\ Use(i, n)

SetUpSupplier(i) ==
  /\ SetUp("suppliers", i)
  /\ \/ \E n \in Found(i) : ActivateSupplier(<<i, n>>) /\ Use(i, n)
     \/ Found(i) = {} /\ \E n \in 1..Copies : CreateSupplier(<<i, n>>) /\ Use(i, n)

SetUpCustomer(i) ==
  /\ SetUp("customers", i)
  /\ \/ \E n \in Found(i) : SetCustomerActive(<<i, n>>, TRUE) /\ Use(i, n)
     \/ Found(i) = {} /\ \E n \in 1..Copies : CreateCustomer(<<i, n>>) /\ Use(i, n)

SetUpProject(i) ==
  /\ SetUp("projects", i)
  /\ \/ \E n \in Found(i) : SetProjectStatus(<<i, n>>, "active")
     \/ Found(i) = {} /\ \E n \in 1..Copies : CreateProject(<<i, n>>)
  /\ UNCHANGED number

SetUpCostCenter(i) ==
  /\ SetUp("cost centres", i)
  /\ \/ \E n \in Found(i) : SetCostCenterActive(<<i, n>>, TRUE)
     \/ Found(i) = {} /\ \E n \in 1..Copies : CreateCostCenter(<<i, n>>)
  /\ UNCHANGED number

SetUpAsset(i) ==
  /\ SetUp("assets", i)
  /\ \/ Found(i) # {} /\ UNCHANGED record
     \/ Found(i) = {} /\ \E n \in 1..Copies : CreateAsset(<<i, n>>)
  /\ UNCHANGED number

\* One invoice for each supplier, booked at once.
InvoiceSupplier(i) ==
  /\ Seeding("suppliers", "invoices") /\ Each(i)
  /\ hand' = <<i, number[i]>> /\ CreateSupplierInvoice(hand')
  /\ Goto("suppliers", "bookkeep")
  /\ UNCHANGED <<record, program, listed, inUse, number, paid, said, history>>

BookkeepAP ==
  /\ Seeding("suppliers", "bookkeep")
  /\ BookkeepSupplierInvoice(hand) /\ hand' = NoRecord
  /\ Goto("suppliers", "invoices")
  /\ UNCHANGED <<record, program, loop, paid, said, history>>

InvoiceCustomer(i) ==
  /\ Seeding("customers", "invoices") /\ Each(i)
  /\ hand' = <<i, number[i]>> /\ CreateCustomerInvoice(hand')
  /\ Goto("customers", "bookkeep")
  /\ UNCHANGED <<record, program, listed, inUse, number, paid, said, history>>

BookkeepAR ==
  /\ Seeding("customers", "bookkeep")
  /\ BookkeepCustomerInvoice(hand)
  /\ \/ hand[1] \in Settled /\ Goto("customers", "pay") /\ UNCHANGED hand
     \/ hand[1] \notin Settled /\ Goto("customers", "invoices") /\ hand' = NoRecord
  /\ UNCHANGED <<record, program, loop, paid, said, history>>

\* FullyPayCustomerInvoice returns. An error is only a warning of the seed.
Reported ==
  /\ Goto("customers", "invoices") /\ hand' = NoRecord
  /\ UNCHANGED <<books, program, loop, warned, beside>>

\* The balance: zero for an invoice that is paid, and for an error answer.
ReadBalance ==
  /\ Seeding("customers", "pay")
  /\ \/ Goto("customers", "register") /\ UNCHANGED <<books, program, loop, invoice, history>>
     \/ Reported /\ said' = said \cup {hand} /\ blind' = TRUE /\ UNCHANGED paid
     \/ Reported /\ UNCHANGED <<paid, said, blind>>

RegisterPayment ==
  /\ Seeding("customers", "register")
  /\ \/ Goto("customers", "bookkeep payment") /\ UNCHANGED <<books, program, loop, invoice, history>>
     \/ Reported /\ UNCHANGED <<paid, said, blind>>

\* The payment counts once it is booked, whether or not the answer arrives.
BookkeepPayment ==
  /\ Seeding("customers", "bookkeep payment")
  /\ \/ Reported /\ paid' = paid \cup {hand} /\ said' = said \cup {hand} /\ UNCHANGED blind
     \/ Reported /\ paid' \in {paid, paid \cup {hand}} /\ UNCHANGED <<said, blind>>

SeedList(section, shown, names) ==
  /\ program = "seed"
  /\ Listing(section, "records", shown)
  /\ todo' = names

Seed ==
  \/ SeedList("suppliers", ListSuppliers, Suppliers)
  \/ \E i \in Suppliers : SetUpSupplier(i) \/ InvoiceSupplier(i)
  \/ program = "seed" /\ Through("suppliers", "records", <<"suppliers", "invoices">>, Suppliers)
  \/ BookkeepAP
  \/ program = "seed" /\ Through("suppliers", "invoices", <<"customers", "list">>, {})
  \/ SeedList("customers", ListCustomers, Customers)
  \/ \E i \in Customers : SetUpCustomer(i) \/ InvoiceCustomer(i)
  \/ program = "seed" /\ Through("customers", "records", <<"customers", "invoices">>, Customers)
  \/ BookkeepAR \/ ReadBalance \/ RegisterPayment \/ BookkeepPayment
  \/ program = "seed" /\ Through("customers", "invoices", <<"projects", "list">>, {})
  \/ SeedList("projects", ListProjectsByPrefix, Projects)
  \/ \E i \in Projects : SetUpProject(i)
  \/ program = "seed" /\ Through("projects", "records", <<"cost centres", "list">>, {})
  \/ SeedList("cost centres", ListCostCentersByPrefix, CostCentres)
  \/ \E i \in CostCentres : SetUpCostCenter(i)
  \/ program = "seed" /\ Through("cost centres", "records", <<"assets", "list">>, {})
  \/ SeedList("assets", ListAssetsByPrefix, Assets)
  \/ \E i \in Assets : SetUpAsset(i)
  \/ program = "seed" /\ Through("assets", "records", Complete, {})

(***************************************************************************)
(* cmd/e2e-teardown: a request that fails is a warning, and the loop goes  *)
(* on.                                                                     *)
(***************************************************************************)
TearingDown(section, at) == program = "teardown" /\ step = <<section, at>>

\* Every listed record has its invoices seen to; of projects and cost centres
\* those in use are taken out, of assets all.
TeardownList(section, at, all) ==
  /\ program = "teardown"
  /\ Listing(section, at, all)
  /\ todo' = IF section \in {"projects", "cost centres"} THEN inUse' ELSE listed'

\* The invoices of one record: booked ones are left alone, the others that the
\* page shows are cancelled one by one, all but those whose request fails. The
\* list may fail, or be an error read as empty.
CancelInvoices(section, r) ==
  /\ TearingDown(section, "invoices") /\ Each(r)
  /\ UNCHANGED <<record, program, step, listed, inUse, number, invoice, beside>>

Cancelled(r, shown, kept) ==
  /\ open' = [open EXCEPT ![r] = @ - shown + kept]
  /\ blind' = (blind \/ shown # open[r])

Warn(r, failed) == warned' = IF failed THEN warned \cup {r} ELSE warned \ {r}

CancelSupplierInvoices(r) ==
  /\ CancelInvoices("suppliers", r)
  /\ \/ \E shown \in ListSupplierInvoicesBySupplier(r) : \E kept \in 0..shown :
          Cancelled(r, shown, kept) /\ Warn(r, kept > 0)
     \/ UNCHANGED <<open, blind>> /\ Warn(r, TRUE)

CancelCustomerInvoices(r) ==
  /\ CancelInvoices("customers", r)
  /\ \/ \E shown \in ListCustomerInvoicesByCustomer(r) : \E kept \in 0..shown :
          Cancelled(r, shown, kept) /\ Warn(r, kept > 0)
     \/ UNCHANGED <<open, blind>> /\ Warn(r, TRUE)

\* One record of a loop, and whether the request succeeds.
TakeOut(section, r) ==
  /\ TearingDown(section, "records") /\ Each(r)
  /\ UNCHANGED <<open, program, step, listed, inUse, number, invoice, history>>

TearDownAP(r) == TakeOut("suppliers", r) /\ (DeactivateSupplier(r) \/ UNCHANGED record)
TearDownAR(r) == TakeOut("customers", r) /\ (SetCustomerActive(r, FALSE) \/ UNCHANGED record)
TearDownProject(r) == TakeOut("projects", r) /\ (SetProjectStatus(r, "retired") \/ UNCHANGED record)
TearDownCostCenter(r) ==
  TakeOut("cost centres", r) /\ (SetCostCenterActive(r, FALSE) \/ UNCHANGED record)
TearDownAsset(r) == TakeOut("assets", r) /\ (DeleteAsset(r) \/ UNCHANGED record)

\* The invoices of every listed record come before the records themselves, of
\* which only those listed as active are touched.
Teardown ==
  \/ TeardownList("suppliers", "invoices", ListSuppliers)
  \/ TeardownList("customers", "invoices", ListCustomers)
  \/ \E r \in Records :
       \/ CancelSupplierInvoices(r) \/ CancelCustomerInvoices(r)
       \/ TearDownAP(r) \/ TearDownAR(r) \/ TearDownProject(r) \/ TearDownCostCenter(r)
       \/ TearDownAsset(r)
  \/ /\ program = "teardown"
     /\ \/ Through("suppliers", "invoices", <<"suppliers", "records">>, inUse)
        \/ Through("suppliers", "records", <<"customers", "list">>, {})
        \/ Through("customers", "invoices", <<"customers", "records">>, inUse)
        \/ Through("customers", "records", <<"projects", "list">>, {})
        \/ Through("projects", "records", <<"cost centres", "list">>, {})
        \/ Through("cost centres", "records", <<"assets", "list">>, {})
        \/ Through("assets", "records", Complete, {})
  \/ TeardownList("projects", "records", ListProjectsByPrefix)
  \/ TeardownList("cost centres", "records", ListCostCentersByPrefix)
  \/ TeardownList("assets", "records", ListAssetsByPrefix)

(***************************************************************************)
(* The e2e jobs of other pushes, for which the workflow has no concurrency *)
(* group: each request is one of a seed or a teardown, which may have read *)
(* its listings at any time before.                                        *)
(***************************************************************************)
SeedRequest(r) ==
  \/ /\ UNCHANGED open
     /\ \/ r[1] \in Suppliers /\ CreateSupplier(r)
        \/ r[1] \in Customers /\ CreateCustomer(r)
        \/ r[1] \in Projects /\ CreateProject(r)
        \/ r[1] \in CostCentres /\ CreateCostCenter(r)
        \/ r[1] \in Assets /\ CreateAsset(r)
  \/ /\ UNCHANGED open /\ record[r] # "none"
     /\ \/ r[1] \in Suppliers /\ ActivateSupplier(r)
        \/ r[1] \in Customers /\ SetCustomerActive(r, TRUE)
        \/ r[1] \in Projects /\ SetProjectStatus(r, "active")
        \/ r[1] \in CostCentres /\ SetCostCenterActive(r, TRUE)
  \/ /\ UNCHANGED record /\ record[r] # "none"
     /\ \/ r[1] \in Suppliers /\ (CreateSupplierInvoice(r) \/ BookkeepSupplierInvoice(r))
        \/ r[1] \in Customers /\ (CreateCustomerInvoice(r) \/ BookkeepCustomerInvoice(r))

TeardownRequest(r) ==
  \/ /\ UNCHANGED open /\ record[r] # "none"
     /\ \/ r[1] \in Suppliers /\ DeactivateSupplier(r)
        \/ r[1] \in Customers /\ SetCustomerActive(r, FALSE)
        \/ r[1] \in Projects /\ SetProjectStatus(r, "retired")
        \/ r[1] \in CostCentres /\ SetCostCenterActive(r, FALSE)
        \/ r[1] \in Assets /\ DeleteAsset(r)
  \/ /\ UNCHANGED record
     /\ \/ r[1] \in Suppliers /\ CancelSupplierInvoice(r)
        \/ r[1] \in Customers /\ CancelCustomerInvoice(r)

Beside(p) ==
  /\ beside["seed"] + beside["teardown"] < MaxBeside
  /\ beside' = [beside EXCEPT ![p] = @ + 1]
  /\ UNCHANGED <<program, step, loop, invoice, blind, warned>>

OtherJob ==
  \E r \in Records : \/ Beside("seed") /\ SeedRequest(r)
                     \/ Beside("teardown") /\ TeardownRequest(r)

-----------------------------------------------------------------------------
SandboxNext ==
  \/ \E p \in Programs : Begin(p)
  \/ Seed \/ Teardown \/ Exit \/ OtherJob

SandboxSpec == SandboxInit /\ [][SandboxNext]_sandboxVars

-----------------------------------------------------------------------------
(***************************************************************************)
(* Properties                                                              *)
(***************************************************************************)

\* "Reactivate existing E2E suppliers, create missing ones": until a listing
\* shows less than there is, or the seed of another job comes between, no run,
\* however the ones before it ended and whatever the teardowns of other jobs do
\* meanwhile, creates a second record of a name, or for a customer, whom Fortnox
\* hides once inactive, a second active one.
OneRecordEach == blind \/ beside["seed"] > 0 \/
  \A r, q \in Records : (r # q /\ r[1] = q[1] /\ record[r] # "none" /\ record[q] # "none") =>
    r[1] \in Customers /\ (record[r] = "retired" \/ record[q] = "retired")

\* A seed that runs to its end leaves every fixture in place and active, whatever
\* the runs before it left behind, however little its listings showed and
\* whatever other seeds do meanwhile, if no teardown of another job does.
SeedComplete == beside["teardown"] > 0 \/
  ((program = "seed" /\ step = Complete) =>
     \A i \in Fixtures : \E n \in 1..Copies : record[<<i, n>>] = "active")

\* An open invoice of a customer who is not listed any more can never be
\* cancelled: none is left that way but by a teardown that said it failed, that
\* was shown less than there was, or that another job came between.
HiddenWasWarned == blind \/ (\E p \in Programs : beside[p] > 0) \/
  \A r \in Records : (open[r] > 0 /\ record[r] = "retired") => r \in warned

\* What the seed reports as paid is paid, unless it read an error as a balance.
SaidPaidIsPaid == blind \/ said \subseteq paid

\* The end-to-end tests look each fixture up by its name: they find one record,
\* never two, all of them after a seed, and paid what the seed says is paid.
FixturesInPlace == OneRecordEach /\ SeedComplete /\ SaidPaidIsPaid
=============================================================================
