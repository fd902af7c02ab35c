\* What a payment instructs against what is left to pay.
CONSTANTS
  s1 = s1  c1 = c1  j1 = j1  d1 = d1  a1 = a1
  Suppliers <- OneSupplier
  Customers <- OneCustomer
  Projects <- OneProject
  CostCentres <- OneCostCentre
  Assets <- OneAsset
  Settled <- OneCustomer
  Room = 1
  Copies = 2
  MaxBeside = 1
  MaxOpen = 2
  k1 = k1  k2 = k2
  Jobs <- TwoJobs
  MaxGrant = 2
  MaxGen = 2
  b1 = b1  b2 = b2  h1 = h1  h2 = h2
  Browsers <- TwoBrowsers
  Callbacks <- TwoCallbacks
  Spellings <- ThreeSpellings
  Normal <- Lower
  MaxLogins = 2
  l1 = l1  l2 = l2
  SupplierKeys <- OneKey
  Lookups <- TwoLookups
  TTL = 2
  Timeout = 1
  MaxVersion = 2
  MaxTime = 5
  v1 = v1  v2 = v2
  Posts <- TwoPosts
  MaxTries = 3
  MaxRotation = 3
  Rules <- TwoRules
  Severity <- Sev
  Threshold = 3
  Strange = "odd"
  MaxRuns = 2
  t1 = t1  ghost = ghost
  Tools <- OneTool
  NoSuchTool = ghost
  MaxTurns = 5
  MaxCalls = 2
  MaxExchanges = 1
  SupplierInvoices <- ThreeSupplierInvoices
  CustomerInvoices <- TwoCustomerInvoices
  PartyOf <- Party
  MoneyOf <- Money
  AmountOf <- Worth
  DueOf <- Due
  DatedOf <- Dated
  Unread = 0
  FirstDay = 100
  LastDay = 102
  p1 = p1  p2 = p2  i1 = i1  i2 = i2
  Bills <- FourBills
  PageRows = 1
  Payees <- TwoPayees
  PayeeOf <- Payee
  CurrencyOf <- Ccy
  Total <- BillTotal
  Accounts <- TwoAccounts
  Entries <- FourEntries
  Day <- DayOf
  Corrections <- CorrectionsOf
  RowsAt <- RowsOf
  Years <- TwoYears
  From <- FirstOf
  To <- LastOf
  Chart <- SomeAccounts
  ap1 = ap1  ar1 = ar1
  Payables <- OnePayable
  Receivables <- OneReceivable
  Amount = 2
  Undated = 9999
  Age <- DaysDue
SPECIFICATION Spec
SYMMETRY Symmetry
CONSTRAINT Sighted
INVARIANTS NeverOverpays
CHECK_DEADLOCK FALSE
