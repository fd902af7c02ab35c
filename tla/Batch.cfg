\* Two operators and every fault: failing bank, Fortnox and database calls, crashes.
\* Once every invoice is paid and every batch confirmed there is nothing left to do.
CONSTANTS
  p1 = p1  p2 = p2  b1 = b1  i1 = i1  i2 = i2
  Operators <- TwoOperators
  Batches <- OneBatch
  Invoices <- TwoInvoices
  Repo = "update"
  Faults <- AllFaults
  MaxConfirmations = 3
  Cap = 2
SPECIFICATION Spec
SYMMETRY Symmetry
INVARIANTS SubmitMovesDraft ExecutedOnce
PROPERTIES OkMeansBooked KeepsThePromise
CHECK_DEADLOCK FALSE
