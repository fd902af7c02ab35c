\* The PostgreSQL repository: its Save only inserts.
\* Once every invoice is paid and every batch confirmed there is nothing left to do.
CONSTANTS
  p1 = p1  p2 = p2  b1 = b1  i1 = i1  i2 = i2
  Operators <- OneOperator
  Batches <- OneBatch
  Invoices <- OneInvoice
  Repo = "insert"
  Faults <- NoFaults
  MaxConfirmations = 1
  Cap = 2
SPECIFICATION Spec
INVARIANTS SubmitMovesDraft
CHECK_DEADLOCK FALSE
