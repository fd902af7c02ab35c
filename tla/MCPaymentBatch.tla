--------------------------- MODULE MCPaymentBatch ---------------------------
(***************************************************************************)
(* Instances of PaymentBatch: a batch of up to two invoices, so that part  *)
(* of it can fail; counters that reach two are enough to see a repetition. *)
(***************************************************************************)
EXTENDS PaymentBatch, TLC

CONSTANTS p1, p2, b1, i1, i2

OneOperator == {p1}
TwoOperators == {p1, p2}
OneBatch == {b1}
OneInvoice == {i1}
TwoInvoices == {i1, i2}

NoFaults == {}
AllFaults == {"pisp", "erp", "db", "crash"}

Symmetry == Permutations(TwoOperators) \cup Permutations(TwoInvoices)
=============================================================================
