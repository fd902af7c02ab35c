--------------------------- MODULE MCVoucherCache ---------------------------
(***************************************************************************)
(* Instances of VoucherCache: three vouchers on pages of one, so that a    *)
(* year has up to three pages, grows while it is read, and a voucher can   *)
(* join the pages already read.                                            *)
(***************************************************************************)
EXTENDS VoucherCache, TLC

CONSTANTS r1, r2

TwoRequests == {r1, r2}
TwoBuilds == {1, 2}
ThreeVouchers == 1..3

Symmetry == Permutations(TwoRequests)
=============================================================================
