\* Two overlapping runs, each of either build; new vouchers are listed anywhere.
CONSTANTS
  r1 = r1  r2 = r2
  Requests <- TwoRequests
  Builds <- TwoBuilds
  Vouchers <- ThreeVouchers
  PageSize = 1
SPECIFICATION Spec
SYMMETRY Symmetry
INVARIANTS FreshComplete ServedByThisBuild
