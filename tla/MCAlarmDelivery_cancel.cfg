CONSTANTS
  N = 1
  Polid = {p1}
  Cap = 1
  MaxRow = 2
  MaxDrop = 1
  MaxFail = 1
  MaxBoot = 1
SPECIFICATION FairSpec
INVARIANTS
  CancelStands
