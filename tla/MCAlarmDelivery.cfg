CONSTANTS
  N = 2
  Polid = {p1}
  Cap = 1
  MaxRow = 2
  MaxDrop = 1
  MaxFail = 0
  MaxBoot = 0
SPECIFICATION FairSpec
INVARIANTS
  ConfirmedWasReceived
PROPERTIES
  KeepsPromise
