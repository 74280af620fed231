SPECIFICATION Spec
CONSTANTS
  Clients = {a, b}
  Ids = {i, j}
  MaxTries = 2
  MaxChanges = 1
  MaxRestarts = 1
  Wrong = Wrong
  Short = Short
  None = None
  Missing = Missing
  Corrupt = Corrupt
  MayFail = TRUE
SYMMETRY Symmetry
INVARIANTS
  TypeOK
  OnlyPinned
  ListedIsVerified
  FileAgrees
  PairedIsKept
CHECK_DEADLOCK FALSE
