SPECIFICATION MCSpec
CONSTANTS
  Tags = {chip1, chip2}
  NoTag = NoTag
  Sessions = {s1, s2}
  Requests = {r1, r2}
  MaxReads = 3
SYMMETRY SlotSymmetry
INVARIANTS
  TypeOK
  ReadProvesOnce
  LedgerIsComplete
PROPERTIES
  ClaimIsByLatestTap
CHECK_DEADLOCK FALSE
