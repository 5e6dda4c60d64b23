SPECIFICATION MCSpec
CONSTANTS
  Bidders = {b1, b2}
  Txs = {t1}
  Settlers = {s1}
  Checkers = {c1, c2}
  Hooks = {h1}
  NoBidder = NoBidder
  NoTx = NoTx
  MaxBid = 1
  MaxFailures = 1
SYMMETRY CascadeSymmetry
INVARIANTS
  CascadeInv
  PenalisedOnce
  NoOfferDropped
PROPERTIES
  InTimeIsKept
CHECK_DEADLOCK FALSE
