SPECIFICATION Spec
CONSTANTS
  Proofs = {p1}
  Txs = {t1, t2}
  NoTx = NoTx
  Ticks = {k1, k2}
  Modes = {"daily_batch", "per_event"}
  MaxBatch = 2
  MaxFaults = 1
SYMMETRY SlotSymmetry
INVARIANTS
  Inv
  StampIsTrue
  AlertsAreRight
PROPERTIES
  ImplementsLedger
CHECK_DEADLOCK FALSE
