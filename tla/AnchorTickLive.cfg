SPECIFICATION MCLiveSpec
CONSTANTS
  Proofs = {p1}
  Txs = {t1, t2, t3, t4}
  NoTx = NoTx
  Ticks = {k1}
  Modes = {"daily_batch"}
  MaxBatch = 2
  MaxFaults = 1
PROPERTIES
  AnchoringEnds
CHECK_DEADLOCK FALSE
