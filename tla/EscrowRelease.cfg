SPECIFICATION FairSpec
CONSTANTS
  Releasers = {r1}
  Reconcilers = {c1}
  Admins = {a1}
  Buyers = {b1}
  MaxRequests = 3
  MaxFaults = 1
INVARIANTS
  Inv
  LeavesOnce
PROPERTIES
  NoPayoutInDispute
  HoldEnds
CHECK_DEADLOCK FALSE
