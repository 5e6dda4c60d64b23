SPECIFICATION MCFairSpec
CONSTANTS
  alice = alice
  bob = bob
  Users = {alice, bob}
  Tags = {chip}
  Transfers = {x1}
  Intents = {i1}
  Requests = {r1}
  Appliers = {a1, a2}
  Admins = {root}
  NoUser = NoUser
  NoTag = NoTag
  NoTransfer = NoTransfer
  NoIntent = NoIntent
  MaxVouchers = 0
  KeyForgotten = TRUE
  LatePayment = TRUE
  Faults = TRUE
PROPERTIES
  PaidIsAccountedFor
CHECK_DEADLOCK FALSE
