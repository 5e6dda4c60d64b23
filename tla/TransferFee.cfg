SPECIFICATION MCSpec
CONSTANTS
  alice = alice
  bob = bob
  Users = {alice, bob}
  Tags = {chip}
  Transfers = {x1}
  Intents = {i1}
  Requests = {r1, r2}
  Appliers = {a1}
  Admins = {root}
  NoUser = NoUser
  NoTag = NoTag
  NoTransfer = NoTransfer
  NoIntent = NoIntent
  MaxVouchers = 1
  KeyForgotten = FALSE
  LatePayment = FALSE
  Faults = TRUE
SYMMETRY SlotSymmetry
INVARIANTS
  TypeOK
  PaidHasRecipient
  ResolvedWasApplied
  RefundUnlocks
PROPERTIES
  AdminHoldSurvivesPayment
  OwnershipMovesWithCompletion
  ImplementsLedger
