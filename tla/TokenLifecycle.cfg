SPECIFICATION Spec
CONSTRAINT SpareUnclaimed
CONSTANTS
  spare = chip2
  Users = {alice, bob}
  Tags = {chip1, chip2}
  Transfers = {x1, x2, x3}
  Intents = {}
  Requests = {r1, r2}
  NoUser = NoUser
  NoTag = NoTag
  NoTransfer = NoTransfer
  NoIntent = NoIntent
SYMMETRY TokenSymmetry
INVARIANTS
  TypeOK
  OwnedIffLive
  OnlyOwnersAct
PROPERTIES
  SuspensionEndsByAdmin
  RetiredIsFinal
  GainsAreExplained
CHECK_DEADLOCK FALSE
