SPECIFICATION Spec
CONSTRAINT SpareUnclaimed
CONSTANTS
  spare = chip2
  Users = {alice, bob}
  Tags = {chip1, chip2}
  Transfers = {x1, x2}
  Intents = {}
  Requests = {r1, r2}
  NoUser = NoUser
  NoTag = NoTag
  NoTransfer = NoTransfer
  NoIntent = NoIntent
SYMMETRY TokenSymmetry
PROPERTIES
  TransferIsByOwner
CHECK_DEADLOCK FALSE
