SPECIFICATION MCSpec
CONSTANTS
  Owned = t1
  Owner = u1
  Users = {u1, u2}
  Tags = {t1, t2}
  Rows = {q1}
  Intents = {i1, i2}
  Calls = {c1, c2}
  Appliers = {a1, a2}
  Admins = {d1}
  NoUser = NoUser
  NoTag = NoTag
  NoRow = NoRow
  NoIntent = NoIntent
  MaxFaults = 1
  MaxMoves = 1
SYMMETRY SlotSymmetry
INVARIANTS
  Inv
  ChargedOnce
CHECK_DEADLOCK FALSE
