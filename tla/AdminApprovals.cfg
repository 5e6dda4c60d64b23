SPECIFICATION MCSpec
CONSTANTS
  Super = super
  Staff = staff
  Other = other
  Accounts = {super, staff, other}
  NoOne = NoOne
  Roles = {"super_admin", "admin"}
  Approvals = {a1, a2}
  NoApproval = NoApproval
  Requests = {r1, r2}
  MaxCalls = 3
SYMMETRY SlotSymmetry
INVARIANTS
  Inv
  SomeoneManages
PROPERTIES
  AuthorityAtChange
  DecisionsAreFinal
CHECK_DEADLOCK FALSE
