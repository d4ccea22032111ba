SPECIFICATION Spec
CONSTANTS
  App = {web}
  Linked = {}
  Group = env
  NoContent = none
  Change = {c1, c2, c3, c4}
  Operation = {"create", "source", "rollback"}
  MaxInFlight = 1
  MayFail = FALSE
SYMMETRY ChangeSymmetry
INVARIANTS RollbackRestores
CHECK_DEADLOCK FALSE
