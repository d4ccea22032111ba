SPECIFICATION Spec
CONSTANTS
  App = {web, job}
  Linked = {web}
  Group = env
  NoContent = none
  Change = {c1, c2, c3}
  Operation = {"create", "add", "remove", "source", "rollback", "addGroup", "removeGroup", "upgrade", "group", "rename", "delete"}
  MaxInFlight = 2
  MayFail = TRUE
SYMMETRY ChangeSymmetry
INVARIANTS NumbersWithoutGap   DeployingIsUnderWay DeletedLeavesNothing
PROPERTIES RevisionsStay
CHECK_DEADLOCK FALSE
