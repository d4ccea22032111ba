SPECIFICATION Spec
CONSTANTS
  App = {web, job}
  Change = {c1, c2, c3}
  Operation = {"update", "convert", "delete", "attach", "detach", "install", "uninstall", "upgrade"}
  OldValue = old
  NoValue = none
  MaxInFlight = 3
  MayFail = TRUE
SYMMETRY Symmetric
INVARIANTS SecretMatchesMap  MembersKept SyncedToLatest OneForm
PROPERTIES VersionsStay
CHECK_DEADLOCK FALSE
