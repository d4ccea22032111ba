SPECIFICATION Spec
CONSTANTS
  Call = {c1, c2, c3}
  Run = {r1, r2}
  NoRun = NoRun
  Operation = {"opened", "synchronize", "closed", "edited", "enable", "reenable", "trigger", "delete", "deleteEnvironment"}
  MaxInFlight = 2
  MayFail = TRUE
SYMMETRY Symmetric
INVARIANTS ClosedStaysTornDown NamespaceIsOwned ActiveHasNamespace 
PROPERTIES OnlyReenableRevives
CHECK_DEADLOCK FALSE
