SPECIFICATION Spec
CONSTANTS
  Change = {c1, c2}
  Job = {j1}
  Keep = 2
  Initial = Initial
  Pausing = {FALSE}
  Hazard = {"failure", "crash", "removed"}
  MaxInFlight = 2
SYMMETRY Symmetric
INVARIANTS   RecordsOwn UpgradesFromView DeployKeepsSettings KeptOrBackedUp
CHECK_DEADLOCK FALSE
