SPECIFICATION Spec
CONSTANTS
  Request = {r1, r2}
  Resource = "cluster"
  Hazard = {"impatient", "slowSave", "failure", "podDeath"}
SYMMETRY RequestSymmetry
INVARIANTS OneOperationInProgress
