SPECIFICATION FairSpec
CONSTANTS
  Request = {r1, r2}
  Resource = "cluster"
  Hazard = {"overlap", "impatient", "slowSave"}
PROPERTIES OperationsEnd EndsAreAnnounced
