SPECIFICATION Spec
CONSTANTS
  Request = {r1, r2, r3}
  Resource = "database"
  Hazard = {"podDeath"}
SYMMETRY RequestSymmetry
INVARIANTS InfraShowsLatestOperation RowsFollowStatus
