SPECIFICATION FairSpec
CONSTANTS
  LastOperation = 2
  Resource = {a}
  Kept = {"created"}
  ReadCount = 2
  MaxLines = 1
  MaxFaults = 1
  Hazard = {"fault", "restart"}
INVARIANTS LogsKept StateKept
PROPERTIES AnnouncedIsCleanedUp
CHECK_DEADLOCK FALSE
