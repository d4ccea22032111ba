SPECIFICATION FairSpec
CONSTANTS
  LastOperation = 1
  Resource = {a}
  Kept = {"created"}
  ReadCount = 2
  MaxLines = 1
  MaxFaults = 1
  Hazard = {"restart"}
PROPERTIES ListenerGetsThrough
CHECK_DEADLOCK FALSE
