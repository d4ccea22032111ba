SPECIFICATION FairSpec
CONSTANTS
  Kind = "logs"
  MaxEntries = 3
  RedisMayFail = TRUE
INVARIANTS NeverSendsOnClosed
PROPERTIES HandlerEnds CallEnds EntriesAreShown
