\* One process with failing refreshes, which may stop or crash and is
\* started again.
SPECIFICATION FairSpec
CONSTANTS
  p1 = p1  p2 = p2
  Processes = {p1}
  MaxWrites = 3
  MaxExits = 2
  MaxFailures = 2
INVARIANTS NoWriteMissed NoWakeupLost
PROPERTIES StoppedStartsNothing KeptFresh
CHECK_DEADLOCK FALSE
