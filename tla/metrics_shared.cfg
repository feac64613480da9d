\* Two processes set the same gauge.
SPECIFICATION FairSpec
CONSTANTS
  p1 = p1  p2 = p2
  Processes = {p1, p2}
  MaxWrites = 1
  MaxExits = 0
  MaxFailures = 0
PROPERTY KeptFresh
CHECK_DEADLOCK FALSE
