\* Two instances; the operator may check, try and deploy in any way.
SPECIFICATION FairSpec
CONSTANTS
  i1 = i1  i2 = i2
  Instances = {i1, i2}
  Modes = {"dry_run", "check", "plain", "upgrade"}
  MaxFailures = 2
INVARIANTS TypeOK UpgradedBeforeRestart
PROPERTY RolloutCompletes
