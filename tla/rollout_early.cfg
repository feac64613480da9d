\* The operator always upgrades the database.
SPECIFICATION Spec
CONSTANTS
  i1 = i1  i2 = i2
  Instances = {i1, i2}
  Modes = {"check", "upgrade"}
  MaxFailures = 1
INVARIANT NewReleaseFindsItsColumns
SYMMETRY InstanceSymmetry
