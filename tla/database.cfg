\* Two contexts, two client_ids that either may hit, and one second.
SPECIFICATION FairSpec
CONSTANTS
  c1 = c1  c2 = c2  i1 = i1  i2 = i2
  Contexts = {c1, c2}
  Ids = {i1, i2}
  Tokens = {a}
  a = a
  Null = Null
  NoRow = NoRow
  Unlocked = Unlocked
  Fraction = 2
  MaxClock = 2
INVARIANTS NoLockLeftBehind TimestampsInOrder
PROPERTIES Atomic OperationEnds
