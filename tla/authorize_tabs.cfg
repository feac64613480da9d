\* Two tabs, of one browser or of two.
SPECIFICATION Spec
CONSTANTS
  Tabs = {t1, t2}
  Browsers = {b1, b2}
  ClientIds = {i1, i2}
  NoClient = NoClient
  TotalRetries = 1
  ProviderErrors = {"access_denied"}
  Troubles <- MCTroubles
  MaxFlows = 2
  RetryStatusCodes = {503}
  UnavailableStatusCodes = {429, 503}
  ErrorTypes <- MCErrorTypes
INVARIANTS TypeOK OwnFlow ShownIsStored OneRowPerCode SpentStateIsGone
SYMMETRY Symmetry
