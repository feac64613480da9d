\* A provider that may replace the refresh token on every use.
SPECIFICATION Spec
CONSTANTS
  w1 = w1  w2 = w2  c1 = c1  c2 = c2  s1 = s1  s2 = s2
  Workers = {w1, w2}
  Clients = {c1}
  Secrets = {s1, s2}
  SecretOf <- MCSecretOf
  NoRow = NoRow
  Revoked = Revoked
  TotalRetries = 1
  LegacyRows = FALSE
  MaxRefresh = 3
  Renewals = {"omit", "echo", "rotate"}
  RetryStatusCodes = {503}
  UnavailableStatusCodes = {429, 503}
  ErrorTypes <- MCErrorTypes
  FailureStatuses = {200, 503}
  FailureErrors = {"errorTransient"}
  ContradictoryStatuses = {503}
PROPERTIES NeverGoesBack IssuedTokenIsKept
SYMMETRY WorkerSymmetry
