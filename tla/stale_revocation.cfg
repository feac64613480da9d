\* Two handlers refresh the same grant at a rotating provider.
SPECIFICATION Spec
CONSTANTS
  w1 = w1  w2 = w2  c1 = c1  c2 = c2  s1 = s1  s2 = s2
  Workers = {w1, w2}
  Clients = {c1}
  Secrets = {s1, s2}
  SecretOf <- MCSecretOf
  NoRow = NoRow
  Revoked = Revoked
  TotalRetries = 1
  LegacyRows = FALSE
  MaxRefresh = 2
  Renewals = {"rotate"}
  RetryStatusCodes = {503}
  UnavailableStatusCodes = {429, 503}
  ErrorTypes <- MCErrorTypes
  FailureStatuses = {200, 401, 503}
  FailureErrors = {"errorTransient", "invalid_client"}
  ContradictoryStatuses = {503}
PROPERTIES DropsOnlyDeadTokens
SYMMETRY WorkerSymmetry
