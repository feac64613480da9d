\* One process with two threads.
SPECIFICATION FairSpec
CONSTANTS
  t1 = t1  t2 = t2  k1 = k1  k2 = k2
  Environments <- MCEnvironments
  NoSettings = NoSettings
  MaxEdits = 1
  MaxExits = 1
  Threads = {t1, t2}
  Clients = {k1, k2}
  NoClient = NoClient
  NoRegistry = NoRegistry
  Requests <- MCRequests
  RetryStatusCodes = {503}
  UnavailableStatusCodes = {503}
  ErrorTypes <- MCErrorTypes
INVARIANTS TypeOK ServingIsReady LogNamesOwnClient RecordedAsSent ScrapeIsComplete
PROPERTIES EventuallyServes
