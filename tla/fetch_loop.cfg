\* Two threads of one process share a budget of two retries.
SPECIFICATION TSpec
CONSTANTS
  t1 = t1  t2 = t2
  Threads = {t1, t2}
  NoBucket = NoBucket
  Second = 2
  TotalTimeout = 3
  TotalRetries = 2
  BackoffFactor = 1
  JitterMin = 50
  JitterMax = 150
  Capacity = 2
  Refill = 1
  Unit = 2
  Answers <- MCAnswers
  RetryAfters <- MCRetryAfters
  MaxFetches = 2
  RetryStatusCodes = {503}
  UnavailableStatusCodes = {503}
  ErrorTypes <- MCErrorTypes
INVARIANTS TypeOK RetriesWithinBudget EveryRetryIsPaid
           RetriesCountedWereSent EveryRefusalIsDecided
PROPERTIES NothingSentAfterDeadline RetryAfterIsFloor KeepsPromise FetchEnds
