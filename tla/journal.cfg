SPECIFICATION FairSpec
CONSTANTS
  c1 = c1
  c2 = c2
  Callers <- MCCallers
  Requests <- MCRequests
  Retries = 2
  MaxCrashes = 2
INVARIANTS
  OneRequestPerAttempt
  RetriedOnlyAfterError
  CallTerminalAgrees
  AnswerDeliveredOnce
  OneRequestIdentity
PROPERTY EventuallySettled
