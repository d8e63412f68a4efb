CONSTANTS
  ApiCalls = {1, 2}
  ApiRetries = {0, 1}
  ApiFailureThreshold = 2
  ApiSuccessThreshold = 2
  ApiCooldown = 2
  WorkerCalls = {1}
  WorkerRetries = {1}
  WorkerFailureThreshold = 3
  WorkerCooldown = 2
SPECIFICATION FairOutageSpec
INVARIANTS ClientTypesOK ClosedIsClean
PROPERTIES Recovers ShieldsFromOutage
