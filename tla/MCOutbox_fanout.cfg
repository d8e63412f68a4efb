CONSTANTS
  e1 = e1
  e2 = e2
  p1 = p1
  p2 = p2
  r1 = r1
  r2 = r2
  Events = {e1}
  Endpoints = {p1, p2}
  Subscribed <- FanOut
  Relays = {r1, r2}
  NoEvent = NoEvent
  NoEndpoint = NoEndpoint
  MaxAttempts = 2
  BatchSize = 2
  MaxCrashes = 1
SPECIFICATION Spec
INVARIANTS TypeOK DispatchedMeansTold AttemptsAreBounded
PROPERTIES EveryPostIsNew
SYMMETRY RelaySymmetry
CHECK_DEADLOCK FALSE
