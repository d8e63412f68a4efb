CONSTANTS
  c1 = c1
  c2 = c2
  w1 = w1
  w2 = w2
  k1 = k1
  k2 = k2
  h1 = h1
  h2 = h2
  d = d
  j = j
  Runs = {k1}
  Rulesets = {h1, h2}
  Rules = {d, j}
  Content <- Narrowing
  Deterministic = {d}
  Verdicts = {"pass"}
  Clients = {c1}
  Workers = {w1}
  Requests <- EachWay
  MaxWaiting = 1
  MaxCrashes = 1
  NoRun = NoRun
  NoRuleset = NoRuleset
SPECIFICATION FairSpec
INVARIANTS AnsweredInFull JudgedUnderPin
PROPERTIES EventuallyEnds KeepsPromise
CHECK_DEADLOCK FALSE
