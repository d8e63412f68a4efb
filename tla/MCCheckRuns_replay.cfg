CONSTANTS
  c1 = c1
  c2 = c2
  w1 = w1
  w2 = w2
  k1 = k1
  k2 = k2
  h1 = h1
  h2 = h2
  d = d
  j = j
  Runs = {k1, k2}
  Rulesets = {h1, h2}
  Rules = {d, j}
  Content <- Sharing
  Deterministic = {d}
  Verdicts = {"pass", "fail"}
  Clients = {c1, c2}
  Workers = {}
  Requests <- InTheRequest
  MaxWaiting = 1
  MaxCrashes = 0
  NoRun = NoRun
  NoRuleset = NoRuleset
SPECIFICATION Spec
INVARIANTS TypeOK ReplayIsBought
CHECK_DEADLOCK FALSE
