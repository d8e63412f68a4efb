CONSTANTS
  a1 = a1
  b1 = b1
  b2 = b2
  c1 = c1
  c2 = c2
  w1 = w1
  w2 = w2
  Ids = {a1}
  Files = {b1, b2}
  Clients = {c1, c2}
  Workers = {w1, w2}
  Uploads <- MCUploads
  MaxRetries = 1
  MaxFailures = 1
  Provisional = Provisional
  Url = Url
  NoFile = NoFile
  Torn = Torn
  Absent = Absent
  Whole = Whole
SPECIFICATION FairSpec
INVARIANTS TypeOK ContentAddressed
PROPERTY IngestedInTheEnd
CHECK_DEADLOCK FALSE
