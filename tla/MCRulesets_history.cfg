CONSTANTS
  Rows = {r1, r2}
  Keys = {"k"}
  Texts = {"t"}
  Editors = {e1}
  Fits = {TRUE}
  NoRow = NoRow
  NoText = NoText
  Publishers = {p1, p2}
  MaxRulesets = 2
SYMMETRY Symmetry
SPECIFICATION Spec
INVARIANTS TypeOK VersionsIdentify OneRulesetPerHash
PROPERTY KeepsPromise
CHECK_DEADLOCK FALSE
