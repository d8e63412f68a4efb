CONSTANTS
  Rows = {r1}
  Keys = {"k"}
  Texts = {"t", "u"}
  Editors = {e1}
  Fits = {TRUE}
  NoRow = NoRow
  NoText = NoText
  Publishers = {p1}
  MaxRulesets = 2
SPECIFICATION Spec
PROPERTY PublishesWhatItCompiled
CHECK_DEADLOCK FALSE
