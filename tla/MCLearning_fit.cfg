CONSTANTS
  f1 = f1
  s1 = s1
  Findings = {f1}
  Subjects = {s1}
  Subject <- OneFinding
  Actions = {"override_pass"}
  MinSamples = 1
  MaxSamples = 2
  MaxDecisions = 3
  MaxFailures = 1
SPECIFICATION Spec
INVARIANTS TypeOK LastWordOrRival DroppedEventsWereTold UndisturbedFitIsCurrent
CHECK_DEADLOCK FALSE
