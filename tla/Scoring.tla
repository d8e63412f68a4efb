------------------------------- MODULE Scoring ------------------------------
(***************************************************************************)
(* The score of a run (scoring.ts): arithmetic over its criteria.  A       *)
(* percentage is held in hundredths, the precision that round2 leaves.     *)
(***************************************************************************)
EXTENDS Integers, FiniteSets, Functions

CONSTANTS
    Dimensions,
    DimensionWeight,       \* dimensionWeights of the ruleset, 1 by default
    PassThreshold,         \* in hundredths, as is the next
    ConditionalThreshold

ASSUME ScoringAssumption ==
    /\ DimensionWeight \in [Dimensions -> Nat]
    /\ PassThreshold \in Nat /\ ConditionalThreshold \in Nat

Severities == {"blocker", "major", "minor", "advisory"}
Verdicts == {"pass", "fail", "not_applicable", "insufficient_evidence", "abstained"}
Decided == {"pass", "fail", "not_applicable"}
Abstained == {"abstained", "insufficient_evidence"}

SeverityWeight == [blocker |-> 4, major |-> 3, minor |-> 1, advisory |-> 0]

(* round2 of 100 * n / d, in hundredths: halves are rounded up.            *)
Percent(n, d) == (20000 * n + d) \div (2 * d)

(* round2 of a mean of such percentages.                                   *)
Mean(n, d) == (2 * n + d) \div (2 * d)

NoScore == -1

-----------------------------------------------------------------------------
(* A criterion is a record of rule, dimension, severity, verdict, weight.  *)
(* A weight below zero counts for nothing.                                 *)
Price(c) == (IF c.weight > 0 THEN c.weight ELSE 0) * SeverityWeight[c.severity]

Worth(criteria) == SumFunctionOnSet([c \in criteria |-> Price(c)], criteria)

(* Mutant: whatever was not passed has failed.                             *)
CountedAll(criteria) == {c \in criteria : Price(c) > 0}
Counted(criteria) == {c \in criteria : c.verdict \in {"pass", "fail"} /\ Price(c) > 0}

DimensionScore(criteria, d) ==
    LET possible == {c \in Counted(criteria) : c.dimension = d}
        earned == {c \in possible : c.verdict = "pass"}
    IN  Percent(Worth(earned), Worth(possible))

(* The dimensions that a mean is taken over.                               *)
Scored(criteria) == {d \in {c.dimension : c \in Counted(criteria)} : DimensionWeight[d] > 0}

Score(criteria) ==
    LET scored == Scored(criteria)
        weighted == [d \in scored |-> DimensionScore(criteria, d) * DimensionWeight[d]]
        sum == SumFunctionOnSet(weighted, scored)
        total == SumFunctionOnSet(DimensionWeight, scored)
    IN  IF scored = {} THEN NoScore ELSE Mean(sum, total)

Blocking(criteria) == {c \in criteria : c.verdict = "fail" /\ c.severity = "blocker"}

BandFor(score, hasBlocker) ==
    CASE hasBlocker -> "fail"
      [] ~hasBlocker /\ score = NoScore -> "none"
      [] ~hasBlocker /\ score >= PassThreshold -> "pass"
      [] ~hasBlocker /\ score \in ConditionalThreshold .. PassThreshold - 1 -> "conditional"
      [] OTHER -> "fail"

ScoreCriteria(criteria) ==
    LET score == Score(criteria)
        hasBlocker == Blocking(criteria) # {}
    IN  [score |-> score, band |-> BandFor(score, hasBlocker), hasBlocker |-> hasBlocker,
         total |-> Cardinality(criteria),
         evaluated |-> Cardinality({c \in criteria : c.verdict \in Decided}),
         abstained |-> Cardinality({c \in criteria : c.verdict \in Abstained})]
=============================================================================
