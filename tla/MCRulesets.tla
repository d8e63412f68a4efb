----------------------------- MODULE MCRulesets -----------------------------
EXTENDS Rulesets, TLC

Symmetry == Permutations(Rows) \cup Permutations(Publishers)
=============================================================================
