----------------------------- MODULE MCCheckRuns ----------------------------
(* Values for the runs of CheckRuns: one rule that needs the judge (j) and *)
(* one that does not (d).                                                  *)
EXTENDS CheckRuns, TLC

CONSTANTS c1, c2, w1, w2, k1, k2, h1, h2, d, j

(* Two rulesets with the judged rule; or of which the second has dropped   *)
(* it.                                                                     *)
Sharing == (h1 :> {j}) @@ (h2 :> {j})
Narrowing == (h1 :> {d, j}) @@ (h2 :> {d})

Ask(pin, partial, force, async) ==
    [pin |-> pin, partial |-> partial, force |-> force, async |-> async]

Plain == Ask(NoRuleset, FALSE, FALSE, FALSE)
Queued == Ask(NoRuleset, FALSE, FALSE, TRUE)
Pinned == Ask(h1, FALSE, FALSE, TRUE)
PinnedAgain == Ask(h1, FALSE, TRUE, FALSE)
Partial == Ask(NoRuleset, TRUE, FALSE, FALSE)

InTheRequest == {Plain, PinnedAgain}
EachWay == {Partial, Queued, Pinned}
=============================================================================
