------------------------------- MODULE Scopes -------------------------------
(***************************************************************************)
(* Which rules bind an asset: the packs a brand inherits, the scope        *)
(* lattice, and the choice of one rule per key, most specific wins         *)
(* (inherited-rules.ts, specificity.ts), as the control plane decides it;  *)
(* and the engine's own, second test of a rule's scope (pipeline.py).      *)
(***************************************************************************)
EXTENDS Integers, FiniteSets, SequencesExt

CONSTANTS
    Packs,      \* shipped rule packs
    DefaultOn,  \* those enabled for a brand that has not decided
    Own,        \* stands for the pack of a rule that is the brand's own
    Wild,       \* the value "*" of a scope
    Unset       \* a coordinate that the asset does not carry

ASSUME PacksAssumption == DefaultOn \subseteq Packs /\ Own \notin Packs /\ Wild # Unset

Axes == {"subBrands", "markets", "channels", "assetTypes", "campaigns"}

(* Mutant: every constrained axis counts the same.                         *)
EqualWeight(axis) == 1
Weight(axis) ==
    CASE axis = "subBrands"  -> 1
      [] axis = "markets"    -> 10
      [] axis = "channels"   -> 100
      [] axis = "assetTypes" -> 1000
      [] axis = "campaigns"  -> 10000

-----------------------------------------------------------------------------
(* A brand without a decision on a pack takes the pack's default.          *)
Inherits(decided, pack) ==
    IF pack \in DOMAIN decided THEN decided[pack] ELSE pack \in DefaultOn

(* The rows that compile reads: the brand's rules and those it inherits.   *)
Compiled(rows, decided) == {r \in rows : r.pack = Own \/ Inherits(decided, r.pack)}

-----------------------------------------------------------------------------
IsWildcard(values) == values = {} \/ values = {Wild}

Constrained(scope) == {axis \in Axes : ~IsWildcard(scope[axis])}

(* The weights of the constrained axes, added up.                          *)
Specificity(scope) ==
    LET Part(axis) == IF axis \in Constrained(scope) THEN Weight(axis) ELSE 0
    IN  Part("subBrands") + Part("markets") + Part("channels")
            + Part("assetTypes") + Part("campaigns")

(* An axis that the asset does not carry admits no rule that names it.     *)
ScopeMatches(scope, asset) ==
    \A axis \in Constrained(scope) : asset[axis] # Unset /\ asset[axis] \in scope[axis]

(* compareRules(a, b) < 0.  The key is the same wherever it is called.     *)
Beats(a, b) ==
    LET sa == Specificity(a.scope)
        sb == Specificity(b.scope)
    IN  \/ sa > sb
        \/ /\ sa = sb
           /\ \/ a.pack = Own /\ b.pack # Own
              \/ /\ (a.pack = Own) = (b.pack = Own)
                 /\ \/ a.version > b.version
                    \/ a.version = b.version /\ a.at > b.at

(* One row of the snapshot against the winners so far.                     *)
Consider(winners, r, asset) ==
    LET current == {w \in winners : w.key = r.key}
    IN  IF ScopeMatches(r.scope, asset) /\ \A w \in current : Beats(r, w)
        THEN (winners \ current) \cup {r}
        ELSE winners

(* winners[i]: those among the first i rows.                               *)
ResolveByKey(snapshot, asset) ==
    LET winners[i \in 0..Len(snapshot)] ==
            IF i = 0 THEN {} ELSE Consider(winners[i - 1], snapshot[i], asset)
    IN  winners[Len(snapshot)]

(* The snapshot is sorted by key and version.                              *)
InSnapshotOrder(seq) ==
    \A i, j \in DOMAIN seq : i < j =>
        \/ seq[i].key < seq[j].key
        \/ seq[i].key = seq[j].key /\ seq[i].version <= seq[j].version

-----------------------------------------------------------------------------
(* What the engine knows of an asset and looks at in a scope.  It takes a  *)
(* coordinate that is missing for one that fits, and "*" for a value.      *)
EngineAxes == {"markets", "channels", "assetTypes"}

(* Mutant: a coordinate that is missing does not fit.                      *)
RuleInScopeStrict(scope, asset) ==
    \A axis \in EngineAxes : scope[axis] = {} \/ asset[axis] \in scope[axis]
RuleInScope(scope, asset) ==
    \A axis \in EngineAxes :
        scope[axis] = {} \/ asset[axis] = Unset \/ asset[axis] \in scope[axis]
=============================================================================
