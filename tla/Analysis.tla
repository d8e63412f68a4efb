------------------------------ MODULE Analysis ------------------------------
(***************************************************************************)
(* A check from the rules of the brand to its score: the control plane     *)
(* compiles, resolves and asks (ruleset-compiler.service.ts,               *)
(* inherited-rules.ts), the engine answers (Pipeline), the control plane   *)
(* scores and stores (scoring.ts, persist).  Replayed traces are in        *)
(* CheckRuns; here all rules are asked about.                              *)
(***************************************************************************)
EXTENDS Pipeline

CONSTANTS
    Rows,     \* rules and rule templates that may exist
    MaxRows,  \* how many a snapshot has at most: a bound of the model
    Assets    \* coordinates that an asset may have

ASSUME AnalysisAssumption ==
    /\ \A a \in Assets : DOMAIN a = Axes
    /\ \A r \in Rows : r.pack \in Packs \cup {Own} /\ r.dimension \in Dimensions

(* The tables of a brand are finite.                                       *)
ASSUME RowsAssumption == IsFiniteSet(Rows)

(* The analyzer of the overall judgment is one of the judge's.             *)
ASSUME RulesAssumption ==
    \A r \in Rows :
        /\ r.key \in Int /\ r.version \in Int /\ r.at \in Int /\ r.weight \in Int
        /\ r.severity \in Severities
        /\ r.tier \in DOMAIN Rank /\ r.fn \in DOMAIN Rank \cup {"unregistered"}
        /\ r.overall \in BOOLEAN /\ (r.overall => r.fn = "vlm")

VARIABLES
    snapshot,  \* the compiled ruleset
    run        \* the row of check_runs

vars == <<request, engineVars, snapshot, run>>

(* A brand may have decided on some packs and not on others.               *)
Decisions == UNION {[chosen -> BOOLEAN] : chosen \in SUBSET Packs}

Unscored == [status |-> "queued", score |-> NoScore, band |-> "none",
             hasBlocker |-> FALSE, total |-> 0, evaluated |-> 0, abstained |-> 0, cost |-> 0]

Init ==
    /\ asset \in Assets
    /\ provider \in BOOLEAN
    /\ \E rows \in SUBSET Rows, decided \in Decisions :
            snapshot = Compiled(rows, decided)
    /\ Cardinality(snapshot) <= MaxRows
    /\ run = Unscored
    /\ EngineInit

-----------------------------------------------------------------------------
(* Rows that tie in the order of a snapshot stay as the database returned  *)
(* them.  A run without rules ends at once; one of deterministic rules     *)
(* only forbids the engine to judge.                                       *)
Resolve ==
    /\ run.status = "queued"
    /\ \E rows \in {seq \in SetToSeqs(snapshot) : InSnapshotOrder(seq)} :
         LET resolved == ResolveByKey(rows, asset)
         IN  IF resolved = {}
             THEN /\ run' = [run EXCEPT !.status = "completed"]
                  /\ UNCHANGED <<request, engineVars>>
             ELSE /\ run' = [run EXCEPT !.status = "running"]
                  /\ Begin(resolved, \A r \in resolved : r.tier = "deterministic")
    /\ UNCHANGED snapshot

Criterion(r, verdict) ==
    [rule |-> r, dimension |-> r.dimension, severity |-> answer[r].severity,
     verdict |-> verdict, weight |-> r.weight]

Criteria == {Criterion(r, answer[r].verdict) : r \in DOMAIN answer}

(* The cost of a run is what its results cost.                             *)
Persist ==
    /\ run.status = "running" /\ Unanswered = {} /\ judging = {}
    /\ LET scored == ScoreCriteria(Criteria)
       IN  run' = [status |-> IF degraded THEN "degraded" ELSE "completed",
                   score |-> scored.score, band |-> scored.band,
                   hasBlocker |-> scored.hasBlocker, total |-> scored.total,
                   evaluated |-> scored.evaluated, abstained |-> scored.abstained,
                   cost |-> MapThenSumSet(LAMBDA r : answer[r].cost, DOMAIN answer)]
    /\ UNCHANGED <<request, engineVars, snapshot>>

Ended == run.status \in {"completed", "degraded"}

Next ==
    \/ Resolve
    \/ EngineStep /\ UNCHANGED <<snapshot, run>>
    \/ Persist
    \/ Ended /\ UNCHANGED vars

Spec == Init /\ [][Next]_vars

(* One thread runs the loop to its end, and every call of a model times    *)
(* out in the end.                                                         *)
FairSpec == Spec /\ WF_vars(Next)

-----------------------------------------------------------------------------
Answers == [verdict : Verdicts, severity : Severities, cost : Nat,
            why : {"scope", "measured", "off", "ceiling", "judged"}]

TypeOK ==
    /\ asset \in Assets /\ provider \in BOOLEAN /\ snapshot \subseteq Rows
    /\ rules \subseteq snapshot
    /\ DOMAIN answer \subseteq rules /\ answer \in [DOMAIN answer -> Answers]
    /\ spent \in Nat /\ judged \in Nat /\ calls \in Nat
    /\ page \in {"unread", "read"} /\ off \in BOOLEAN /\ degraded \in BOOLEAN
    /\ judging \subseteq Unanswered
    /\ vote \in [allowance : Nat, cost : Nat, left : Nat, heard : Nat, escalated : BOOLEAN]
    /\ run.status \in {"queued", "running", "completed", "degraded"}

AxisDepth == [subBrands |-> 1, markets |-> 2, channels |-> 3, assetTypes |-> 4, campaigns |-> 5]

(* a names the narrowest axis that only one of the two names.              *)
Narrower(a, b) ==
    \E axis \in Constrained(a) \ Constrained(b) :
        \A other \in Constrained(b) \ Constrained(a) : AxisDepth[other] < AxisDepth[axis]

(* The narrowest axis decides which rule of a key is in force, however     *)
(* many broader axes the others name (a campaign's exemption is never      *)
(* outvoted, specificity.ts); where the axes are the same, the brand's own *)
(* rule stands over an inherited one, and a later version over an earlier. *)
NarrowestAxisDecides ==
    \A w \in rules : \A q \in snapshot \ {w} :
        (q.key = w.key /\ ScopeMatches(q.scope, asset)) =>
            /\ ~Narrower(q.scope, w.scope)
            /\ Constrained(q.scope) = Constrained(w.scope) =>
                  /\ ~(q.pack = Own /\ w.pack # Own)
                  /\ (q.pack = Own) = (w.pack = Own) => q.version <= w.version

(* The engine tests the scopes again in its own way and disagrees with the *)
(* control plane on one spelling: "*" is no constraint to isWildcard, but  *)
(* a value like any other to rule_in_scope.  A rule that was resolved for  *)
(* the asset is turned away, as not applicable, exactly when it spells     *)
(* "*" on an axis where the asset has a value; in whatever else the two    *)
(* tests differ (a missing coordinate fits here and does not fit there,    *)
(* two axes are not looked at here), nothing that was resolved is lost.    *)
TurnedAwayForWildcards ==
    \A r \in DOMAIN answer :
        answer[r].why = "scope" <=>
            \E axis \in EngineAxes : r.scope[axis] = {Wild} /\ asset[axis] \notin {Unset, Wild}

(* A criterion that nobody decided does not move the score, whatever its   *)
(* dimension and severity: the score is that of the others, and lies       *)
(* between what a fail and what a pass would have made of it.              *)
GapsAreNeutral ==
    (run.status \in {"completed", "degraded"} /\ run.score # NoScore) =>
        \A r \in DOMAIN answer : answer[r].verdict \in Abstained =>
            LET others == Criteria \ {Criterion(r, answer[r].verdict)}
            IN  /\ run.score = Score(others)
                /\ Score(others \cup {Criterion(r, "fail")}) <= run.score
                /\ run.score <= Score(others \cup {Criterion(r, "pass")})

(* Whatever runs out or fails, the run is stored in the end, with an       *)
(* answer to each of its rules.                                            *)
EveryRuleIsAnswered == <>(Ended /\ run.total = Cardinality(rules))
=============================================================================
