------------------------------ MODULE Pipeline ------------------------------
(***************************************************************************)
(* One run of the engine (pipeline.py, run_analysis): the rules of the     *)
(* request in the order of their tiers, the judge that votes on the        *)
(* semantic ones (judge.py, evaluate), and the ceiling on what that costs. *)
(* What a measurement or a model says is left to choice, with one          *)
(* exception: an answer costs what the calls behind it cost.               *)
(***************************************************************************)
EXTENDS Scopes, Scoring

CONSTANTS
    Ceiling,    \* costCeilingUsd
    Prices,     \* what one call of a model may cost
    K,          \* selfConsistencyK: samples of a vote
    EscalateK,  \* samples of a vote whose first one was unsure
    Says,       \* verdicts that an analyzer or a sample may give
    Named       \* severities that the judge may name in place of the rule's

ASSUME BudgetAssumption ==
    /\ Ceiling \in Nat \ {0} /\ K \in Nat \ {0} /\ EscalateK \in Nat
    /\ Prices \subseteq Nat
    /\ Says \subseteq Verdicts /\ Named \subseteq Severities

VARIABLES
    asset,      \* the coordinates of the asset: channel, market, ...
    rules,      \* the rules of the request
    provider,   \* whether a model is configured
    answer,     \* results: the answers given so far
    spent,      \* ctx.cost_usd
    judged,     \* judge.cost_usd
    calls,      \* judge.calls
    page,       \* whether the text of the page has been read
    off,        \* ctx.deterministic_only
    degraded,
    judging,    \* the rule that is being voted on, if any
    vote        \* evaluate: its budget_remaining, cost, samples

budget == <<spent, judged, calls, page>>
engineVars == <<answer, budget, off, degraded, judging, vote>>
request == <<asset, rules, provider>>

Rank == [deterministic |-> 0, cv |-> 1, hybrid |-> 2, vlm |-> 3]
SeverityRank == [blocker |-> 0, major |-> 1, minor |-> 2, advisory |-> 3]

Answer(verdict, severity, cost, why) ==
    [verdict |-> verdict, severity |-> severity, cost |-> cost, why |-> why]

NoVote == [allowance |-> 0, cost |-> 0, left |-> 0, heard |-> 0, escalated |-> FALSE]

-----------------------------------------------------------------------------
(* r.tier is what the rule says, r.fn the tier of its analyzer, if there   *)
(* is one.                                                                 *)
RequiresLlm(r) == r.fn \in {"hybrid", "vlm"}

EffectiveTier(r) ==
    IF r.fn = "unregistered" \/ Rank[r.tier] > Rank[r.fn] THEN r.tier ELSE r.fn

(* Mutant: within a tier, by key alone.                                    *)
BeforeByKey(r, q) ==
    LET tr == Rank[EffectiveTier(r)]
        tq == Rank[EffectiveTier(q)]
    IN  tr < tq \/ (tr = tq /\ r.key < q.key)

(* The overall judgment goes last in its tier, blockers first.             *)
Before(r, q) ==
    LET tr == Rank[EffectiveTier(r)]
        tq == Rank[EffectiveTier(q)]
        sr == SeverityRank[r.severity]
        sq == SeverityRank[q.severity]
    IN  \/ tr < tq
        \/ tr = tq /\ ~r.overall /\ q.overall
        \/ tr = tq /\ r.overall = q.overall /\ (sr < sq \/ (sr = sq /\ r.key < q.key))

Unanswered == rules \ DOMAIN answer

(* The rule whose turn it is.                                              *)
InTurn ==
    {r \in Unanswered : judging = {} /\ \A q \in Unanswered \ {r} : Before(r, q)}

Give(r, a) ==
    answer' = [q \in DOMAIN answer \cup {r} |-> IF q = r THEN a ELSE answer[q]]

-----------------------------------------------------------------------------
Remaining == IF spent < Ceiling THEN Ceiling - spent ELSE 0

(* A vote may start if the rest of the budget covers a vote at the average *)
(* price so far; the first one may start in any case.                      *)
BudgetAllows ==
    /\ Remaining > 0
    /\ calls = 0 \/ Remaining * calls >= judged * K

(* An analyzer may want the text of the page.  A model reads it at most    *)
(* once a run, at a price that no ceiling limits; other drivers are free.  *)
ReadPage ==
    \/ UNCHANGED <<page, spent>>
    \/ /\ page = "unread"
       /\ page' = "read"
       /\ \E price \in {0} \cup Prices :
            /\ provider \/ price = 0
            /\ spent' = spent + price

-----------------------------------------------------------------------------
(* The answers of a rule in turn that need no vote.                        *)

(* deterministic and cv analyzers, and rules without any.                  *)
RunFree(r) ==
    /\ ~RequiresLlm(r)
    /\ \E verdict \in IF r.fn = "unregistered" THEN {"insufficient_evidence"} ELSE Says :
            Give(r, Answer(verdict, r.severity, 0, "measured"))
    /\ ReadPage
    /\ UNCHANGED <<request, judged, calls, off, degraded, judging, vote>>

SkipOff(r) ==
    /\ RequiresLlm(r) /\ off
    /\ Give(r, Answer("insufficient_evidence", r.severity, 0, "off"))
    /\ UNCHANGED <<request, budget, off, degraded, judging, vote>>

SkipCeiling(r) ==
    /\ RequiresLlm(r) /\ ~off /\ ~BudgetAllows
    /\ Give(r, Answer("insufficient_evidence", r.severity, 0, "ceiling"))
    /\ degraded' = TRUE /\ off' = TRUE
    /\ UNCHANGED <<request, budget, judging, vote>>

(* No judge, no picture, nothing to ask, an exception; or a measurement    *)
(* that makes the judgment of a hybrid rule needless.                      *)
Unvoted(r) ==
    /\ RequiresLlm(r) /\ ~off /\ BudgetAllows
    /\ \E verdict \in {"insufficient_evidence"}
                        \cup IF r.fn = "hybrid" THEN {"pass"} ELSE {"not_applicable"} :
            Give(r, Answer(verdict, r.severity, 0, "measured"))
    /\ ReadPage
    /\ UNCHANGED <<request, judged, calls, off, degraded, judging, vote>>

-----------------------------------------------------------------------------
(* The vote: evaluate is given what is left of the budget once and for all.*)
OpenVote(r) ==
    /\ RequiresLlm(r) /\ ~off /\ BudgetAllows /\ provider
    /\ ReadPage
    /\ judging' = {r}
    /\ vote' = [NoVote EXCEPT !.left = K, !.allowance = Remaining']
    /\ UNCHANGED <<request, answer, judged, calls, off, degraded>>

(* Mutant: the price of a vote is only checked before it.                  *)
AffordableAnyway == TRUE
Affordable == vote.cost < vote.allowance

(* A call that fails is free; one that answers is charged, whether or not  *)
(* the answer can be parsed.                                               *)
Sample ==
    /\ judging # {} /\ vote.left > 0 /\ Affordable
    /\ \/ /\ vote' = [vote EXCEPT !.left = @ - 1]
          /\ UNCHANGED <<judged, calls>>
       \/ \E price \in Prices, parsed \in {0, 1} :
            /\ vote' = [vote EXCEPT !.left = @ - 1, !.cost = @ + price, !.heard = @ + parsed]
            /\ judged' = judged + price
            /\ calls' = calls + 1
    /\ UNCHANGED <<request, answer, spent, page, off, degraded, judging>>

VoteIsOver == judging # {} /\ (vote.left = 0 \/ ~Affordable)

(* Mutant: as long as no second sample has been heard.                     *)
EscalateAgain ==
    /\ VoteIsOver /\ vote.heard = 1
    /\ EscalateK > 1 /\ Affordable
    /\ vote' = [vote EXCEPT !.left = EscalateK - 1, !.escalated = TRUE]
    /\ UNCHANGED <<request, answer, budget, off, degraded, judging>>
(* Only one sample, and that one unsure.                                   *)
Escalate ==
    /\ VoteIsOver /\ vote.heard = 1 /\ ~vote.escalated
    /\ EscalateK > 1 /\ Affordable
    /\ vote' = [vote EXCEPT !.left = EscalateK - 1, !.escalated = TRUE]
    /\ UNCHANGED <<request, answer, budget, off, degraded, judging>>

(* The majority answers, with the severity that the surest of it named,    *)
(* unless agreement and confidence are too low to stand by it.             *)
Conclude(r) ==
    /\ VoteIsOver
    /\ IF vote.heard = 0
       THEN Give(r, Answer("insufficient_evidence", r.severity, vote.cost, "judged"))
       ELSE \E majority \in Says, severity \in Named \cup {r.severity}, sure \in BOOLEAN :
                Give(r, Answer(IF sure \/ majority \notin {"pass", "fail"}
                               THEN majority ELSE "abstained",
                               severity, vote.cost, "judged"))
    /\ spent' = spent + vote.cost
    /\ judging' = {} /\ vote' = NoVote
    /\ UNCHANGED <<request, judged, calls, page, off, degraded>>

-----------------------------------------------------------------------------
(* A request arrives: rules out of scope are answered before all others.   *)
Begin(request_rules, deterministicOnly) ==
    /\ rules' = request_rules
    /\ answer' = [r \in {q \in request_rules : ~RuleInScope(q.scope, asset)} |->
                    Answer("not_applicable", r.severity, 0, "scope")]
    /\ off' = deterministicOnly /\ degraded' = deterministicOnly
    /\ UNCHANGED <<asset, provider, budget, judging, vote>>

EngineInit ==
    /\ rules = {} /\ answer = <<>>
    /\ spent = 0 /\ judged = 0 /\ calls = 0 /\ page = "unread"
    /\ off = FALSE /\ degraded = FALSE
    /\ judging = {} /\ vote = NoVote

EngineStep ==
    \/ \E r \in InTurn :
        RunFree(r) \/ SkipOff(r) \/ SkipCeiling(r) \/ Unvoted(r) \/ OpenVote(r)
    \/ Sample
    \/ Escalate
    \/ \E r \in judging : Conclude(r)

-----------------------------------------------------------------------------
(* Calls of the judge overshoot the ceiling by less than one call: no call *)
(* starts once the ceiling is reached, neither in a vote nor between two   *)
(* (the ceiling is there to keep a criterion from overshooting it,         *)
(* budget_allows_t2).                                                      *)
OvershootIsOneCall == judged = 0 \/ \E price \in Prices : judged < Ceiling + price

(* Within a tier the budget goes to the more severe: a rule turned away    *)
(* for the ceiling has nobody less severe judged in its place; and the     *)
(* overall judgment is asked for only when all others are answered.        *)
SevereFirst ==
    /\ \A r, q \in DOMAIN answer :
        (/\ answer[r].why = "ceiling" /\ answer[q].why = "judged" /\ ~r.overall
         /\ EffectiveTier(r) = EffectiveTier(q))
          => SeverityRank[q.severity] <= SeverityRank[r.severity]
    /\ \A r \in judging : r.overall =>
            \A q \in rules \ DOMAIN answer : q.overall
=============================================================================
