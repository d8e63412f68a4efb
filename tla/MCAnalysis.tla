----------------------------- MODULE MCAnalysis -----------------------------
EXTENDS Analysis

CONSTANTS accessibility, own, wild, unset, de, feed, banner, launch

Everywhere == [axis \in Axes |-> {}]
Rule(key, version, pack, scope, tier, fn, severity, dimension, weight) ==
    [key |-> key, version |-> version, at |-> version, pack |-> pack, scope |-> scope,
     tier |-> tier, fn |-> fn, overall |-> FALSE, severity |-> severity,
     dimension |-> dimension, weight |-> weight]

Stacked == [Everywhere EXCEPT !["subBrands"] = {wild}, !["markets"] = {de},
                              !["channels"] = {feed}, !["assetTypes"] = {banner}]
InCampaign == [Everywhere EXCEPT !["campaigns"] = {launch}]

MCRows == {
    \* one key, four rows: shipped, the brand's own, two exemptions
    Rule(1, 2, accessibility, Everywhere, "deterministic", "deterministic", "major", "access", 1),
    Rule(1, 1, own, Everywhere, "deterministic", "deterministic", "minor", "access", 2),
    Rule(1, 3, own, Stacked, "cv", "cv", "major", "access", 1),
    Rule(1, 4, own, InCampaign, "cv", "cv", "minor", "access", 1),
    \* judged rules, one with a wildcard, one declared below its tier
    Rule(2, 1, own, [Everywhere EXCEPT !["channels"] = {wild}],
         "vlm", "vlm", "minor", "voice", 1),
    Rule(3, 1, own, Everywhere, "deterministic", "vlm", "blocker", "voice", 2),
    Rule(4, 1, own, Everywhere, "hybrid", "hybrid", "major", "logo", 1),
    [Rule(5, 1, own, Everywhere, "vlm", "vlm", "major", "overall", 1) EXCEPT !.overall = TRUE]}

MCAssets == {
    [Everywhere EXCEPT !["subBrands"] = unset, !["markets"] = de, !["channels"] = feed,
                       !["assetTypes"] = banner, !["campaigns"] = launch],
    [axis \in Axes |-> unset]}

MCDimensions == {"access", "voice", "logo", "overall"}
MCWeights == [d \in MCDimensions |-> IF d = "voice" THEN 2 ELSE 1]
=============================================================================
