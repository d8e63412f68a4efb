--------------------------- MODULE RulesetHistory ---------------------------
(***************************************************************************)
(* What publication promises whoever audits a verdict: published snapshots *)
(* are never withdrawn or changed, the brand points at one of them, and    *)
(* each consists of rules that were in force, word for word.               *)
(***************************************************************************)
VARIABLES
    enforced,   \* rules that were active at some time, with their text
    published,  \* contents of the snapshots
    current     \* content of the brand's active ruleset, if it has one

history == <<enforced, published, current>>

Init ==
    /\ enforced = {}
    /\ published = {}
    /\ current = {}

Enforce ==
    /\ enforced \subseteq enforced'
    /\ UNCHANGED <<published, current>>

Publish ==
    /\ \E content \in SUBSET enforced :
         /\ current' = {content}
         /\ published' = published \cup {content}
    /\ UNCHANGED enforced

Next == Enforce \/ Publish

Spec == Init /\ [][Next]_history
=============================================================================
