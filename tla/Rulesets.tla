------------------------------ MODULE Rulesets ------------------------------
(***************************************************************************)
(* Compilation and publication of a brand's rules, by the API              *)
(* (RulesetCompilerService.publish) and by the worker (compileRuleset),    *)
(* while the rules change.  The worker does it in one READ COMMITTED       *)
(* transaction and the API in two, which see the same: each statement      *)
(* reads what is committed when it starts.                                 *)
(***************************************************************************)
EXTENDS Rules

CONSTANTS
    Publishers,   \* publications in progress at the same time
    MaxRulesets   \* bound of the model: snapshots

ASSUME BoundsAssumption == IsFiniteSet(Rows) /\ MaxRulesets \in Nat
ASSUME NoneAssumption ==
    /\ Keys # {} /\ Texts # {} /\ Fits \subseteq BOOLEAN
    /\ NoRow \notin Rows /\ NoText \notin Texts

VARIABLES
    rulesets,     \* the table `rulesets`, by what `compiled` holds
    active,       \* brands.active_ruleset_id: at most one snapshot
    publication,  \* what each publication holds
    enforced      \* history: contents of all rules that were ever active

vars == <<ruleVars, rulesets, active, publication, enforced>>

(* What a compiled rule holds, and what of it the hash covers.             *)
Compiled(r) == [row |-> r, key |-> rule[r].key, version |-> rule[r].version,
                text |-> rule[r].text, routed |-> rule[r].routed]
Hashed(c) == [key |-> c.key, version |-> c.version, text |-> c.text]
Hash(snapshot) == {Hashed(c) : c \in snapshot}

CompiledRule == [row : Rows, key : Keys, version : Versions, text : Texts, routed : BOOLEAN]

Publication == [pc : {"idle", "lookup", "insert"}, snapshot : SUBSET CompiledRule]
NoPublication == [pc |-> "idle", snapshot |-> {}]

InForce == {r \in Rows : rule[r].status = "active"}

Init ==
    /\ RulesInit
    /\ rulesets = {}
    /\ active = {}
    /\ publication = [p \in Publishers |-> NoPublication]
    /\ enforced = {}

-----------------------------------------------------------------------------
(* Mutant: what was proposed is compiled, too.                             *)
SnapshotOfAll == {Compiled(r) : r \in {x \in Rows : rule[x].status \in {"active", "proposed"}}}

(* compile: the active rules.                                              *)
Snapshot == {Compiled(r) : r \in InForce}

Compile(p) ==
    /\ publication[p].pc = "idle"
    /\ publication' = [publication EXCEPT ![p] = [pc |-> "lookup", snapshot |-> Snapshot]]
    /\ UNCHANGED <<ruleVars, rulesets, active, enforced>>

SameHash(p) == {s \in rulesets : Hash(s) = Hash(publication[p].snapshot)}

(* A ruleset that has the hash already is pointed at.                      *)
Reuse(p) ==
    /\ publication[p].pc = "lookup"
    /\ \E s \in SameHash(p) : active' = {s}
    /\ publication' = [publication EXCEPT ![p] = NoPublication]
    /\ UNCHANGED <<ruleVars, rulesets, enforced>>

FindNone(p) ==
    /\ publication[p].pc = "lookup"
    /\ SameHash(p) = {}
    /\ publication' = [publication EXCEPT ![p].pc = "insert"]
    /\ UNCHANGED <<ruleVars, rulesets, active, enforced>>

(* Mutant: rulesets_brand_hash_uq is missing.                              *)
InsertAgain(p) ==
    /\ publication[p].pc = "insert"
    /\ Cardinality(rulesets) < MaxRulesets
    /\ rulesets' = rulesets \cup {publication[p].snapshot}
    /\ active' = {publication[p].snapshot}
    /\ publication' = [publication EXCEPT ![p] = NoPublication]
    /\ UNCHANGED <<ruleVars, enforced>>

(* The snapshot is written and pointed at, unless rulesets_brand_hash_uq   *)
(* refuses it and all is rolled back.                                      *)
Insert(p) ==
    /\ publication[p].pc = "insert"
    /\ \/ /\ SameHash(p) # {}
          /\ UNCHANGED <<rulesets, active>>
       \/ /\ SameHash(p) = {}
          /\ Cardinality(rulesets) < MaxRulesets
          /\ rulesets' = rulesets \cup {publication[p].snapshot}
          /\ active' = {publication[p].snapshot}
    /\ publication' = [publication EXCEPT ![p] = NoPublication]
    /\ UNCHANGED <<ruleVars, enforced>>

ChangeRules ==
    /\ RulesNext
    /\ enforced' = enforced \cup {Hashed(Compiled(r))' : r \in InForce'}
    /\ UNCHANGED <<rulesets, active, publication>>

Next ==
    \/ ChangeRules
    \/ \E p \in Publishers : Compile(p) \/ Reuse(p) \/ FindNone(p) \/ Insert(p)

Spec == Init /\ [][Next]_vars

-----------------------------------------------------------------------------
(* Properties *)

(* The types of the variables.                                             *)
TypeOK ==
    /\ rule \in [Rows -> Row]
    /\ edit \in [Editors -> Edit]
    /\ rulesets \subseteq SUBSET CompiledRule
    /\ active \subseteq rulesets
    /\ publication \in [Publishers -> Publication]
    /\ enforced \subseteq [key : Keys, version : Versions, text : Texts]

(* (key, version) names one row, and the versions of a key have no gaps,   *)
(* however creations, proposals, forks and edits of one key interleave     *)
(* (max + 1 in one place, current.version + 1 from an earlier read in      *)
(* another).                                                               *)
VersionsIdentify ==
    /\ \A r, s \in Existing :
         rule[r].key = rule[s].key /\ rule[r].version = rule[s].version => r = s
    /\ \A r \in Existing : \A v \in 1..rule[r].version :
         \E s \in OfKey(rule[r].key) : rule[s].version = v

(* "Republishing an identical snapshot is idempotent" (publish): no two    *)
(* rulesets have one hash, also when they are published at the same time.  *)
OneRulesetPerHash == \A s, t \in rulesets : Hash(s) = Hash(t) => s = t

History == INSTANCE RulesetHistory WITH
    published <- {Hash(s) : s \in rulesets}, current <- {Hash(s) : s \in active}

(* Publication keeps its promise to auditors: only rules that were active, *)
(* with the text they had then, ever reach a verdict, and what was         *)
(* published stays (docs/adr/0008).                                        *)
KeepsPromise == History!Spec

(* "The frozen, fully-resolved snapshot of every active rule at publish    *)
(* time" (docs/data-model.md): what a publication compiled is what the     *)
(* brand points at when it has succeeded.                                  *)
PublishesWhatItCompiled ==
    [][\A p \in Publishers : Reuse(p) => active' = {publication[p].snapshot}]_vars
=============================================================================
