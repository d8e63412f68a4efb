------------------------------- MODULE Rules --------------------------------
(***************************************************************************)
(* The rules of a brand and everything that changes them: people create,   *)
(* edit and decide on rules (RulesService, RulePacksService.fork), jobs    *)
(* propose them (insertProposedRules) and calibrate them (calibrateRule).  *)
(* An edit reads the rule in one transaction and writes in another; all    *)
(* other operations are one transaction.                                   *)
(***************************************************************************)
EXTENDS Naturals, FiniteSets, FiniteSetsExt

CONSTANTS
    Rows,     \* rows that the table may have: a bound of the model
    Keys,
    Texts,    \* what a rule says: statement, scope, check, ...
    Editors,  \* edits in progress at the same time
    Fits,     \* what calibration may conclude: TRUE sends the rule to people
    NoRow, NoText

VARIABLES
    rule,  \* the table `rules`
    edit   \* what each edit read of the rule

ruleVars == <<rule, edit>>

(* "retired" stands for rejected and deprecated, which no code tells apart. *)
Decided == {"active", "retired"}
Statuses == {"proposed"} \cup Decided
Versions == Nat \ {0}

(* routed: autoRouteToHuman.  Who activated a rule and when is left out.   *)
Row == [status : Statuses \cup {"none"}, key : Keys, version : Nat,
        text : Texts, routed : BOOLEAN]
Edit == [row : Rows \cup {NoRow}, status : Statuses, text : Texts, routed : BOOLEAN]

Existing == {r \in Rows : rule[r].status # "none"}
(* Mutant: rejected and deprecated rules give up their versions.           *)
OfKeyKept(k) == {r \in Existing : rule[r].key = k /\ rule[r].status # "retired"}
OfKey(k) == {r \in Existing : rule[r].key = k}
NextVersion(k) == Max({0} \cup {rule[r].version : r \in OfKey(k)}) + 1

NoRule == [status |-> "none", key |-> CHOOSE k \in Keys : TRUE, version |-> 0,
           text |-> CHOOSE t \in Texts : TRUE, routed |-> FALSE]
NoEdit == [row |-> NoRow, status |-> "proposed", text |-> CHOOSE t \in Texts : TRUE,
           routed |-> FALSE]

RulesInit ==
    /\ rule = [r \in Rows |-> NoRule]
    /\ edit = [e \in Editors |-> NoEdit]

-----------------------------------------------------------------------------
(* Every insert takes a row that is free; rules_brand_key_version_uq keeps *)
(* two transactions from taking the same version.                          *)
Add(r, k, v, status, t) ==
    /\ rule[r].status = "none"
    /\ \A s \in OfKey(k) : rule[s].version # v
    /\ rule' = [rule EXCEPT ![r] =
                  [status |-> status, key |-> k, version |-> v, text |-> t,
                   routed |-> FALSE]]

(* create: the caller may ask for an active rule at once.                  *)
Create(r, k, t, status) ==
    /\ Add(r, k, NextVersion(k), status, t)
    /\ UNCHANGED edit

(* insertProposedRules: machines propose; a batch is several steps.        *)
Propose(r, k, t) ==
    /\ Add(r, k, NextVersion(k), "proposed", t)
    /\ UNCHANGED edit

(* fork: the brand's own copy of a template, unless it has a rule of that  *)
(* key already.                                                            *)
Fork(r, k, t, status) ==
    /\ OfKey(k) = {}
    /\ Add(r, k, 1, status, t)
    /\ UNCHANGED edit

(* update, first transaction: the rule as it is now.                       *)
BeginEdit(e, r) ==
    /\ edit[e] = NoEdit
    /\ r \in Existing
    /\ edit' = [edit EXCEPT ![e] =
                  [row |-> r, status |-> rule[r].status, text |-> rule[r].text,
                   routed |-> rule[r].routed]]
    /\ UNCHANGED rule

(* Mutant: the request is written as it came, a status it leaves out, too.  *)
EditInPlaceUnasked(e, t, status) ==
    /\ edit[e] # NoEdit
    /\ edit[e].status # "active"
    /\ rule' = [rule EXCEPT
         ![edit[e].row].text = IF t = NoText THEN @ ELSE t,
         ![edit[e].row].status = status]
    /\ edit' = [edit EXCEPT ![e] = NoEdit]

(* update of a rule that was not active: in place, whatever it is now.     *)
(* What the request leaves out stays as it is.                             *)
EditInPlace(e, t, status) ==
    /\ edit[e] # NoEdit
    /\ edit[e].status # "active"
    /\ rule' = [rule EXCEPT
         ![edit[e].row].text = IF t = NoText THEN @ ELSE t,
         ![edit[e].row].status = IF status = "as it is" THEN @ ELSE status]
    /\ edit' = [edit EXCEPT ![e] = NoEdit]

(* update of a rule that was active: version + 1, and the old row retires. *)
EditAsVersion(e, r, t, status) ==
    /\ edit[e] # NoEdit
    /\ edit[e].status = "active"
    /\ LET old == edit[e].row
           k == rule[old].key
           v == rule[old].version + 1
       IN /\ rule[r].status = "none"
          /\ \A s \in OfKey(k) : rule[s].version # v
          /\ rule' = [rule EXCEPT
                ![r] = [status |-> status, key |-> k, version |-> v,
                        text |-> IF t = NoText THEN edit[e].text ELSE t,
                        routed |-> edit[e].routed],
                ![old].status = "retired"]
    /\ edit' = [edit EXCEPT ![e] = NoEdit]

(* The insert met a version that exists, and the transaction rolled back.  *)
RefuseEdit(e) ==
    /\ edit[e] # NoEdit
    /\ edit[e].status = "active"
    /\ \E s \in OfKey(rule[edit[e].row].key) : rule[s].version = rule[edit[e].row].version + 1
    /\ edit' = [edit EXCEPT ![e] = NoEdit]
    /\ UNCHANGED rule

(* bulkDecision, of rules in any status.                                   *)
BulkDecision(chosen, status) ==
    /\ rule' = [r \in Rows |->
                  IF r \in chosen
                  THEN [rule[r] EXCEPT !.status = status]
                  ELSE rule[r]]
    /\ UNCHANGED edit

(* calibrateRule writes the fit to all versions of the key.                *)
Calibrate(k, routed) ==
    /\ rule' = [r \in Rows |->
                  IF r \in OfKey(k) THEN [rule[r] EXCEPT !.routed = routed] ELSE rule[r]]
    /\ UNCHANGED edit

RulesNext ==
    \/ \E r \in Rows, k \in Keys, t \in Texts :
         \/ Propose(r, k, t)
         \/ \E status \in {"proposed", "active"} :
              Create(r, k, t, status) \/ Fork(r, k, t, status)
    \/ \E e \in Editors :
         \/ \E r \in Rows : BeginEdit(e, r)
         \/ \E t \in Texts \cup {NoText}, status \in Statuses \cup {"as it is"} :
              EditInPlace(e, t, status)
         \/ \E r \in Rows, t \in Texts \cup {NoText}, status \in {"proposed", "active"} :
              EditAsVersion(e, r, t, status)
         \/ RefuseEdit(e)
    \/ \E chosen \in (SUBSET Existing) \ {{}}, status \in Decided : BulkDecision(chosen, status)
    \/ \E k \in Keys, routed \in Fits : Calibrate(k, routed)
=============================================================================
